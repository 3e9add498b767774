# Verification of the trainer back end

The back end plans corporate training: a department manager has a plan of
sessions suggested and confirmed for a learner, every session becomes a Teams
meeting that an AI trainer joins, and what the trainer finds becomes outcomes,
recommendations and reports. It is one Node process: an HTTP API (Express), a
worker that takes pg-boss jobs from the same Postgres, an in-process event bus
and cron jobs (`src/src/index.ts`). Around it are Microsoft Graph, the AI
trainer service, a blob store and a mail server.

Hardly anything here takes a lock. A handler reads a row, decides, awaits
something and writes the row; another request, job or webhook may have written it
in between. That is what the modules model: **one action per await that somebody
else can tell apart**, and every other handler, retry, crash or lost reply may
come between two of them.

## 1. The system

Paths are below `src/src/`; `modules/` is left out where the name says it.

| Component | State it keeps | Operations | Talks to | Modelled in |
|---|---|---|---|---|
| Job queue and worker (`queue/queue.service.ts`, `queues.ts`, `start-worker.ts`) | waiting, active and failed jobs, by queue and key | send (with a key, with a delay), remove by key, retry up to `retryLimit`, cron | every service and job | `MeetingLifecycle`, `ReportPipeline`, `Invitations` |
| Meeting lifecycle (`sessions/services/session.service.ts`, `sessions/repositories/session.repository.ts`, `queue/jobs/create-meeting.job.ts`, `meeting-update.job.ts`, `agent-dispatch.job.ts`, `integrations/microsoft/graph.service.ts`) | `Session`: status, graphEventId, joinUrl, meetingCancelledAt, times; the calendar at Graph | confirm, reschedule, cancel, suggest, remove; create, update, withdraw and re-create the event | queue, Graph, plans | `MeetingLifecycle` |
| Reminders, invitations, RSVP (`send-reminder.job.ts`, `send-session-confirmation-email.job.ts`, `sessions/services/rsvp-webhook.service.ts`) | `Invitation`; the delayed jobs | invite, remind, answer | meeting lifecycle, Graph | `Invitations` |
| Session completion (`agent/services/*`, `ai-trainer/services/external-session-complete.service.ts`, `queue/jobs/reconcile-external-sessions.job.ts`) | `Session.verdict`, `SessionOutcome`, `Assessment`, `LearnerOutcome` | complete by the agent, by the trainer's webhook, by the sweep; escalate; announce | event bus, recommendations, reports | `SessionCompletion` |
| Assessments, rubrics, questions (`assessments/*`, `agent/services/verdict.service.ts`) | `QuestionBank`, `Rubric` and its criteria, `Assessment` | replace, read by the agent | agent | `Rubrics`, `SessionCompletion` |
| Event bus (`events/`) | subscriptions only | publish: each handler runs apart, what it throws is logged | completion, reports | `SessionCompletion` |
| Reports (`reports/`, `queue/jobs/generate-report.job.ts`, `send-report.job.ts`) | `Report`: PENDING, GENERATED, SENT, FAILED; the PDF blob | create, generate, send, resend | queue, blobs, mail, AI trainer | `ReportPipeline`, `Briefings` |
| Training plans (`training-plans/services/training-plan.service.ts`) | `TrainingPlan`: DRAFT, CONFIRMED, CANCELLED, COMPLETED; its sessions | create, update, suggest, confirm, cancel, remove, withdraw a learner | sessions, recommendations | `TrainingPlans` |
| Plan builder, scheduling (`plan-builder.service.ts`, `session-scheduling.service.ts`) | none | rank, order, fit and place content on training days | plans | `PlanBuilding` |
| Snapshots (`plan-snapshot.service.ts`, `plan-content-media.service.ts`) | the copy of the catalogue a plan is built on, the plan's own rows and files | copy, add, remove, upload | plans, catalogue, blobs | `PlanSnapshots`, `ReportPipeline` |
| Recommendations (`recommendations/services/*`) | `Recommendation` and its items | generate, reject, reorder, replace, confirm, report gaps | completion, plans | `Recommendations` |
| Catalogue (`tracks`, `skills`, `levels`, `outcomes`) and assignments (`learners/services/learner-assignment.service.ts`) | ordered rows, what is enabled; `LearnerAssignment`, `LearnerOutcome` | create, rename, reorder, enable, duplicate, delete; assign, patch | plans, learners | `Catalogue` implementing `OrderedLists` |
| Users, invites, teams, learners (`users`, `invites`, `teams`, `learners`) | `PortalUser`, `PortalInvite`, `Team`, `Learner` | invite, accept, revoke; appoint managers; import, remove | auth, directory | `Roster` |
| Authentication (`auth/services/*`) | `RefreshToken`, `PkceEntry`, failed logins | sign in, refresh, log out, lock | users, invites | `Accounts` (over `Roster`) |
| Departments and the repair script (`departments`, `src/scripts`) | `Department` | create, rename, delete, move teams and learners, repair | teams, learners | `Departments` |
| AI trainer (`ai-trainer/services/*`, `queue/jobs/dispatch-ai-trainer.ts`) | `Session.externalSessionId`, `ExternalSession`, `SlideDeck` | dispatch, re-dispatch, generate slides, poll | meeting lifecycle | `MeetingLifecycle`, `SessionCompletion`, `TrainerDecks` |
| Content, media, cleanup, effectiveness (`content/`, `storage/`, `queue/jobs/cleanup.job.ts`, `recompute-effectiveness.job.ts`) | `MediaAsset`, blobs, `ContentEffectiveness`, old rows | upload, sign, delete, nightly sweeps | reports, assessments | `ReportPipeline`, `Sweeps`, `Briefings` |
| Analytics (`analytics/services`) | none | a learner's, a team's, the organization's figures, trends | all of it | `Figures` |
| Lists and guards (`common/repositories/base.repository.ts`, `common/guards`) | none | page by cursor, scope to a manager's teams | every list | `Listings` |
| Seeds (`src/prisma/seed`) | demo rows | seed, again and again | database | `Seeds` |
| Notifications, mail templates, PDF, health, organizations, directory, public site, tenancy, AI service client | their own rows, or none | reads, append-only logs, proxies | - | not modelled (section 7) |

What is hard about it, and what makes each part correct:

* **Meeting lifecycle.** Three writers of one row (API request, `meeting.create`,
  `meeting.update`), each with a call to Graph between its read and its write;
  Graph may be slow, fail, take effect and lose the reply, or find the event
  deleted; a job is retried. Correct when: no event lives on without a row that
  names it; a cancelled session's event leaves the calendar and the session is
  not invited again; Teams ends at the row's time; an invited session still has
  its AI trainer coming.
* **Completion.** Three callers complete one session, in several transactions,
  and the announcement is an in-memory event. Correct when: nothing is announced
  before it is committed; a lost webhook does not lose the session; failures
  escalate although the calls that wrote them overlapped; whoever is owed a
  report gets one.
* **Reports.** A job that fails, is retried or dies between the PDF, the row and
  the next job; a nightly sweep that compares a listing of the store with rows it
  read at other moments. Correct when a created report settles, SENT means mailed,
  a blob is there as long as a row names it and goes when none does.
* **Plans.** Create, suggest, confirm and cancel overlap and each decides on a status
  it read. Correct when a learner has one open plan, its live sessions are that
  plan's, a confirmed session is to have a meeting, and a proposal teaches what is
  due, in order.
* **Catalogue.** Orders and names are checked on a read and written later. Correct
  when each list stays a list, names stay unique, and the database refuses only
  what somebody else wrote meanwhile.
* **People.** A first sign-in writes user, invite and teams one after the other; a
  token is rotated by two writes. Correct when a waiting team gets its manager, and
  a login is one session that ends when it is logged out of or stolen from.
* **The rest.** What replaces rows by deleting and creating them (rubrics), numbers
  read one after the other (figures, lists), and jobs that work off what they read
  at their start (sweeps, seeds) is correct when nothing came between, and says
  nothing false about a single row even then.

`PROJECT.json` lists the hazards of each, at the line where they bite.

## 2. Plan

Done: the modules in the order of damage, from meetings over completion, reports and
plans to the services around them; the refinement of `OrderedLists` by `Catalogue`; the
proofs of section 5, which take the invariants of `MeetingLifecycle`,
`SessionCompletion`, `ReportPipeline` and `TrainingPlans` and, over whatever else runs
beside them, those of all the services of `BackOffice` and of `Accounts`,
`TrainerDecks`, `Invitations` and `PlanSnapshots` in `Portal`.

To come, in this order:

1. The rest of `Portal`, in the same way: `TeamsGetTheirManager`, the refusals of `Roster`
   and the types of `Roster` and `Recommendations`.
2. `ProposalIsSound` as far as it needs no induction over the sequences of
   `PlanBuilding`.

No module declares a `RECURSIVE` operator.

## 3. What is modelled

### How the modules fit together

    MeetingLifecycle                     three queues, Graph, one row
    SessionCompletion                    completion, outcomes, event bus
    ReportPipeline                       reports, blobs, the sweep of blobs
    TrainingPlans  -> PlanBuilding       plans; the algorithms as operators
    Portal     = Accounts -> Roster, Recommendations -> PlanBuilding, TrainerDecks,
                 Invitations, PlanSnapshots, Rubrics, Figures
    BackOffice = Catalogue => OrderedLists, Seeds, Departments, Sweeps,
                 Briefings, Listings

    MeetingLifecycleProofs, SessionCompletionProofs, ReportPipelineProofs,
    TrainingPlansProofs                  each about the module it is named for
    CatalogueProofs <- ServicesProofs <- BackOfficeProofs
                                         a service's lemmas, and their composition
    PortalProofs                         the same for Portal

`->` is EXTENDS or INSTANCE (`<-` the other way round), `=>` is "implements". What `Portal` and `BackOffice`
compose are services that keep their own tables and share the requests served at
once: `Calls`, which all of them extend, has `call[c]` (the request that `c` is in the middle
of, what it has read, and how it ended), `left` (how often each operation may
still be asked for, a bound) and `crossed` (what others wrote since a request made
its reads). A service adds to `crossed` the names of what it writes; a property
uses it to tell "the database refused, and somebody wrote that meanwhile" from
"the database refused". No action is guarded by it. `Asks` in the two compositions
keeps TLC from evaluating a service whose operations the present case does not ask
for; it never disables a step.

### `MeetingLifecycle`

`session[s]` is the row, `event[e]` the calendar entry `e` at Graph, `creates`,
`updates` and `dispatch` the waiting jobs of the three queues (counted by session
and tries made), `failed` the jobs out of retries, `worker[w]` the attempt a
worker is in the middle of and `request[r]` the API call.

| Code | Actions |
|---|---|
| `startWorker`, `QueueService` | `TakeCreate`, `TakeUpdate`, `TakeDispatch`; `Throw` (a retry, or among the failed), `Finish`, `AttemptDies`, `DispatchDies` |
| `processCreateMeetingJob` | `CreateRead` (all early returns), `RecoverJoinUrl`, `CreateMeeting`, `CreateMeetingWithoutJoinUrl`, `CreateMeetingReplyLost`, `RecordGraphEventOnly`, `RecordMeetingCreated`, `EnqueueRemovalJob`, `ArmDispatch` |
| `processMeetingUpdateJob` | `UpdateRead`, `CancelMeeting`, `MarkMeetingCancelled`, `UpdateMeeting` (whose reply may be lost after the PATCH took effect), the re-creation through `CreateMeeting`, `DisarmDispatch`, `ArmDispatch` |
| `processAgentDispatchJob`, `dispatchToAiTrainer` | `TakeDispatch`, `RecordExternalSession` |
| `SessionService` | `RescheduleRow`, `EnqueueUpdate`; `CancelRead`, `CancelRow`, `EnqueueRemoval`, `DropJobs` |
| `TrainingPlanService` | `ConfirmPlan`, `EnqueueCreate`; suggest and remove: a cancel's steps, then `ReopenPlan` (a plan read as DRAFT is not written) or `DeleteRow` |
| `AgentSessionService.start`, completion | `SetStatus` |
| Graph and Outlook (external) | `TeamsProvisions`, `DeletedInOutlook`, `GraphCallFails` |

Abstracted: a time is the number of reschedules that led to it; `plan[s]` is the
status of the plan of `s`; mails are in `Invitations`; audit and notifications are left out.

### `SessionCompletion`

`session`, `sessionOutcome`, `assessments`, `learnerOutcome` and `assigned` are
the rows; `trainer` is what the AI trainer has on each external session, `stored`
the evaluations kept; `call[c]` is how far a complete (by an agent, a webhook or
the sweep) has got, `sweep` the batch in progress, `handler` and `escalating` the
event-bus handlers under way, `report` and `generate` the rows and jobs they leave.

| Code | Actions |
|---|---|
| `CompleteSessionService`, `ExternalSessionCompleteService` | `Lookup`, `Deliver`, `LookupExternal`, `StoreEvaluation`, `FindAssessment`, `CreateAssessment`, `CompleteSession`, `Publish` |
| `updateLearnerOutcomes`, `applyVerdict` | `ReadAssignment`, `FindOutcome`, `ApplyVerdict`, `Recommend`, `RecommendFails` |
| `session-completed-handlers.ts`, `EventBus` | `CreateReport`, `EnqueueGenerate`, `HandlerFails`, `Escalate`, `EscalationFails` |
| `processReconcileExternalSessionsJob` | `StartSweep`, `SweepUnreachable`, `SweepPasses`, `SweepCompletes` |
| cancel, deactivation, re-dispatch, process exit | `CancelRead`, `CancelRow`, `Withdraw`, `Redispatch`, `Crash` |

Abstracted: one learner; a finding on an outcome is passed, failed or unmatched,
whatever titles it was matched by; scores and texts are left out.

### `ReportPipeline`

`report`, `creator`, `generate`, `send`, `failed` and `worker` are a report's row,
the call that creates it, its waiting and failed jobs and the attempts under way;
`mailed` counts the recipients reached, `cut` keeps the reports whose process
stopped between a row and the job it owed. `blob`, `upload`, `row`, `parents` and
`deletion` are the store, the uploads, the rows naming a file, the content item and
the plan they hang on, and the deletions; `sweep` is what the night's job has read.

| Code | Actions |
|---|---|
| `createPlanSummaryReports`, the report handler | `CreateReport`, `EnqueueGenerate`, `CreatorStops` |
| `processGenerateReportJob` | `StartGenerate`, `UploadPdf`, `MarkGenerated`, `EnqueueSend`; `GenerateThrows`, `MarkFailed`; `GenerateDies` |
| `processSendReportJob` | `StartSend`, `FetchPdf`, `Mail`, `MarkSent`, `Notify`, `SendThrows` |
| `ReportService.resend` | `Resend`, `EnqueueResend`, `ResendStops` |
| `MediaService`, `PlanContentMediaService` | `UploadFile`, `CreateRow`, `UploadStops` |
| `ContentService.delete`, `MediaService.delete` | `StartDeletion`, `FindFile`, `DeleteBlob`, `DeleteRow`, `DeleteItem`, `DeletionStops` |
| `deleteWithSnapshots`, a learner's deletion | `DeletePlan` |
| `sweepOrphanedBlobs` | `StartSweep`, `Read`, `SweepDeletes`, `SweepPasses`, `EndSweep`, `SweepStops`; `Age` is a blob's 24 hours |

Abstracted: a blob's key is its owner; one organisation, one content item, one plan.
Two assumptions of the code are in the guard of `Age`: no upload, no report with its
retries, and no sweep's reads last a day. Without the last, TLC shows a file lost
that was uploaded between the two reads.

### `PlanBuilding` and `TrainingPlans`

`PlanBuilding` is the recommendation pipeline and the plan builder as operators:
`Score` and `OutcomePriority` (in thousandths), `Pool`, `KeepTopPerOutcome`,
`Order` (Kahn's algorithm by score, what is on a cycle last), `Slot` (what fits a
session) and `Suggest`, which a manager sees. Sequences stand for the code's arrays
and `Map`s because their order decides ties. `FromCatalogue` and `FromSnapshot` are
the two sources a plan may be built from.

`TrainingPlans` has one learner's plans, sessions and meeting jobs: `Create` (with
the cancellation of the plan before), `Update`, `SuggestPlan`, `Build`, `Replace`
(under the row lock, `session.repository.ts:119`), `Confirm`, `ConfirmWrites`,
`Cancel`, `CancelSession` (a loop, one session after the other), `RemovePlan`,
`DeleteSessions`, `DeletePlan`, `Reschedule`, `Move`, `Withdraw`, `NextPlan`,
`Deactivate`, `CopyTrack` and `RemoveSkill`. Merged, because no other call reads in
between what they write: the read, write and listing at the head of a cancel; the
reopening and the reads of a suggest; confirm's write and its enqueues (the death of the process between them is in
`MeetingLifecycle`);
`SessionService.cancel`, whose steps `MeetingLifecycle` has. A completion's writes are one
step (`SessionCompletion` has them). `LIVE` stands for SCHEDULED, INVITED and
IN_PROGRESS. A cancelled session's row stays; an id is used again only when nothing
refers to it any more.
### The services of `Portal`

| Module | Code | What its state and actions are |
|---|---|---|
| `Roster` | `auth.service.ts` (first sign-in), `portal-invite.service.ts`, `portal-user.service.ts`, `team.service.ts`, `learner-import.service.ts`, `learner.service.ts` | `SignIn`, `FindOrganization`, `CreateOrganization`, `WriteUser`, `Accept`, `FindTeams`, `FillManager` are the steps of a first sign-in, and `Crash` cuts it short; every other call is a read step and a write step. `chosen[t]` remembers what a team was last granted |
| `Accounts` | `auth.service.ts`, `token.service.ts`, `pkce-store.service.ts` | `PasswordSignIn` reads the count, `SaveAttempt` writes it; `Refresh`, `CreateToken`, `RetireToken` rotate a token, `CrashRotation` stops between; families, handshakes and their sweeps |
| `Recommendations` | `recommendation.service.ts`, `confirmation.service.ts`, `coverage-gap.service.ts` | `Generate`, `CreateRec`, `PersistItem`, `Notify`; `Edit`, `UpdateItem`, `CreateReplacement`, `OverrideItem`; `Confirm`, `ConfirmRec`. What is ranked comes from `PlanBuilding` |
| `TrainerDecks` | `ai-trainer.service.ts`, `external-session.service.ts`, `slide-deck.repository.ts` | `AskSlides` for one skill after the other, `FindDeck`, `SaveDeck`; `StartTrainer`, `CallTrainer`, `CreateExternal`, `Poll`; the trainer answers, refuses, or its answer is lost |
| `Invitations` | `create-meeting.job.ts`, `meeting-update.job.ts`, `send-reminder.job.ts`, `send-session-confirmation-email.job.ts`, `rsvp-webhook.service.ts` | one session's delayed jobs by the hour they are due, its invitation rows, the learner's answers and Microsoft's reports of them, in any order |
| `PlanSnapshots` | `plan-snapshot.service.ts`, `plan-content-media.service.ts` | `CopyTrack` reads skills, outcomes and content and writes the copy; `AddSkill`, `AddOutcome` write a catalogue row and its copy, and may be refused or stop between |
| `Rubrics` | `assessment.service.ts`, `session-context.service.ts` | `ClearBank`/`FillBank` and `SaveRubric`/`ClearCriteria`/`FillCriteria`; `Context` is the agent's reads one after the other |
| `Figures` | `performance.service.ts`, `trends.service.ts` | a learner's row, a team's figures (one step each), the organization's report team by team, trends in a caller's scope |

### The services of `BackOffice`

| Module | Code | What its state and actions are |
|---|---|---|
| `OrderedLists` | (the promise) | abstract: a list per parent; insert at the end, remove, rearrange as asked |
| `Catalogue` | `track.service.ts`, `level.service.ts`, `outcome.service.ts`, `skill.service.ts`, `department.service.ts`, `learner-assignment.service.ts` and their repositories | `TrackRow`, `ListRow`, `SkillRow`, `AssignmentRow`, `ProgressRow` are the tables, `Linked` their foreign keys, `OrdersDiffer` the unique order among siblings; each call's checks are one step and its writes another, transactions are one step; `Listing` maps the rows to `OrderedLists` |
| `Departments` | `department.service.ts`, `team.service.ts`, `learner.service.ts`, `backfill-learner-departments.ts` | departments, teams and learners; the script reads (`Repair`), moves one learner after the other (`MoveMisplaced`), judges one department after the other (`Judge`), deletes (`DeleteEmptied`) |
| `Sweeps` | `cleanup.job.ts`, `audit-log.repository.ts`, `recompute-effectiveness.job.ts` | batches read and then worked off beside four other sweeps that end or fail; `summed`, what the summaries add up to; a recompute's statistics written pair by pair |
| `Briefings` | `report-data.service.ts`, `session.service.ts`, `session-context.service.ts`, `media.service.ts` | where a report, a transcript and an agent's context come from: stored, asked for live, or done without |
| `Listings` | `base.repository.ts`, `authorize.guard.ts`, `learner.service.ts` | a list read page by page, each page guarded anew, and one learner behind his guard |
| `Seeds` | `prisma/seed/*.ts` | the script as a sequence of steps that upsert, or look up and create; interrupted, repeated, overlapping |

**Abstractions of these.** Other organizations, texts, audit rows and notifications are
left out throughout. A call's reads that only its own checks use are taken together,
where nothing but the checks' outcome could differ; a read followed by a write that
depends on it is always two steps. A Prisma `upsert` on a unique key is one
statement.
`Catalogue`: a patch of a
learner's outcomes is one outcome at a time; of a verdict it has that it may give and
take back ACHIEVED (`SessionCompletion` has the rest);
content, sessions and plan templates, which also hold on to its rows, are left out. `Roster`: an
administrator's stale token, and addresses that differ in case, are left out.
`Invitations` leaves out the jobs that remove a cancelled session's meeting
(`MeetingLifecycle`), and a reschedule's enqueue and removal are one step.
`PlanSnapshots` copies the content of all skills in one read. `Figures` takes the reads
for one team as one. `Departments` never removes learners or teams. `Seeds` has one row
of each kind and leaves out what rows say, so that it does not show that an upsert
writes a learner's progress back.

## 4. What the runs check

| Run | Instance | Shows |
|---|---|---|
| `MeetingAllFaults` | one session, two events, confirm, remove, start and complete, all eight kinds of fault, one retry | `TypeOK`; `CancelledNotReinvited`: no late reply revives a cancelled session |
| `MeetingConfirmed` | one session, three events, two confirms, a silent reschedule and a cancel; Graph fails or is slow; two retries; fair workers | `RemovalOwed`, `NoOrphanedMeeting`; `ConfirmedIsInvited` eventually |
| `MeetingMoved` | one booked session, two reschedules, a cancel, a suggest that replaces it; Graph fails or is slow; keyed sends dropped; fair workers | `MeetingIsManned`; `RescheduleReachesTeams` and, of the events of cancelled and of replaced sessions, `CancelledMeetingIsWithdrawn` eventually |
| `MeetingOverlap` | a confirm and a reschedule, nothing fails | refutes "never double-books" |
| `CompletionAllFaults` | one session, two external sessions, agent, sweep, every disturbance | `TypeOK`; `AnnouncedAfterCommit` |
| `CompletionFair` | two sessions of one outcome, a webhook and the sweep, one trainer out of reach, cancels; fair cron | `FailuresEscalate`; `LostWebhookRecovered` and `CompletionReported` eventually |
| `CompletionTwice` | one session, a webhook and the sweep | refutes "a safe no-op" on a second completion |
| `ReportsKept` | one report, two recipients, a resend, two senders, one retry of generation; a content file with two deletions, a plan's file; the sweep; every fault; fair nights | `TypeOK`; `NothingIsLost`: outside the two windows in `cut`, an unsent report is in hand or among the failed (`NoReportForgotten`), SENT was mailed (`SentWasMailed`), a named blob is there (`NamedBlobKept`); `ReportSettles` and `OrphanRemoved` eventually |
| `ReportsPlanFiles` | one plan's file and the sweep, nothing fails | refutes that the sweep deletes only blobs without an owning row |
| `PlanSuggested` | two plans, five sessions, two skills, four outcomes, five items with prerequisites (and a cycle); two calls at once out of every pair that matters; every proposal one plan may get | `SessionsBelong`: types, one proposal, one open plan, live sessions are the open plan's; `ConfirmedMeets`; `ProposalIsSound`: what is due, and only that, is taught, in order; `RefusedForLackOfDays` |
| `OfficeShared` | two calls at once on up to four tracks, levels and six outcomes; a seeding cut short after any step, two of them overlapping; two departments with the script; three transcripts in batches of two; two sessions the trainer may know; three learners in pages of one | `OfficeTypeOK`; `OneOfEach`: names and active assignments; `ListsKept`: `Catalogue` implements `OrderedLists`; `RefusedOnlyInRaces`; `CarriedForward`; `ScriptsHold`; `NightlyJobsHold`; `BriefingsAreTrue`; `ListsHold` |
| `PortalShared` | two calls at once: three people, three invites, four teams and learners; four tokens; two assignments and six items; two skills and trainers; one session over four hours; two plans of one level; a rubric and a bank; two learners in two teams | `PortalTypeOK`; `TeamsGetTheirManager`; `SignInHolds`; `RefusedForAReason`; `RecommendationsStand`; `DeckIsLatest`; `InvitationsHold`; `PlansOwnTheirAdditions`; `RubricsWeigh`; `FiguresAreTrue` |

Where a property is a conjunction of named parts (`NothingIsLost`, `SessionsBelong`,
`SignInHolds`, ...), the parts stand above it in its module, each with what it says.

**Exemptions.** The code gives some things away when calls overlap, and a property says
so by naming the overlap. They are: `raced`,
`overlapped`, `doubled`, `mislaid`, `mixed`, `mingled`, `partial`, `crowded`, `sownBeside`,
`unsummed`, `cut` and `astray`, each commented where it is declared, and what the
properties of `TrainingPlans` say of `crossed`. They are narrow: an exemption is of the
one row that the overlapping calls, or the crash, were about. Section 6 lists what
happens in them.

**Bounds.** `Events` bounds the events ever created, `RetryLimit` the retries (4 in
the code; one shows a retry, two show the last one failing), `Requests`, `Agents`
and `Webhooks` the calls made, each at most once. Rows of different sessions are
never read together in `MeetingLifecycle` (the only thing sessions share there is
the workers), so one session and many calls on it find more than many sessions;
`SessionCompletion` needs two sessions, because they share the learner's outcomes
and the sweep's batch. There is one worker per queue, as `localConcurrency: 1` and
one process give (two `Senders` stand for two processes); the proofs allow any
number. In `TrainingPlans`, `Portal` and `BackOffice` the constant `Cases` is a set of
starting states with the calls that may be made from each, so that runs of unrelated
services add up instead of multiplying; `left` counts them down, and two callers
are enough for one call to come between any two steps of another (a third call
comes before or after, or a caller makes it once it is idle again). `Horizon` bounds
the hours, `Limit` a page, `BatchSize` a batch, `Ids` the sessions, and the id sets
the rows that are ever created: a creation that finds no id left waits for ever (`Room`,
`RowRoom`, `TokenRoom`, `RecRoom`, `ItemRoom`, `DeckRoom`, `MadeRoom`, `TrainerRoom`,
`MeetingRoom`), and since the theorems hold for id sets of every size this loses none of their cases. Symmetry is used in runs without
liveness only. One state constraint is used, in
`ReportsKept`: a behaviour has reports or files, not both. They meet in the sweep
only, which decides on each key by itself, and neither creating a report nor
uploading is an action with fairness, so the constraint cuts no fair continuation
off.

**Deadlock** is not checked in the meeting and completion runs, where the system rightly
stops when every request was made and every job has run, nor in `PlanSuggested`,
`OfficeShared` and `PortalShared`, whose behaviours end when no call is left. The
nightly sweep never does, so the report runs check it.

**Fairness.** `MeetingLifecycle`: weak fairness of each worker's steps (pg-boss
polls as long as the process is up) and of a request once it is received; no
request has to be made and no fault has to happen. Graph's provisioning of Teams is not fair: a
job that waits in vain runs out of retries and is seen among the failed. `SessionCompletion`: a call or a
handler that runs goes on, the cron fires again (`*/15`) and time passes; no agent
has to call and a webhook may never come. `ReportPipeline`: what has begun goes on
and queues are worked (weak); the sweep's first and second read, a deletion by the
sweep and the passing of a day each happen if they can again and again (strong),
since a day's outage of the store does not last for ever. A crash is not excluded by fairness; the
first two modules' liveness runs leave it out, because after one the code really loses what was only
in memory (below). The other modules state safety only: their calls are requests, and
whether one is made, or answered before the process stops, the code does not promise.

## 5. What is proved

Eight modules, for all values of the constants that satisfy the named assumptions of
the modules they extend: finite and disjoint sets of ids, `None` apart from everything
else, tables that start as the schema wants them (`CasesAssumption`, `StartAssumption`), rows
that are not `None` and pages and batches that have one (`ListingsAssumption`,
`SweepsAssumption`, `UnitsAssumption`), and operations whose names are not `None`
(`OfficeAssumption`, `PortalAssumption`).
Nothing is assumed about sizes: any number of callers, workers, rows, retries and
calls, where the runs have two callers and a handful of rows. TLC evaluates each
assumption on its runs.

| Theorem | States | Hypotheses |
|---|---|---|
| `TypeCorrect`, `CompletionTypeCorrect`, `ReportsTypeCorrect`, `PlansTypeCorrect`, `CatalogueTypeCorrect` | the `TypeOK` of each module | none |
| `OfficeTypeCorrect` | `OfficeTypeOK`: the types and foreign keys of every service of `BackOffice` | none |
| `CancelledStaysUninvited` | `CancelledNotReinvited` | none |
| `RemovalIsOwed` | `RemovalOwed` | `NoCrash`, `NoAgent` |
| `InvitedIsManned` | `MeetingIsManned` | `TrainerTakesIt`, `NoAgent` |
| `AnnouncementsFollowCommits` | `AnnouncedAfterCommit` | none |
| `RepeatedFailuresEscalate` | `FailuresEscalate` | `NothingFails` |
| `NothingIsEverLost` | `NothingIsLost` | none |
| `ConfirmedSessionsMeet` | `ConfirmedMeets` | none |
| `SessionsAlwaysBelong` | `SessionsBelong` | none |
| `ThereIsOneOfEach` | `OneOfEach` | none |
| `RefusalsNeedARace` | `RefusedOnlyInRaces` | none |
| `AssignmentsCarryForward` | `CarriedForward` | none |
| `BriefingsSayWhatIsSo` | `BriefingsAreTrue`, `BriefingsTypeOK` | none |
| `ListsShowWhatTheyMay` | `ListsHold`, `ListingsTypeOK` | none |
| `NightlyJobsAddUp` | `NightlyJobsHold`, `SweepsTypeOK` | none |
| `ScriptsDoWhatTheySay` | `ScriptsHold`, `SeedsTypeOK`, `UnitsTypeOK` | none |
| `SignInIsSound` | `SignInHolds` | none |
| `DecksAreLatest`, `DecksTyped` | `DeckIsLatest`, `DeckTypeOK` | none |
| `JobsFollowTheSession`, `InvitationsTyped` | `InvitationsHold`, `LetterTypeOK` | none |
| `AdditionsStayWithTheirPlan`, `SnapshotsTyped` | `PlansOwnTheirAdditions`, `TreeTypeOK` | none |

The hypotheses are faults or calls left out, and section 6 shows for each that the code
does not keep the property with them: `NoCrash` and `TrainerTakesIt` leave out a process
that dies (and a trainer that refuses), `NoAgent` the agent API's unconditional writes of
a status, `NothingFails` an error or an exit between a verdict and its announcement.

`SeedsAssumption` is of another kind. It has no constant in it: it says what the fold
`SownBy` makes of the fixed list `Script`, each step's row at its `Place`. The prover
cannot unfold a fold, TLC evaluates it, and nothing of the system's behaviour is in it.

The arguments:

* **Meetings.** `RemovalOwed` is not inductive: `RemovalInv` adds that an event an
  attempt holds was created, that a `meeting.update` attempt still owns its job, and that
  only a cancelled row is being marked. A step makes a cancelled row with a live event
  either by cancelling (the request then owes the job) or by attaching the event (the
  attempt then owes it), and whoever owes the removal keeps owing it. `MannedInv` adds
  that an invited session has its join URL and a trainer under way (`Attended`: a job, an
  attempt at it, or an attempt between taking the dispatch back and sending it anew),
  and that only a cancelled session loses its dispatch.
* **Completion.** `IInv` adds what each call in flight knows: past its transaction the
  session is committed, an outcome no longer in its list has an attempt, an evaluation
  carries a verdict, and a running handler still has a recipient. For escalation,
  `EscalationOK` speaks of failures already counted: the calls that still have one to
  count are excluded, a counted failure is an attempt, and of two the one counted
  second is being escalated. It rests on the increment being one statement
  (`applyVerdict`); counting from a value read earlier breaks it.
* **Reports.** `IInv` has a part for each hand a report passes through: one generation
  at a time, waiting or at work; no key before its blob; a young blob while its key is
  being written; what the sweep did not know when it began was not keyed then, so what
  it found old is nobody's. Reports and files share one behaviour in the theorem,
  which the run keeps apart.
* **Plans.** `IInv` says for every call in flight what it knows of the plan it works on
  (`CreateAt`, `WorksAt`, `ConfirmAt`, `SuggestAt`, `LoopAt`, `WithdrawAt`), each up to the
  overlaps it names, and `Noted`: two calls in flight together are in `crossed`.
* **The services of `BackOffice`.** A first section of lemmas says what beginning, going on,
  rereading, ending and crashing do to the calls. A step of one service *spares* the calls
  of every other (`Spares`), so that a service's invariant is proved over its own steps
  and then holds beside all the rest. An invariant of a service has the same form each
  time: what is so of the tables, and for every call in flight what it has read and
  still holds *unless it was told of a write since* (`crossed`).
  `CatalogueSound` is types, foreign keys, different orders, and that a row named by a call
  is where it was or gone for good; ids are not used again, which is what makes this
  last. `NamesInv`: a name about to be written is still free. `AssignInv`: an assign
  about to commit has retired all that are active. `RaceInv`: an insert's order is past
  all of its list, a reorder lists all rows, those that came later come last.
  `CarryInv`: an assign knows what its level offers and what its learner has achieved.
  `BriefInv`: what a report or transcript has taken up so far is of its own session.
  Lists: of the rows up to its cursor a list has read all but those that came at a time
  another has, and rows of different times are in order. Clean-up: the books balance,
  what the summaries say and what the one clean-up in hand still has to say come to what
  was removed (`Books`). Recompute: until another writes, a pair that no longer waits is
  as read. Repair: until another writes, who has been moved is where his team is, who
  waits is where he was, and what is emptied is what was foretold less what is still to
  be judged (`OnCourse`). Seeding: in a database that only seedings wrote, one at a
  time (`Plain`), every row stands in its step's place and no step behind the present
  one lacks its row.
* **The services of `Portal`** are put together likewise.
  Decks: whatever was made for a skill is covered by its deck or by a call that holds
  it and has yet to save it, and a call that looked for the deck knows whether there is
  one unless a deck was saved since. Accounts: the working tokens of a family, less
  those that a rotation in hand is about to retire, are at most one, unless a rotation
  came late; a count that a sign-in has read is the streak unless an attempt was saved
  since. Invitations: as long as the calls about the session do not overlap, one at most
  has written, and each set of jobs is what the session says but between that call's
  own steps; the last answer in Outlook is kept, or on its way, or its meeting is
  `astray`. Snapshots: tables only grow (`TreeGrows`), so that what a call has read stays;
  a row that was copied is nobody's own or was enabled; and an added skill is taught, or
  cut off, or its call is still adding.

Trying to prove some properties refuted them as they stood, and TLC then showed each
refutation on an instance that the runs now contain:

* `LiveSessionsBelong` lacked the crossing of a create and a withdrawal;
* `RefusedOnlyInRaces` allowed a reorder to clash after one overtaken insert only; two
  reorders and an insert that nothing overtook clash as well;
* `CarriedForward` and `Achieve` had no verdict that takes an achievement back, nor a
  patch that removes it, so that a commit on stale reads could only lack
  achievements, never have one too many.

Only model-checked, and why:

* liveness (`ConfirmedIsInvited`, `RescheduleReachesTeams`, `CancelledMeetingIsWithdrawn`,
  `LostWebhookRecovered`, `CompletionReported`, `ReportSettles`, `OrphanRemoved`): fairness,
  and with it `ENABLED`, is beyond the prover;
* `ProposalIsSound`, `RefusedForLackOfDays`: `PlanBuilding` folds over sequences and
  defines recursive functions, and what those compute for every input would need
  induction over data. In the proofs about `TrainingPlans` a proposal is whatever
  `Suggest` returns, of which they need only that its sessions are new;
* `ListsKept`: `Listing` is a sequence of the rows by rank, and each step would need that
  ranking a set with one more member appends, again an induction over data; its kernel,
  that orders differ and an insert comes last, is in `CatalogueSound` and `RaceInv`;
* the weights of `RubricsWeigh` and the figures of `FiguresAreTrue`: sums over a set
  (`MapThenSumSet`), likewise;
* `NoOrphanedMeeting`: the code keeps it only while one slot creates meetings, no reply is
  lost, nobody reschedules with notice, and no suggest or removal takes the row away. The
  run shows it for retries, slow Teams, overlapping confirms and a cancel, section 6 what
  happens beyond; a theorem under so many hypotheses would say no more than the run;
* `PortalTypeOK` beyond `DeckTypeOK`, `LetterTypeOK` and `TreeTypeOK`, and `TeamsGetTheirManager`,
  `RefusedForAReason` and `RecommendationsStand`: not yet (section 2).

## 6. What the code does not keep

Three disagreements of code and comments are kept as runs. TLC found the others on
instances of the same modules; the property that fails is in the module and the
instance is given by the constants that differ from `MeetingOverlap.cfg` or
`CompletionTwice.cfg`.

| Property | Instance | What happens |
|---|---|---|
| `NeverDoubleBooked` | `Requests = {"confirm"}`, `Faults = {"lostReply"}` | the reply to the POST is lost, the retry posts again (`create-meeting.job.ts:124`) |
| `NeverDoubleBooked` | booked, `{"reschedule"}`, `{"noJoinUrl", "outlook"}` | `recreateMeeting` loses the id of an event without a join URL (`meeting-update.job.ts:103`) |
| `NoOrphanedMeeting` | `{"confirm", "suggest"}`, no fault | suggest deletes a row while its event is being created (`session.repository.ts:123`) |
| `NoOrphanedMeeting`, `CancelledMeetingIsWithdrawn` | booked, `{"remove"}`, no fault | remove deletes the row its own queued removal reads (`training-plan.service.ts:541`) |
| `NothingDispatchedBeforeConfirm` | `{"reschedule"}`, no fault | a reschedule in a DRAFT plan creates a Teams meeting (`session.service.ts:150`) |
| `AlreadyGoneIsSatisfied` | booked, `{"cancel"}`, `{"outlook"}` | withdrawing an event already deleted fails until retries run out (`graph.service.ts:286`) |
| `MarkerSound` | `{"confirm", "reschedule", "cancel"}`, `{"crash"}` | a second attempt attaches an event to a row already marked, and dies (`session.repository.ts:427`) |
| `MeetingIsManned` | `{"confirm"}`, `{"crash"}` | an attempt dies before it queues the dispatch; its retry takes the session for done (`create-meeting.job.ts:56`) |
| `CancelledIsNotStarted` | booked, `{"start", "cancel"}`, no fault | start writes IN_PROGRESS over a cancellation (`agent-session.service.ts:58`) |
| `OneAssessmentPerSession` | `Answers = {n1, n2}`, no webhook | two first answers create two Assessments (`assessment.repository.ts:29`) |
| `EscalationIsGenuine` | two sessions, one agent call each | one failure after one success counts as a repeat (`learner-outcome.repository.ts:60`) |
| `UndemonstratedNotAchieved` | two outcomes, `Findings = {"passed", "failed"}` | an outcome the trainer failed is ACHIEVED because the session passed (`external-session-complete.service.ts:162`) |
| `AchievedLocksIn` | two sessions, one agent call each | a later failure puts an ACHIEVED outcome back (`learner-outcome.repository.ts:53`) |
| `CancelledIsNotCompleted` | one agent call, `{"cancel"}` | completion writes over a cancellation (`session.repository.ts:466`) |
| `CompletionReported` | two sessions, one agent call each, `{"recommendationError"}` | the recommendation throws: completed and never reported (`update-learner-outcomes.ts:64`) |
| `SentStaysSent` | `ReportsKept.cfg`, `Faults = {"error"}` | a resend mails a GENERATED report, then its generation fails to queue `report.send` and marks it FAILED (`generate-report.job.ts:70`) |
| `LostWebhookRecovered` | two sessions, `BatchSize = 1`, `{"unevaluated"}` | sessions without an evaluation fill the batch for ever (`session.repository.ts:557`) |


What the exemptions of `TrainingPlans`, `Portal` and `BackOffice` stand for, each an
execution of its module:

| Property, part | What happens |
|---|---|
| `OneActivePlan` | two creates at once, or a suggest or confirm that writes a plan cancelled under it, leave two open plans (`training-plan.service.ts:71`, `:202`) |
| `LiveSessionsBelong` | a session that ends while the cancel loop runs makes it throw; the rest stays live and the plan cannot be cancelled again (`:412-418`) |
| `LiveSessionsBelong` | a plan created while its learner is withdrawn outlives the withdrawal, which has listed the plans before, and `suggest` does not ask whether the learner is ACTIVE: live sessions of a learner who is out (`training-plan.service.ts:57`, `:202`) |
| `ConfirmedMeets` | a suggest beside a confirm leaves a CONFIRMED plan with sessions without a meeting (`:225`, `:304`) |
| `RefusedForLackOfDays` (its premise) | one skill's deferred items use up the days of the others, however many there are (`plan-builder.service.ts:131`) |
| `NamesUnique` | the name is checked on a read and there is no unique index (`track.service.ts:129`) |
| `OneActive` | overlapping assigns leave two active assignments (`learner-assignment.repository.ts:80`) |
| `RefusedOnlyInRaces` | overlapping inserts into one list clash; a reorder clashes with an insert that was overtaken, or with one that another reorder has moved among the rows it lists; a learner of another track holds an outcome and `deleteDeep` is refused, against `track.service.ts:335-346` |
| `CarriedForward` | a verdict that comes between the reads and the commit of an assign is not carried on, and an outcome it takes back starts as ACHIEVED; a level's outcome switched on or off meanwhile is missing or superfluous (`learner-assignment.service.ts:50-73`) |
| `TeamsGetTheirManager` | a crash after the user is created leaves the team waiting for ever (`auth.service.ts:208`); so does a revoke and a new invite; an acceptance writes over a manager chosen meanwhile (`:218-226`) |
| `RefusedForAReason` | a second team on one invite, a learner with sessions, an invited address entered by hand: refused by the database, as a bare error (`team.service.ts:138`, `learner.repository.ts:127`) |
| `FamilyIsOneSession` | overlapping rotations, or a crash between the two writes, leave two tokens that work; a logout in between leaves one (`token.service.ts:84-97`) |
| `LockedAfterFive` | overlapping wrong passwords count once (`auth.service.ts:303`) |
| `ConfirmedIsFinal` | a replace that began before a confirm changes the confirmed recommendation (`confirmation.service.ts:110`) |
| `DeckIsLatest` | overlapping generations make two decks of one skill: no unique index (`slide-deck.repository.ts:39`); a lost answer leaves a deck without a row |
| `RemindersFollow` | a meeting job and a reschedule at once leave a reminder at the old time (`create-meeting.job.ts:207`) |
| `AnswersAreTheirs` | an answer reported before the row is there is dropped (`rsvp-webhook.service.ts:56`) |
| `AddedSkillsAreTaught` | the four writes of an added skill stop half way (`plan-snapshot.service.ts:164`) |
| `RubricsWeigh` | overlapping PUTs leave criteria that weigh 200, a crash leaves none (`assessment.service.ts:224`) |
| `PagesComplete` | rows with equal sort values across a page's end are left out: the cursor has no tie-break (`base.repository.ts:104`) |
| `SeedsConverge` | overlapping seedings double rows or clash; an assignment that was changed is seeded a second time (`demo.seed.ts:418`) |
| `SweepsAreAudited` | a sweep that fails, or a crash, loses the summaries, against `cleanup.job.ts:44-49`; a transcript handed in again is cleared with the old one's date |
| `EffectIsCounted` | overlapping recomputes write older counts over newer (`content-effectiveness.repository.ts:63`) |

Read off the source, and not shown by a run:

* `outcome.escalate` has no processor, so nobody is told of an escalation
  (`start-worker.ts:28-41`, against `update-learner-outcomes.ts:14-15`).
* On an empty database the seed always fails: `tracks.seed.ts` gives no outcome a skill
  and `demo.seed.ts:39-41` throws; in `Seeds` an administrator has to give it one.
* A transcript without consent gets no retention date, so no sweep ever finds it
  (`agent-session.service.ts:153`, `assessment.repository.ts:55-56`); no route reaches
  `submitTranscript` any more, nor `ConfirmationService`, nor `recordAttendance`.
* A report is refused when the team has no manager, the learner's as well
  (`report-data.service.ts`).
* Deleting a content item erases its files before the database refuses, when a
  session or a recommendation refers to it (`content.service.ts:94-97`).
* A duplicated track is filed under a department that may be disabled
  (`track.service.ts:104-108`); ids repeated in a reorder pass the check for "exactly"
  (`outcome.service.ts:195`).
* A known user who signs in leaves an invite to his address PENDING; an expired one stays so
  and blocks another. Deactivating a user revokes no token.
* The link mail is sent at the old time after a silent reschedule, though
  `send-session-confirmation-email.job.ts:21-27` says it is skipped.
* A refusal or a timeout of the AI trainer ends the slides of the whole track
  (`ai-trainer.service.ts:61-63` says otherwise).
* The repair script also moves back a learner whom an administrator has put into
  another department on purpose.

## 7. What is not modelled, and why

Layout and wording (PDF and mail templates), append-only logs (audit,
notifications), proxies (directory, public site, AI service client), organizations'
own rows, health alerts, tenancy (one organization throughout) and most HTTP plumbing
change no state another part decides on. Analytics beyond `Figures` (skills, content
usage, exports) are sums over rows of one read. Left out of modules that model the rest of their component:
the completion of a plan by its last session and the summary report it causes; plan templates
beyond their hold on a track; copied outcomes without a source, which no code writes any
more (`plan-snapshot.service.ts:154-163`, `:282-286`), so that the builder's test for one
(`plan-builder.service.ts:272`) is not in `PlanBuilding`; how titles of outcomes are
compared; remediation's choice
of items. pg-boss, Graph, Microsoft's sign-in, the AI trainer and the blob store are
modelled from how the code uses them.
