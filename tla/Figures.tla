------------------------------- MODULE Figures -------------------------------
(***************************************************************************)
(* What managers and administrators are shown of their learners' progress. *)
(* The report on the organization is put together team by team, and a      *)
(* trend from one read after another, while learners move, plans change    *)
(* and sessions are completed; nothing is stored.                          *)
(*                                                                         *)
(* Abstracted: names, rates as fractions (their two numbers are kept), the *)
(* skills of one learner, exports.  The reads for one team are one step.   *)
(* Averages are cut to whole points; an organization's is left out.        *)
(***************************************************************************)
EXTENDS Calls, FiniteSets, SequencesExt

CONSTANTS Members, Squads    \* learners, teams

VARIABLES
  member,      \* member[l]: [squad, removed, level], level: of the active assignment, or None
  held,        \* sessions: [learner, status, score, verdict, month]
  drafted,     \* training plans: [learner, status, at], at: when created
  mastered,    \* mastered[l]: [achieved, total], outcomes
  shownOrg,    \* the last report on the organization, or None
  shownTrend   \* the last trend, or None

figureVars == <<member, held, drafted, mastered, shownOrg, shownTrend>>

FiguresInit(start) ==
  /\ member = start.member /\ held = start.held /\ drafted = start.drafted /\ mastered = start.mastered
  /\ shownOrg = None /\ shownTrend = None

Sum(numbers) == FoldSeq(LAMBDA n, total : n + total, 0, numbers)
SumOver(Number(_), ids) == Sum([n \in 1 .. Cardinality(ids) |-> Number(SetToSeq(ids)[n])])
Rows(table, Test(_)) == SelectSeq(table, Test)

-----------------------------------------------------------------------------
(* One team.                                                               *)

LearnersIn(squads) == {l \in Members : member[l].squad \in squads /\ ~member[l].removed}
PlanRank == [ACTIVE |-> 5, CONFIRMED |-> 4, COMPLETED |-> 3, DRAFT |-> 2, CANCELLED |-> 1]
\* The reads: the sessions of these learners, and a learner's plans, the latest first.
SessionsFor(ids) == Rows(held, LAMBDA s : s.learner \in ids)
LatestPlans(l) == Reverse(SortSeq(Rows(drafted, LAMBDA plan : plan.learner = l), LAMBDA a, b : a.at < b.at))
\* Mutant: the most recent one.
NewestFirst(plan, current) == FALSE
Precedes(plan, current) ==
  \/ PlanRank[plan.status] > PlanRank[current.status]
  \/ PlanRank[plan.status] = PlanRank[current.status] /\ plan.at > current.at
\* The most recent plan is read first, and gives way to those that precede it.
ShownPlan(l) ==
  LET plans == LatestPlans(l)
  IN IF plans = <<>> THEN None
     ELSE FoldLeft(LAMBDA current, plan : IF Precedes(plan, current) THEN plan ELSE current, Head(plans), Tail(plans))
Scores(sessions) == LET marked == Rows(sessions, LAMBDA s : s.score # None)
                    IN [n \in 1 .. Len(marked) |-> marked[n].score]
\* The average of no values is null.
Average(values) == IF values = <<>> THEN None ELSE Sum(values) \div Len(values)
AtRiskBelow == 60
StatusFor(attended, average_) ==
  IF attended = 0 THEN "NO_ACTIVITY"
  ELSE IF average_ # None /\ average_ < AtRiskBelow THEN "AT_RISK" ELSE "ON_TRACK"
LearnerRow(l) ==
  LET own == SessionsFor({l})
      attended == Rows(own, LAMBDA s : s.status = "COMPLETED")
  IN [learner |-> l, attended |-> Len(attended), scheduled |-> Len(own), average |-> Average(Scores(attended)),
      achieved |-> mastered[l].achieved, total |-> mastered[l].total, plan |-> ShownPlan(l),
      status |-> StatusFor(Len(attended), Average(Scores(attended)))]
TeamPerformance(t) == {LearnerRow(l) : l \in LearnersIn({t})}

-----------------------------------------------------------------------------
(* The organization: its teams, then each of them.                         *)

OrgReport(c) ==
  /\ Begin(c, "orgReport", "teams", Squads, [waiting |-> Squads, rows |-> {}])
  /\ UNCHANGED figureVars
ReadTeam(c) ==
  /\ At(c, "orgReport", "teams")
  /\ \E t \in call[c].seen.waiting :
       Goto(c, "teams", [waiting |-> call[c].seen.waiting \ {t}, rows |-> call[c].seen.rows \cup TeamPerformance(t)], {})
  /\ UNCHANGED figureVars
ShowOrg(c) ==
  /\ At(c, "orgReport", "teams") /\ call[c].seen.waiting = {}
  /\ LET rows == call[c].seen.rows
     IN shownOrg' = [learners |-> Cardinality(rows), rows |-> rows, torn |-> Stale(c, "figures"),
                     present |-> {l \in Members : ~member[l].removed}, attained |-> [l \in Members |-> mastered[l]],
                     achieved |-> SumOver(LAMBDA r : r.achieved, rows), total |-> SumOver(LAMBDA r : r.total, rows)]
  /\ End(c, None, {})
  /\ UNCHANGED <<member, held, drafted, mastered, shownTrend>>

-----------------------------------------------------------------------------
(* Trends.                                                                 *)

\* scope: the teams of the caller, or None for an administrator; team and level: filters.
Queries == [scope : {None} \cup SUBSET Squads, team : {None} \cup Squads, level : {None, "B"}]
Scoped(query) ==
  IF query.scope = None THEN IF query.team = None THEN Squads ELSE {query.team}
  ELSE IF query.team = None THEN query.scope ELSE query.scope \cap {query.team}
Trend(c) ==
  /\ \E query \in Queries : Begin(c, "trend", "sessions", query, LearnersIn(Scoped(query)))
  /\ UNCHANGED figureVars
\* By month, of the completed sessions.
Points(ids) ==
  LET completed == Rows(SessionsFor(ids), LAMBDA s : s.status = "COMPLETED")
      Of(month) == Rows(completed, LAMBDA s : s.month = month)
  IN [month \in {completed[n].month : n \in 1 .. Len(completed)} |->
       [count |-> Len(Of(month)), average |-> Average(Scores(Of(month))),
        achieved |-> Len(Rows(Of(month), LAMBDA s : s.verdict = "ACHIEVED"))]]
ReadSessions(c) ==
  /\ At(c, "trend", "sessions")
  /\ LET query == call[c].arg
         ids == {l \in call[c].seen : query.level = None \/ member[l].level = query.level}
     IN shownTrend' = [query |-> query, points |-> Points(ids), torn |-> Stale(c, "figures"),
                       squads |-> {member[l].squad : l \in ids}]
  /\ End(c, None, {})
  /\ UNCHANGED <<member, held, drafted, mastered, shownOrg>>

-----------------------------------------------------------------------------
(* What the figures are about goes on. A learner who left his team may be   *)
(* invited into another; a report counts his row whatever its status was.  *)

MoveMember(c) ==
  /\ \E l \in Members, t \in Squads : member' = [member EXCEPT ![l].squad = t]
  /\ Atomically(c, "moveMember", {"figures"})
  /\ UNCHANGED <<held, drafted, mastered, shownOrg, shownTrend>>
RemoveMember(c) ==
  /\ \E l \in Members : member' = [member EXCEPT ![l].removed = TRUE]
  /\ Atomically(c, "removeMember", {"figures"})
  /\ UNCHANGED <<held, drafted, mastered, shownOrg, shownTrend>>
CompleteHeld(c) ==
  /\ \E n \in 1 .. Len(held), score \in {40, 80} :
       /\ held[n].status # "COMPLETED"
       /\ held' = [held EXCEPT ![n].status = "COMPLETED", ![n].score = score,
                               ![n].verdict = IF score = 80 THEN "ACHIEVED" ELSE "NOT_ACHIEVED"]
       /\ mastered' = [mastered EXCEPT ![held[n].learner].achieved = IF score = 80 THEN @ + 1 ELSE @]
  /\ Atomically(c, "completeHeld", {"figures"})
  /\ UNCHANGED <<member, drafted, shownOrg, shownTrend>>
Draft(c) ==
  /\ \E l \in Members : drafted' = Append(drafted, [learner |-> l, status |-> "DRAFT", at |-> Len(drafted) + 1])
  /\ Atomically(c, "draft", {"figures"})
  /\ UNCHANGED <<member, held, mastered, shownOrg, shownTrend>>
MovePlan(c) ==
  /\ \E n \in 1 .. Len(drafted), status \in {"CONFIRMED", "CANCELLED"} : drafted' = [drafted EXCEPT ![n].status = status]
  /\ Atomically(c, "movePlan", {"figures"})
  /\ UNCHANGED <<member, held, mastered, shownOrg, shownTrend>>

FigureStep(c) ==
  \/ OrgReport(c) \/ ReadTeam(c) \/ ShowOrg(c) \/ Trend(c) \/ ReadSessions(c)
  \/ MoveMember(c) \/ RemoveMember(c) \/ CompleteHeld(c) \/ Draft(c) \/ MovePlan(c)

-----------------------------------------------------------------------------
(* Properties.                                                             *)

\* Teams and learners exist, and nobody has achieved more outcomes than he has.
FiguresTypeOK ==
  /\ \A l \in Members : member[l].squad \in Squads /\ mastered[l].achieved <= mastered[l].total
  /\ \A n \in 1 .. Len(held) : held[n].learner \in Members /\ (held[n].status = "COMPLETED" <=> held[n].score # None)

\* performance.service.ts:140-178: a report that nothing came between counts each present
\* learner once, in whatever team he is, and all that these learners have achieved.
OrganizationAddsUp == shownOrg # None /\ ~shownOrg.torn =>
  /\ {r.learner : r \in shownOrg.rows} = shownOrg.present /\ shownOrg.learners = Cardinality(shownOrg.present)
  /\ shownOrg.achieved = SumOver(LAMBDA l : shownOrg.attained[l].achieved, shownOrg.present)
  /\ shownOrg.total = SumOver(LAMBDA l : shownOrg.attained[l].total, shownOrg.present)

\* performance.service.ts:46-53: the plan shown for a learner is one that no plan of his
\* outranks, and the latest of its rank.
PlanShownIsCurrent == \A l \in Members : ShownPlan(l) # None =>
  \A n \in 1 .. Len(drafted) : drafted[n].learner = l =>
    LET rank == PlanRank[ShownPlan(l).status]
    IN \/ rank > PlanRank[drafted[n].status]
       \/ rank = PlanRank[drafted[n].status] /\ ShownPlan(l).at >= drafted[n].at

\* trends.service.ts:33-36: a team outside the caller's scope shows him nothing.
TrendsStayInScope == shownTrend # None /\ ~shownTrend.torn =>
  /\ shownTrend.query.scope # None => shownTrend.squads \subseteq shownTrend.query.scope
  /\ shownTrend.query.team # None => shownTrend.squads \subseteq {shownTrend.query.team}
\* All three: what is shown is what there is.
FiguresAreTrue == OrganizationAddsUp /\ PlanShownIsCurrent /\ TrendsStayInScope
=============================================================================
