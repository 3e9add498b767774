-------------------------------- MODULE Portal --------------------------------
(***************************************************************************)
(* The services of the API beside each other: they share the requests that *)
(* are served at once (Calls) and each keeps its own tables.               *)
(***************************************************************************)
EXTENDS Accounts, Recommendations, TrainerDecks, Invitations, PlanSnapshots, Rubrics, Figures

CONSTANT Cases    \* what is there at the start, and what is asked for

portalVars == <<allVars, recVars, deckVars, letterVars, treeVars, rubricVars, figureVars>>

PortalInit == \E start \in Cases :
  /\ AccountsInit(start) /\ RecInit(start.rec) /\ DeckInit(start.deck) /\ LetterInit(start.letter)
  /\ TreeInit(start.tree) /\ RubricInit /\ FiguresInit(start.figures)

\* A service takes a step only where something is asked of it, so that TLC looks no further.
Asks(calls) == DOMAIN left \cap calls # {}
AccountCalls ==
  RosterCalls \cup {"updateUser", "revoke", "expire", "setStatus", "plan", "start", "callback", "expireHandshake", "password",
                    "lockEnds", "createInvite", "demo", "refresh", "logout", "expireToken", "age", "sweep"}
RecCalls == {"assign", "achieve", "handle", "generate", "reject", "reorder", "replace", "confirm", "deleteContent"}
DeckCalls == {"slides", "startTrainer", "poll", "trainerMoves", "deleteTaught"}
LetterCalls == {"createMeeting", "updateMeeting", "reschedule", "cancel", "deleteInOutlook", "tick", "runReminder", "runMail",
                "answer", "report"}
TreeCalls == {"copyTrack", "addSkill", "addOutcome", "addContent", "addToLevel", "upload", "publish", "removeSkill",
              "removeOutcome", "removeContent"}
RubricCalls == {"putBank", "putRubric", "addQuestion", "deleteQuestion", "context"}
FigureCalls == {"orgReport", "trend", "moveMember", "removeMember", "movePlan", "completeHeld", "draft"}
ASSUME PortalAssumption ==
  None \notin AccountCalls \cup RecCalls \cup DeckCalls \cup LetterCalls \cup TreeCalls \cup RubricCalls \cup FigureCalls
\* Ids and rows are no None, and what is counted is finite.
ASSUME IdsAssumption ==
  /\ None \notin Nat \cup Decks \cup MadeRow \cup DeckRow \cup ExternalRow
  /\ IsFiniteSet(Taught) /\ IsFiniteSet(Made)
  /\ None \notin LoginRow \cup TokenRow /\ People \cap Tokens = {}
  /\ None \notin TreeRow \cup Plans
  /\ None \notin Meetings \cup OutlookRow \cup LetterRow /\ Horizon \in Nat
\* What the services start with: no plan has been copied, and orders are unique.
ASSUME CasesAssumption == \A k \in Cases :
  /\ k.deck.outcomes \in [Taught -> BOOLEAN \cup {None}]
  /\ k.letter.at \in 1 .. Horizon
  /\ k.tree.skills \in Seq([inLevel : BOOLEAN, own : {None}]) /\ k.tree.files \in Seq([skill : 1 .. Len(k.tree.skills)])
  /\ k.tree.outcomes \in Seq([skill : 1 .. Len(k.tree.skills), order : Nat, enabled : BOOLEAN, own : {None}])
  /\ \A o, n \in DOMAIN k.tree.outcomes : k.tree.outcomes[o].order = k.tree.outcomes[n].order => o = n
  /\ k.login \in [People -> LoginRow \cup {None}]
  /\ \A p \in People : k.login[p] # None => (k.login[p].locked # "no" <=> k.login[p].failures >= MaxFailedAttempts)

PortalStep(c) ==
  \/ Asks(AccountCalls) /\ (AccountStep(c) \/ RosterStep(c)) /\ UNCHANGED <<recVars, deckVars, letterVars, treeVars, rubricVars, figureVars>>
  \/ Asks(RecCalls) /\ RecStep(c) /\ UNCHANGED <<rosterVars, accountVars, deckVars, letterVars, treeVars, rubricVars, figureVars>>
  \/ Asks(DeckCalls) /\ DeckStep(c) /\ UNCHANGED <<rosterVars, accountVars, recVars, letterVars, treeVars, rubricVars, figureVars>>
  \/ Asks(LetterCalls) /\ LetterStep(c) /\ UNCHANGED <<rosterVars, accountVars, recVars, deckVars, treeVars, rubricVars, figureVars>>
  \/ Asks(TreeCalls) /\ TreeStep(c) /\ UNCHANGED <<rosterVars, accountVars, recVars, deckVars, letterVars, rubricVars, figureVars>>
  \/ Asks(RubricCalls) /\ RubricStep(c) /\ UNCHANGED <<rosterVars, accountVars, recVars, deckVars, letterVars, treeVars, figureVars>>
  \/ Asks(FigureCalls) /\ FigureStep(c) /\ UNCHANGED <<rosterVars, accountVars, recVars, deckVars, letterVars, treeVars, rubricVars>>
PortalNext == \E c \in Callers : PortalStep(c)
PortalSpec == PortalInit /\ [][PortalNext]_portalVars

-----------------------------------------------------------------------------
\* The types of every service.
PortalTypeOK == AccountsTypeOK /\ RecTypeOK /\ DeckTypeOK /\ LetterTypeOK
                /\ TreeTypeOK /\ RubricTypeOK /\ FiguresTypeOK
=============================================================================
