----------------------------- MODULE TrainerDecks -----------------------------
(***************************************************************************)
(* The two ways in which the portal asks the AI trainer for something that *)
(* takes minutes: the slide decks of a track, one skill after the other,   *)
(* and a trainer for a meeting that a manager has set up by hand.  The     *)
(* portal keeps a row of each: a deck per skill, and an external session   *)
(* with the progress that was last polled.  (MeetingLifecycle has the      *)
(* trainer's dispatch to a planned session, SessionCompletion what the     *)
(* trainer reports at the end.)                                            *)
(*                                                                         *)
(* The AI trainer is external: it answers, refuses, or does what it was    *)
(* asked while its answer is lost.  Abstracted: what decks and evaluations *)
(* hold, attachments, languages, and the suggestions, which write nothing. *)
(***************************************************************************)
EXTENDS Calls, FiniteSets, SequencesExt

CONSTANTS
  Taught,         \* the skills of the track
  Decks,          \* ids of SlideDeck rows
  Made,           \* the AI trainer's ids of decks
  Trainers        \* the AI trainer's ids of sessions

VARIABLES
  outcomes,       \* outcomes[s]: s has outcomes; None: s was deleted
  deck,           \* deck[d]: [skill, made, status] or None
  made,           \* made[m]: [skill, status, generation], a deck that the AI trainer made, or None
  trainer,        \* trainer[x]: how far the AI trainer's session is, or None
  external,       \* external[x]: [deck, status], the row of x, or None
  doubled,        \* skills that overlapping generations found without a deck
  mislaid         \* skills and trainers whose answer was lost

MadeRow == [skill : Taught, status : {"ready", "failed"}, generation : Nat]
DeckRow == [skill : Taught, made : Made, status : {"ready", "failed"}]
ExternalRow == [deck : Decks, status : 1 .. 3]
deckVars == <<outcomes, deck, made, trainer, external, doubled, mislaid>>

DeckInit(start) ==
  /\ outcomes = start.outcomes
  /\ deck = [d \in Decks |-> None] /\ made = [m \in Made |-> None]
  /\ trainer = [x \in Trainers |-> None] /\ external = [x \in Trainers |-> None]
  /\ doubled = {} /\ mislaid = {}

FreshDeck == CHOOSE d \in Decks : deck[d] = None
FreshMade == CHOOSE m \in Made : made[m] = None
FreshTrainer == CHOOSE x \in Trainers : trainer[x] = None
\* Bounds: what is created or answered finds an id left.
DeckRoom == \E d \in Decks : deck[d] = None
MadeRoom == \E m \in Made : made[m] = None
TrainerRoom == \E x \in Trainers : trainer[x] = None
DecksOf(s) == {d \in Decks : deck[d] # None /\ deck[d].skill = s}
MadeFor(s) == {m \in Made : made[m] # None /\ made[m].skill = s}
\* Later answers have higher numbers.
Generations == Cardinality({m \in Made : made[m] # None})

-----------------------------------------------------------------------------
(* Slides for every skill of a track (generateTrackSlides).                *)

\* A skill without outcomes is left out.
WithOutcomes == {s \in Taught : outcomes[s] = TRUE}
GenerateSlides(c) ==
  /\ WithOutcomes # {} /\ Begin(c, "slides", "ask", SetToSeq(WithOutcomes), None)
  /\ UNCHANGED deckVars
\* An answer, which may be that it failed, is saved; any refusal ends the whole call.
AskSlides(c) ==
  /\ At(c, "slides", "ask") /\ MadeRoom
  /\ \/ \E status \in {"ready", "failed"} :
          /\ made' = [made EXCEPT ![FreshMade] =
               [skill |-> Head(call[c].arg), status |-> status, generation |-> Generations + 1]]
          /\ \/ Goto(c, "find", FreshMade, {}) /\ UNCHANGED mislaid
             \/ End(c, None, {}) /\ mislaid' = mislaid \cup {Head(call[c].arg)}
     \/ End(c, None, {}) /\ UNCHANGED <<made, mislaid>>
  /\ UNCHANGED <<outcomes, deck, trainer, external, doubled>>
\* Mutant: the deck is looked for by its new id.
ExistingByMade(s, m) == {d \in DecksOf(s) : deck[d].made = m}
\* findBySkillId: one of them, whichever.
Existing(s, m) == DecksOf(s)
FindDeck(c) ==
  /\ At(c, "slides", "find")
  /\ LET s == Head(call[c].arg)
         m == call[c].seen
     IN \/ Existing(s, m) = {} /\ Goto(c, "save", [made |-> m, row |-> None], {})
        \/ \E d \in Existing(s, m) : Goto(c, "save", [made |-> m, row |-> d], {})
  /\ UNCHANGED deckVars
\* Update or create; the next skill follows.
SaveDeck(c) ==
  /\ At(c, "slides", "save")
  /\ LET s == Head(call[c].arg)
         m == call[c].seen.made
         found == call[c].seen.row
         row == IF found = None THEN FreshDeck ELSE found
     IN IF found = None /\ outcomes[s] = None
        THEN End(c, "referenced", {}) /\ UNCHANGED <<deck, doubled>>
        ELSE /\ found = None => DeckRoom
             /\ deck' = [deck EXCEPT ![row] = [skill |-> s, made |-> m, status |-> made[m].status]]
             /\ doubled' = IF Stale(c, <<"deck", s>>) THEN doubled \cup {s} ELSE doubled
             /\ IF Len(call[c].arg) = 1 THEN End(c, None, {<<"deck", s>>})
                ELSE /\ call' = [call EXCEPT ![c].pc = "ask", ![c].arg = Tail(@), ![c].seen = None]
                     /\ crossed' = Crossing(c, {<<"deck", s>>})
                     /\ UNCHANGED left
  /\ UNCHANGED <<outcomes, made, trainer, external, mislaid>>
\* A skill that nothing refers to can be deleted.
DeleteTaught(c) ==
  /\ \E s \in Taught : /\ outcomes[s] # None /\ DecksOf(s) = {}
                       /\ outcomes' = [outcomes EXCEPT ![s] = None]
  /\ Atomically(c, "deleteTaught", {})
  /\ UNCHANGED <<deck, made, trainer, external, doubled, mislaid>>

-----------------------------------------------------------------------------
(* A trainer for a meeting (ExternalSessionService).                       *)

Progress == <<"pending", "in_progress", "completed">>
StartTrainer(c) ==
  /\ \E d \in Decks : deck[d] # None /\ deck[d].status = "ready" /\ Begin(c, "startTrainer", "call", d, None)
  /\ UNCHANGED deckVars
CallTrainer(c) ==
  /\ At(c, "startTrainer", "call") /\ TrainerRoom
  /\ \/ /\ trainer' = [trainer EXCEPT ![FreshTrainer] = 1]
        /\ \/ Goto(c, "create", FreshTrainer, {}) /\ UNCHANGED mislaid
           \/ End(c, None, {}) /\ mislaid' = mislaid \cup {FreshTrainer}
     \/ End(c, None, {}) /\ UNCHANGED <<trainer, mislaid>>
  /\ UNCHANGED <<outcomes, deck, made, external, doubled>>
CreateExternal(c) ==
  /\ At(c, "startTrainer", "create")
  /\ external' = [external EXCEPT ![call[c].seen] = [deck |-> call[c].arg, status |-> 1]]
  /\ End(c, None, {})
  /\ UNCHANGED <<outcomes, deck, made, trainer, doubled, mislaid>>
TrainerMoves(c) ==
  /\ \E x \in Trainers : /\ trainer[x] # None /\ trainer[x] < Len(Progress)
                         /\ trainer' = [trainer EXCEPT ![x] = @ + 1]
  /\ Atomically(c, "trainerMoves", {})
  /\ UNCHANGED <<outcomes, deck, made, external, doubled, mislaid>>
\* getStatus: the row says whose session it is, the answer comes from the AI trainer.
Poll(c) ==
  /\ \E x \in Trainers : external[x] # None /\ Begin(c, "poll", "ask", x, None)
  /\ UNCHANGED deckVars
Answered(x) == {trainer[x]}
AskStatus(c) ==
  /\ At(c, "poll", "ask")
  /\ \/ \E status \in Answered(call[c].arg) : Goto(c, "save", status, {})
     \/ End(c, None, {})
  /\ UNCHANGED deckVars
SaveStatus(c) ==
  /\ At(c, "poll", "save")
  /\ external' = [external EXCEPT ![call[c].arg].status = call[c].seen]
  /\ End(c, None, {<<"polled", call[c].arg>>})
  /\ UNCHANGED <<outcomes, deck, made, trainer, doubled, mislaid>>

\* The server goes down between an answer and the row it is kept in.
CrashAnswer(c) ==
  /\ call[c].op \in {"slides", "startTrainer"} /\ call[c].pc \in {"find", "save", "create"}
  /\ "crashAnswer" \in DOMAIN left /\ left["crashAnswer"] > 0
  /\ left' = [left EXCEPT !["crashAnswer"] = @ - 1]
  /\ call' = [call EXCEPT ![c] = Idle]
  /\ mislaid' = mislaid \cup {IF call[c].op = "slides" THEN Head(call[c].arg) ELSE call[c].seen}
  /\ UNCHANGED <<outcomes, deck, made, trainer, external, doubled, crossed>>

DeckStep(c) ==
  \/ GenerateSlides(c) \/ AskSlides(c) \/ FindDeck(c) \/ SaveDeck(c) \/ DeleteTaught(c)
  \/ StartTrainer(c) \/ CallTrainer(c) \/ CreateExternal(c) \/ TrainerMoves(c)
  \/ Poll(c) \/ AskStatus(c) \/ SaveStatus(c) \/ CrashAnswer(c)

-----------------------------------------------------------------------------
(* Properties.                                                             *)

\* Rows refer to what is there.
DeckTypeOK ==
  /\ \A d \in Decks : deck[d] # None =>
       /\ outcomes[deck[d].skill] # None /\ made[deck[d].made] # None
       /\ deck[d].status = made[deck[d].made].status
  /\ \A x \in Trainers : external[x] # None =>
       trainer[x] # None /\ deck[external[x].deck] # None /\ external[x].status \in DOMAIN Progress
  /\ doubled \subseteq Taught /\ mislaid \subseteq Taught \cup Trainers

\* slide-deck.repository.ts:31: one deck per skill, updated in place: unless two
\* generations overlapped or an answer was lost, a skill has at most one deck, and it is
\* the last one that the AI trainer made for it.
DeckIsLatest == \A s \in Taught \ (doubled \cup mislaid) :
  (\A c \in Callers : ~(call[c].op = "slides" /\ call[c].pc \in {"find", "save"} /\ Head(call[c].arg) = s)) =>
    /\ Cardinality(DecksOf(s)) <= 1
    /\ outcomes[s] # None /\ MadeFor(s) # {} =>
         \E d \in DecksOf(s) : \A m \in MadeFor(s) : made[m].generation <= made[deck[d].made].generation
=============================================================================
