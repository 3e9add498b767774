--------------------------- MODULE BackOfficeProofs ---------------------------
(***************************************************************************)
(* BackOffice, proved for all values of its constants: the briefings, the  *)
(* lists, and the catalogue beside all that ServicesProofs is about.       *)
(***************************************************************************)
EXTENDS ServicesProofs

-----------------------------------------------------------------------------
(* What is put together about a session is true: a report under way knows  *)
(* what was stored when it was begun, since what is stored stays.          *)

\* The tables that briefings are put together from.
BriefTables ==
  /\ dispatched \subseteq Lessons
  /\ verdictOf = [s \in Lessons |-> verdictOf[s]] /\ stored = [s \in Lessons |-> stored[s]]
  /\ \A s \in Lessons : verdictOf[s] # None => verdictOf[s] \in Verdict /\ verdictOf[s].of = s /\ s \in dispatched
  /\ \A s \in Lessons : stored[s] # None => stored[s] \in Verdict /\ stored[s].of = s /\ s \in dispatched
  /\ slide = [v \in Slides |-> slide[v]]
\* What has been put together.
SaidTrue ==
  /\ told # None =>
       /\ told.of = told.lesson
       /\ told.knew /\ told.lesson \in dispatched => told.kind = "stored"
       /\ told.role = "LEARNER" => told.forManager = None
  /\ transcribed # None => transcribed.of = transcribed.lesson /\ (transcribed.knew => transcribed.kind = "stored")
  /\ briefed # None /\ ~briefed.torn => briefed.unclean = {}
\* What a call knows so far.
TellKnows(x) ==
  /\ x.arg.lesson \in Lessons
  /\ x.seen \in [knew : BOOLEAN, source : Source \cup {None}]
  /\ x.seen.knew => stored[x.arg.lesson] # None
  /\ x.seen.source # None => x.seen.source.says.of = x.arg.lesson
  /\ x.pc = "ask" => ~x.seen.knew
  /\ x.pc = "write" /\ x.seen.knew /\ x.arg.lesson \in dispatched => x.seen.source # None /\ x.seen.source.kind = "stored"
TranscriptKnows(x) ==
  /\ x.arg \in Lessons /\ x.seen \in BOOLEAN
  /\ x.seen => stored[x.arg] # None
  /\ x.pc = "ask" => ~x.seen
BriefKnows(x, written) ==
  /\ x.pc # "idle" => x.result = None
  /\ x.result = "missing" => "slides" \in written
  /\ x.pc = "links" =>
       /\ x.seen \in [media : SUBSET Slides, waiting : SUBSET Slides] /\ x.seen.waiting \subseteq x.seen.media
       /\ "slides" \notin written => \A v \in x.seen.media : slide[v] = "CLEAN"
BriefCall(x, written) ==
  /\ x.op = "tell" /\ x.pc # "idle" => TellKnows(x)
  /\ x.op = "transcript" /\ x.pc # "idle" => TranscriptKnows(x)
  /\ x.op = "brief" => BriefKnows(x, written)
BriefInv == BriefTables /\ SaidTrue /\ \A d \in Callers : BriefCall(call[d], crossed[d])

\* It is what the run checks, and more.
LEMMA BriefInvIsTrue ==
  ASSUME BriefInv PROVE BriefingsAreTrue /\ BriefingsTypeOK
  BY
     DEF BriefInv, BriefTables, SaidTrue, BriefCall, BriefKnows, BriefingsAreTrue,
         BriefingsTypeOK, Stale

\* At the start nothing is said.
LEMMA BriefStart ==
  ASSUME OfficeInit PROVE BriefInv
  <1>1. \A c \in Callers : call[c] = Idle /\ crossed[c] = {}
    BY CallsStart DEF OfficeInit, Init
  <1>2. BriefTables
    <2>1. case \in Cases /\ dispatched = case.briefings.dispatched /\ slide = case.briefings.slide
      BY DEF OfficeInit, Init, BriefingsInit
    <2>2. verdictOf = [s \in Lessons |-> None] /\ stored = [s \in Lessons |-> None]
      BY DEF OfficeInit, BriefingsInit
    <2> QED
      BY <2>1, <2>2, StartAssumption DEF BriefTables
  <1>3. SaidTrue
    BY DEF OfficeInit, BriefingsInit, SaidTrue
  <1>4. Idle.op = None /\ None \notin {"tell", "transcript", "brief"}
    BY OfficeAssumption DEF Idle, BriefCalls
  <1> QED
    BY <1>1, <1>2, <1>3, <1>4 DEF BriefInv, BriefCall

\* What is stored and what is dispatched stays.
Kept ==
  /\ dispatched' = dispatched
  /\ \A s \in Lessons : stored[s] # None => stored'[s] # None

\* A call that is not concerned knows what it knew.
LEMMA OthersKnow ==
  ASSUME NEW x, NEW written, NEW more, BriefCall(x, written), Kept, written \subseteq more,
         slide' = slide \/ "slides" \in more \/ x.pc = "idle"
  PROVE BriefCall(x, more)'
  <1>1. x.op = "tell" /\ x.pc # "idle" => TellKnows(x)'
    BY DEF BriefCall, TellKnows, Kept
  <1>2. x.op = "transcript" /\ x.pc # "idle" => TranscriptKnows(x)'
    BY DEF BriefCall, TranscriptKnows, Kept
  <1>3. x.op = "brief" => BriefKnows(x, more)'
    BY DEF BriefCall, BriefKnows
  <1> QED
    BY <1>1, <1>2, <1>3 DEF BriefCall

\* So a step keeps the invariant if its own call knows what it should.
LEMMA BriefKeeps ==
  ASSUME BriefInv, NEW c \in Callers, Kept, BriefTables', SaidTrue', BriefCall(call[c], crossed[c])',
         \A d \in Callers \ {c} : call'[d] = call[d] /\ crossed[d] \subseteq crossed'[d],
         slide' = slide \/ \A d \in Callers \ {c} : call[d].pc # "idle" => "slides" \in crossed'[d]
  PROVE BriefInv'
  <1>1. SUFFICES ASSUME NEW d \in Callers \ {c} PROVE BriefCall(call[d], crossed[d])'
    BY DEF BriefInv
  <1>2. PICK x, w, m : x = call[d] /\ w = crossed[d] /\ m = crossed'[d]
    OBVIOUS
  <1>3. BriefCall(x, w) /\ w \subseteq m /\ (slide' = slide \/ "slides" \in m \/ x.pc = "idle")
    BY <1>1, <1>2 DEF BriefInv
  <1>4. BriefCall(x, m)'
    BY <1>3, OthersKnow
  <1> QED
    BY <1>1, <1>2, <1>4

\* A step of another service does not matter.
LEMMA BriefsBeside ==
  ASSUME BriefInv, Spares({"tell", "transcript", "brief"}), UNCHANGED briefVars
  PROVE BriefInv'
  <1>1. SUFFICES ASSUME NEW d \in Callers PROVE BriefCall(call[d], crossed[d])'
    BY DEF BriefInv, BriefTables, SaidTrue, briefVars
  <1>2. PICK x, w, m : x = call'[d] /\ w = crossed[d] /\ m = crossed'[d]
    OBVIOUS
  <1>3. CASE x.op \in {"tell", "transcript", "brief"}
    <2>1. BriefCall(x, w) /\ w \subseteq m
      BY <1>2, <1>3 DEF BriefInv, Spares
    <2>2. BriefCall(x, m)'
      BY <2>1, OthersKnow DEF briefVars, Kept
    <2> QED
      BY <1>2, <2>2
  <1>4. CASE x.op \notin {"tell", "transcript", "brief"}
    BY <1>2, <1>4 DEF BriefCall
  <1> QED
    BY <1>3, <1>4

\* How a call of briefings goes on: it begins, goes on and ends.
LEMMA BriefBegins ==
  ASSUME CallsSound, BriefInv, NEW c \in Callers, NEW op, NEW pc, NEW arg, NEW seen, Begin(c, op, pc, arg, seen),
         NEW y, y = [op |-> op, pc |-> pc, arg |-> arg, seen |-> seen, result |-> None], UNCHANGED briefVars,
         BriefCall(y, {})
  PROVE BriefInv'
  <1>1. /\ call'[c] = y /\ crossed'[c] = {}
        /\ \A d \in Callers \ {c} : call'[d] = call[d] /\ crossed'[d] = crossed[d]
    BY BeginDoes DEF CallsSound
  <1>2. Kept /\ BriefTables' /\ SaidTrue' /\ slide' = slide
    BY DEF BriefInv, Kept, briefVars, BriefTables, SaidTrue
  <1>3. BriefCall(y, {})'
    BY <1>2, OthersKnow
  <1>4. BriefCall(call[c], crossed[c])'
    BY <1>1, <1>3
  <1> QED
    BY <1>1, <1>2, <1>4, BriefKeeps

\* A call of briefings goes on.
LEMMA BriefGoesOn ==
  ASSUME CallsSound, BriefInv, NEW c \in Callers, NEW pc, NEW seen, NEW written, Goto(c, pc, seen, written) \/ Reread(c, pc, seen),
         NEW y, y = [op |-> call[c].op, pc |-> pc, arg |-> call[c].arg, seen |-> seen, result |-> call[c].result],
         UNCHANGED briefVars, NEW more, more = crossed'[c], BriefCall(y, more)
  PROVE BriefInv'
  <1>1. call'[c] = y /\ \A d \in Callers \ {c} : call'[d] = call[d] /\ crossed[d] \subseteq crossed'[d]
    <2>0. CallsOK
      BY DEF CallsSound
    <2>1. CASE Goto(c, pc, seen, written)
      <3>1. /\ call'[c] = [op |-> call[c].op, pc |-> pc, arg |-> call[c].arg, seen |-> seen, result |-> call[c].result]
            /\ \A d \in Callers \ {c} : Sees(c, d, written)
        BY <2>0, <2>1, GotoDoes
      <3> QED
        BY <3>1 DEF Sees
    <2>2. CASE Reread(c, pc, seen)
      <3>1. /\ call'[c] = [op |-> call[c].op, pc |-> pc, arg |-> call[c].arg, seen |-> seen, result |-> call[c].result]
            /\ \A d \in Callers \ {c} : Sees(c, d, {})
        BY <2>0, <2>2, RereadDoes
      <3> QED
        BY <3>1 DEF Sees
    <2> QED
      BY <2>1, <2>2
  <1>2. Kept /\ BriefTables' /\ SaidTrue' /\ slide' = slide
    BY DEF BriefInv, Kept, briefVars, BriefTables, SaidTrue
  <1>3. BriefCall(y, more)'
    BY <1>2, OthersKnow
  <1>4. BriefCall(call[c], crossed[c])'
    BY <1>1, <1>3
  <1> QED
    BY <1>1, <1>2, <1>4, BriefKeeps

\* A call of briefings ends.
LEMMA BriefEnds ==
  ASSUME CallsSound, BriefInv, NEW c \in Callers, NEW result, NEW written, End(c, result, written),
         call[c].op = "brief" => result = None \/ "slides" \in crossed[c],
         UNCHANGED <<dispatched, verdictOf, stored, slide>>, SaidTrue'
  PROVE BriefInv'
  <1>1. /\ call'[c].pc = "idle" /\ call'[c].op \in {None, call[c].op}
        /\ result = None => call'[c] = Idle
        /\ crossed'[c] = crossed[c]
        /\ \A d \in Callers \ {c} : call'[d] = call[d] /\ crossed[d] \subseteq crossed'[d]
    BY EndDoes DEF CallsSound, Sees
  <1>2. Kept /\ BriefTables'
    BY DEF BriefInv, Kept, BriefTables
  <1>3. Idle.op = None /\ None \notin {"tell", "transcript", "brief", "missing"}
    BY OfficeAssumption, BriefingsAssumption DEF Idle, BriefCalls
  <1>4. BriefCall(call[c], crossed[c])'
    BY <1>1, <1>3 DEF BriefCall, BriefKnows
  <1> QED
    BY <1>1, <1>2, <1>4, BriefKeeps

\* Each step of the service keeps the invariant.
LEMMA BriefsHold ==
  ASSUME CallsSound, BriefInv, NEW c \in Callers, BriefStep(c)
  PROVE BriefInv'
  <1>0. BriefTables /\ SaidTrue /\ None \notin Verdict \cup Source \cup {"CLEAN", "missing"}
    BY BriefingsAssumption DEF BriefInv
  <1>1. CASE TellReport(c)
    <2>1. PICK s \in Lessons, role \in {"LEARNER", "DEPARTMENT_MANAGER"} :
            Begin(c, "tell", "people", [lesson |-> s, role |-> role], [knew |-> stored[s] # None, source |-> None])
      BY <1>1 DEF TellReport
    <2> DEFINE y == [op |-> "tell", pc |-> "people", arg |-> [lesson |-> s, role |-> role],
                     seen |-> [knew |-> stored[s] # None, source |-> None], result |-> None]
    <2>2. BriefCall(y, {})
      BY DEF BriefCall, TellKnows
    <2>3. UNCHANGED briefVars
      BY <1>1 DEF TellReport
    <2> QED
      BY <2>1, <2>2, <2>3, BriefBegins
  <1>2. CASE ReadPeople(c)
    <2>1. call[c].op = "tell" /\ call[c].pc = "people" /\ TellKnows(call[c]) /\ UNCHANGED briefVars
      BY <1>2 DEF ReadPeople, At, BriefInv, BriefCall
    <2>2. CASE ~chief
      <3>1. End(c, "missing", {})
        BY <1>2, <2>2 DEF ReadPeople
      <3> QED
        BY <1>0, <2>1, <3>1, BriefEnds DEF briefVars, SaidTrue
    <2>3. CASE chief
      <3> DEFINE pc == IF call[c].arg.lesson \in dispatched THEN "stored" ELSE "write"
                 y == [op |-> call[c].op, pc |-> pc, arg |-> call[c].arg, seen |-> call[c].seen, result |-> call[c].result]
      <3>1. Goto(c, pc, call[c].seen, {})
        BY <1>2, <2>3 DEF ReadPeople
      <3>2. BriefCall(y, crossed'[c])
        BY <2>1 DEF BriefCall, TellKnows
      <3> QED
        BY <2>1, <3>1, <3>2, BriefGoesOn
    <2> QED
      BY <2>2, <2>3
  <1>3. CASE ReadStored(c)
    <2>1. call[c].op = "tell" /\ call[c].pc = "stored" /\ TellKnows(call[c]) /\ UNCHANGED briefVars
      BY <1>3 DEF ReadStored, At, BriefInv, BriefCall
    <2> DEFINE says == stored[call[c].arg.lesson]
    <2>2. CASE says # None
      <3> DEFINE seen == [call[c].seen EXCEPT !.source = [kind |-> "stored", says |-> says]]
                 y == [op |-> call[c].op, pc |-> "write", arg |-> call[c].arg, seen |-> seen, result |-> call[c].result]
      <3>1. Goto(c, "write", seen, {})
        BY <1>3, <2>2 DEF ReadStored
      <3>2. says \in Verdict /\ says.of = call[c].arg.lesson
        BY <1>0, <2>1, <2>2 DEF BriefTables, TellKnows
      <3>3. [kind |-> "stored", says |-> says] \in Source
        BY <3>2 DEF Source
      <3>4. /\ seen \in [knew : BOOLEAN, source : Source \cup {None}]
            /\ seen.knew = call[c].seen.knew /\ seen.source = [kind |-> "stored", says |-> says]
        BY <2>1, <3>3 DEF TellKnows
      <3>5. TellKnows(y)
        <4> HIDE DEF seen, says
        <4> QED
          BY <1>0, <2>1, <3>2, <3>3, <3>4 DEF TellKnows
      <3>6. BriefCall(y, crossed'[c])
        BY <2>1, <3>5 DEF BriefCall
      <3> QED
        BY <2>1, <3>1, <3>6, BriefGoesOn
    <2>3. CASE says = None
      <3> DEFINE y == [op |-> call[c].op, pc |-> "ask", arg |-> call[c].arg, seen |-> call[c].seen, result |-> call[c].result]
      <3>1. Goto(c, "ask", call[c].seen, {})
        BY <1>3, <2>3 DEF ReadStored
      <3>2. BriefCall(y, crossed'[c])
        BY <2>1, <2>3 DEF BriefCall, TellKnows
      <3> QED
        BY <2>1, <3>1, <3>2, BriefGoesOn
    <2> QED
      BY <2>2, <2>3
  <1>4. CASE AskTrainer(c)
    <2>1. call[c].op = "tell" /\ call[c].pc = "ask" /\ TellKnows(call[c]) /\ UNCHANGED briefVars
      BY <1>4 DEF AskTrainer, At, BriefInv, BriefCall
    <2>2. PICK says \in {verdictOf[call[c].arg.lesson], None} :
            Goto(c, "write", [call[c].seen EXCEPT !.source = IF says = None THEN None ELSE [kind |-> "live", says |-> says]], {})
      BY <1>4 DEF AskTrainer
    <2> DEFINE source == IF says = None THEN None ELSE [kind |-> "live", says |-> says]
               seen == [call[c].seen EXCEPT !.source = source]
               y == [op |-> call[c].op, pc |-> "write", arg |-> call[c].arg, seen |-> seen, result |-> call[c].result]
    <2>3. says # None => says \in Verdict /\ says.of = call[c].arg.lesson
      BY <1>0, <2>1 DEF BriefTables, TellKnows
    <2>4. source \in Source \cup {None} /\ (source # None => source.says.of = call[c].arg.lesson)
      BY <2>3 DEF Source
    <2>5. seen \in [knew : BOOLEAN, source : Source \cup {None}] /\ seen.knew = call[c].seen.knew /\ seen.source = source
      <3> HIDE DEF source
      <3> QED
        BY <2>1, <2>4 DEF TellKnows
    <2>6. TellKnows(y)
      <3> HIDE DEF seen, source
      <3> QED
        BY <2>1, <2>4, <2>5 DEF TellKnows
    <2>7. BriefCall(y, crossed'[c])
      BY <2>1, <2>6 DEF BriefCall
    <2> QED
      BY <2>1, <2>2, <2>7, BriefGoesOn
  <1>5. CASE WriteReport(c)
    <2>1. call[c].op = "tell" /\ call[c].pc = "write" /\ TellKnows(call[c])
      BY <1>5 DEF WriteReport, At, BriefInv, BriefCall
    <2> DEFINE arg == call[c].arg
               seen == call[c].seen
    <2>2. /\ told' = [lesson |-> arg.lesson, role |-> arg.role, knew |-> seen.knew,
                      kind |-> IF seen.source = None THEN "notes" ELSE seen.source.kind,
                      of |-> IF seen.source = None THEN arg.lesson ELSE seen.source.says.of,
                      forManager |-> IF seen.source = None THEN None ELSE ManagerView(arg.role, seen.source.says)]
          /\ End(c, None, {})
          /\ UNCHANGED <<dispatched, marked, verdictOf, stored, chief, slide, transcribed, briefed>>
      BY <1>5 DEF WriteReport
    <2>3. /\ told'.lesson = arg.lesson /\ told'.role = arg.role /\ told'.knew = seen.knew
          /\ seen.source # None => told'.kind = seen.source.kind
          /\ told'.of = arg.lesson
          /\ told'.role = "LEARNER" => told'.forManager = None
      BY <2>1, <2>2 DEF TellKnows, ManagerView
    <2>4. SaidTrue'
      BY <1>0, <2>1, <2>2, <2>3 DEF SaidTrue, TellKnows
    <2> QED
      BY <2>1, <2>2, <2>4, BriefEnds
  <1>6. CASE ShowTranscript(c)
    <2>1. PICK s \in Lessons \cap dispatched : Begin(c, "transcript", "stored", s, stored[s] # None)
      BY <1>6 DEF ShowTranscript
    <2> DEFINE y == [op |-> "transcript", pc |-> "stored", arg |-> s, seen |-> stored[s] # None, result |-> None]
    <2>2. BriefCall(y, {})
      BY DEF BriefCall, TranscriptKnows
    <2>3. UNCHANGED briefVars
      BY <1>6 DEF ShowTranscript
    <2> QED
      BY <2>1, <2>2, <2>3, BriefBegins
  <1>7. CASE ReadTranscript(c)
    <2>1. call[c].op = "transcript" /\ call[c].pc = "stored" /\ TranscriptKnows(call[c])
          /\ UNCHANGED <<dispatched, marked, verdictOf, stored, chief, slide, told, briefed>>
      BY <1>7 DEF ReadTranscript, At, BriefInv, BriefCall
    <2>2. CASE stored[call[c].arg] # None
      <3>1. /\ transcribed' = [lesson |-> call[c].arg, knew |-> call[c].seen, kind |-> "stored", of |-> stored[call[c].arg].of]
            /\ End(c, None, {})
        BY <1>7, <2>2 DEF ReadTranscript
      <3>2. SaidTrue'
        BY <1>0, <2>1, <2>2, <3>1 DEF SaidTrue, TranscriptKnows, BriefTables
      <3> QED
        BY <2>1, <3>1, <3>2, BriefEnds
    <2>3. CASE stored[call[c].arg] = None
      <3> DEFINE y == [op |-> call[c].op, pc |-> "ask", arg |-> call[c].arg, seen |-> call[c].seen, result |-> call[c].result]
      <3>1. Goto(c, "ask", call[c].seen, {}) /\ UNCHANGED briefVars
        BY <1>7, <2>3 DEF ReadTranscript, briefVars
      <3>2. BriefCall(y, crossed'[c])
        BY <2>1, <2>3 DEF BriefCall, TranscriptKnows
      <3> QED
        BY <3>1, <3>2, BriefGoesOn
    <2> QED
      BY <2>2, <2>3
  <1>8. CASE AskTranscript(c)
    <2>1. call[c].op = "transcript" /\ call[c].pc = "ask" /\ TranscriptKnows(call[c])
          /\ UNCHANGED <<dispatched, marked, verdictOf, stored, chief, slide, told, briefed>>
      BY <1>8 DEF AskTranscript, At, BriefInv, BriefCall
    <2>2. CASE /\ verdictOf[call[c].arg] # None
               /\ transcribed' = [lesson |-> call[c].arg, knew |-> call[c].seen, kind |-> "live", of |-> verdictOf[call[c].arg].of]
               /\ End(c, None, {})
      <3>1. SaidTrue'
        BY <1>0, <2>1, <2>2 DEF SaidTrue, TranscriptKnows, BriefTables
      <3> QED
        BY <2>1, <2>2, <3>1, BriefEnds
    <2>3. CASE End(c, "failed", {}) /\ UNCHANGED transcribed
      BY <1>0, <2>1, <2>3, BriefEnds DEF SaidTrue
    <2> QED
      BY <1>8, <2>2, <2>3 DEF AskTranscript
  <1>9. CASE Brief(c)
    <2> DEFINE y == [op |-> "brief", pc |-> "assets", arg |-> None, seen |-> None, result |-> None]
    <2>1. Begin(c, "brief", "assets", None, None) /\ UNCHANGED briefVars
      BY <1>9 DEF Brief
    <2>2. BriefCall(y, {})
      BY <1>0 DEF BriefCall, BriefKnows
    <2> QED
      BY <2>1, <2>2, BriefBegins
  <1>10. CASE ReadAssets(c)
    <2> DEFINE clean == {v \in Slides : slide[v] = "CLEAN"}
               seen == [media |-> clean, waiting |-> clean]
               y == [op |-> call[c].op, pc |-> "links", arg |-> call[c].arg, seen |-> seen, result |-> call[c].result]
    <2>1. call[c].op = "brief" /\ call[c].pc = "assets" /\ Reread(c, "links", seen) /\ UNCHANGED briefVars
      BY <1>10 DEF ReadAssets, At
    <2>2. BriefKnows(call[c], crossed[c])
      BY <2>1 DEF BriefInv, BriefCall
    <2>3. BriefKnows(y, crossed'[c])
      BY <1>0, <2>1, <2>2 DEF BriefKnows
    <2>4. BriefCall(y, crossed'[c])
      BY <2>1, <2>3 DEF BriefCall
    <2> QED
      BY <2>1, <2>4, BriefGoesOn
  <1>11. CASE LinkAsset(c)
    <2>1. call[c].op = "brief" /\ call[c].pc = "links" /\ UNCHANGED briefVars
      BY <1>11 DEF LinkAsset, At
    <2>2. BriefKnows(call[c], crossed[c])
      BY <2>1 DEF BriefInv, BriefCall
    <2>3. PICK v \in call[c].seen.waiting :
            IF slide[v] = None THEN End(c, "missing", {})
            ELSE Goto(c, "links", [call[c].seen EXCEPT !.waiting = @ \ {v}], {})
      BY <1>11 DEF LinkAsset
    <2>4. CASE slide[v] = None
      <3>1. None # "CLEAN" => "slides" \in crossed[c]
        BY <2>1, <2>2, <2>3, <2>4 DEF BriefKnows
      <3>2. None # "CLEAN"
        BY BriefingsAssumption
      <3> QED
        BY <1>0, <2>1, <2>3, <2>4, <3>1, <3>2, BriefEnds DEF briefVars, SaidTrue
    <2>5. CASE slide[v] # None
      <3> DEFINE seen == [call[c].seen EXCEPT !.waiting = @ \ {v}]
                 y == [op |-> call[c].op, pc |-> "links", arg |-> call[c].arg, seen |-> seen, result |-> call[c].result]
      <3>1. Goto(c, "links", seen, {})
        BY <2>3, <2>5
      <3>2. /\ seen \in [media : SUBSET Slides, waiting : SUBSET Slides]
            /\ seen.media = call[c].seen.media /\ seen.waiting \subseteq call[c].seen.waiting
        BY <2>1, <2>2 DEF BriefKnows
      <3>3. crossed'[c] = crossed[c]
        BY <3>1, GotoDoes DEF CallsSound
      <3>4. BriefKnows(y, crossed'[c])
        <4> HIDE DEF seen
        <4> QED
          BY <2>1, <2>2, <3>2, <3>3 DEF BriefKnows
      <3>5. BriefCall(y, crossed'[c])
        BY <2>1, <3>4 DEF BriefCall
      <3> QED
        BY <2>1, <3>1, <3>5, BriefGoesOn
    <2> QED
      BY <2>4, <2>5
  <1>12. CASE EndBrief(c)
    <2>1. call[c].op = "brief" /\ call[c].pc = "links"
          /\ briefed' = [media |-> call[c].seen.media, unclean |-> {v \in call[c].seen.media : slide[v] # "CLEAN"},
                         torn |-> Stale(c, "slides")]
          /\ End(c, None, {})
          /\ UNCHANGED <<dispatched, marked, verdictOf, stored, chief, slide, told, transcribed>>
      BY <1>12 DEF EndBrief, At
    <2>2. BriefKnows(call[c], crossed[c])
      BY <2>1 DEF BriefInv, BriefCall
    <2>3. SaidTrue'
      BY <1>0, <2>1, <2>2 DEF SaidTrue, BriefKnows, Stale
    <2> QED
      BY <2>1, <2>3, BriefEnds
  <1>13. ASSUME UNCHANGED call, crossed'[c] = crossed[c], \A d \in Callers \ {c} : crossed[d] \subseteq crossed'[d],
                Kept, BriefTables', UNCHANGED saidVars, call[c].pc = "idle",
                slide' = slide \/ \A d \in Callers \ {c} : call[d].pc # "idle" => "slides" \in crossed'[d]
         PROVE BriefInv'
    <2>1. PICK x, w : x = call[c] /\ w = crossed[c]
      OBVIOUS
    <2>2. BriefCall(x, w)'
      BY <1>13, <2>1, OthersKnow DEF BriefInv
    <2>3. BriefCall(call[c], crossed[c])'
      BY <1>13, <2>1, <2>2
    <2>4. SaidTrue'
      BY <1>0, <1>13 DEF SaidTrue, saidVars, Kept
    <2> QED
      BY <1>13, <2>3, <2>4, BriefKeeps
  <1>14. ASSUME NEW op, NEW written, Atomically(c, op, written)
         PROVE /\ UNCHANGED call /\ crossed'[c] = crossed[c] /\ call[c].pc = "idle"
               /\ \A d \in Callers \ {c} : crossed[d] \subseteq crossed'[d] /\ (call[d].pc # "idle" => written \subseteq crossed'[d])
    <2>1. CallsOK
      BY DEF CallsSound
    <2>2. /\ CallsOK' /\ call' = call /\ op \in DOMAIN left /\ DOMAIN left' = DOMAIN left
          /\ crossed'[c] = crossed[c]
          /\ \A d \in Callers \ {c} : Sees(c, d, written)
      BY <1>14, <2>1, AtomicallyDoes
    <2>3. call[c].pc = "idle"
      BY <1>14 DEF Atomically, Asked
    <2> QED
      BY <2>2, <2>3 DEF Sees
  <1>15. CASE Evaluate(c)
    <2>1. PICK s \in dispatched, forManager \in {None, "view"} :
            verdictOf' = [verdictOf EXCEPT ![s] = [of |-> s, forManager |-> forManager]]
      BY <1>15 DEF Evaluate
    <2>2. Atomically(c, "evaluate", {}) /\ UNCHANGED <<dispatched, marked, stored, chief, slide, saidVars>>
      BY <1>15 DEF Evaluate
    <2>3. BriefTables' /\ Kept
      BY <1>0, <2>1, <2>2 DEF BriefTables, Kept, Verdict
    <2> QED
      BY <1>13, <1>14, <2>2, <2>3
  <1>16. CASE StoreEvaluation(c)
    <2>1. PICK s \in Lessons : verdictOf[s] # None /\ stored' = [stored EXCEPT ![s] = verdictOf[s]]
      BY <1>16 DEF StoreEvaluation
    <2>2. Atomically(c, "storeEvaluation", {}) /\ UNCHANGED <<dispatched, marked, verdictOf, chief, slide, saidVars>>
      BY <1>16 DEF StoreEvaluation
    <2>3. BriefTables' /\ Kept
      BY <1>0, <2>1, <2>2 DEF BriefTables, Kept
    <2> QED
      BY <1>13, <1>14, <2>2, <2>3
  <1>17. CASE ChangeSlide(c)
    <2>1. PICK v \in Slides, status \in {"CLEAN", "INFECTED", None} : slide' = [slide EXCEPT ![v] = status]
      BY <1>17 DEF ChangeSlide
    <2>2. Atomically(c, "changeSlide", {"slides"}) /\ UNCHANGED <<dispatched, marked, verdictOf, stored, chief, saidVars>>
      BY <1>17 DEF ChangeSlide
    <2>3. BriefTables' /\ Kept
      BY <1>0, <2>1, <2>2 DEF BriefTables, Kept
    <2>4. \A d \in Callers \ {c} : call[d].pc # "idle" => "slides" \in crossed'[d]
      BY <1>14, <2>2
    <2> QED
      BY <1>13, <1>14, <2>2, <2>3, <2>4
  <1>18. CASE LoseManager(c)
    <2>1. Atomically(c, "loseManager", {"chief"}) /\ UNCHANGED <<dispatched, marked, verdictOf, stored, slide, saidVars>>
      BY <1>18 DEF LoseManager
    <2>2. BriefTables' /\ Kept
      BY <1>0, <2>1 DEF BriefTables, Kept
    <2> QED
      BY <1>13, <1>14, <2>1, <2>2
  <1> QED
    BY <1>1, <1>2, <1>3, <1>4, <1>5, <1>6, <1>7, <1>8, <1>9, <1>10, <1>11, <1>12, <1>15, <1>16,
       <1>17, <1>18
       DEF BriefStep

\* All that is done beside the briefings leaves them alone.
LEMMA BriefsBesideOffice ==
  ASSUME CallsSound, [OfficeNext]_officeVars
  PROVE \/ \E c \in Callers : BriefStep(c)
        \/ UNCHANGED briefVars /\ Spares({"tell", "transcript", "brief"})
  <1> DEFINE ops == {"tell", "transcript", "brief"}
  <1>1. None \notin ops /\ ops \cap CatalogueCalls = {} /\ ops \cap SeedCalls = {}
        /\ ops \cap UnitCalls = {}
        /\ ops \cap SweepCalls = {} /\ ops \cap ListCalls = {}
    BY OfficeAssumption DEF CatalogueCalls, SeedCalls, UnitCalls, SweepCalls, BriefCalls, ListCalls
  <1> HIDE DEF ops
  <1>2. CASE UNCHANGED officeVars
    BY <1>2, NoCallSpares DEF officeVars
  <1>3. ASSUME NEW c \in Callers, OfficeStep(c) PROVE BriefStep(c) \/ (UNCHANGED briefVars
        /\ Spares(ops))
    BY <1>1, <1>3, CatalogueSpares, SeedsSpare, UnitsSpare, SweepsSpare, ListsSpare DEF OfficeStep
  <1> QED
    BY <1>2, <1>3 DEF OfficeNext, ops

\* Reports, transcripts and contexts say what is so (report-data.service.ts, session.service.ts,
\* agent-session.service.ts), whatever else the back office does meanwhile.
THEOREM BriefingsSayWhatIsSo == OfficeSpec => [](BriefingsAreTrue /\ BriefingsTypeOK)
  <1>1. OfficeInit => CallsSound /\ BriefInv
    BY BriefStart, CallsStartSound DEF OfficeInit, Init
  <1>2. CallsSound /\ BriefInv /\ [OfficeNext]_officeVars => CallsSound' /\ BriefInv'
    BY OfficeCalls, BriefsBesideOffice, BriefsHold, BriefsBeside
  <1>3. BriefInv => BriefingsAreTrue /\ BriefingsTypeOK
    BY BriefInvIsTrue
  <1> QED
    BY <1>1, <1>2, <1>3, PTL DEF OfficeSpec

-----------------------------------------------------------------------------
(* Lists: who was there from the first page to the last is on one of them, *)
(* once.  Rows keep their team and their time, so that the rows up to a    *)
(* cursor are those that were read, except who came at a time of others.   *)

\* The order in which rows come has each of them once.
LEMMA OrderOf ==
  ASSUME NEW S, IsFiniteSet(S), NEW order \in SetToSeqs(S)
  PROVE /\ order \in Seq(S) /\ Len(order) = Cardinality(S) /\ DOMAIN order = 1 .. Len(order)
        /\ \A i, j \in 1 .. Len(order) : order[i] = order[j] => i = j
        /\ \A l \in S : \E i \in 1 .. Len(order) : order[i] = l
  <1> DEFINE n == Cardinality(S)
  <1>1. n \in Nat
    BY FS_CardinalityType
  <1>2. order \in [1 .. n -> S] /\ \A i, j \in 1 .. n : i # j => order[i] # order[j]
    BY DEF SetToSeqs
  <1> HIDE DEF n
  <1>3. order \in Seq(S) /\ Len(order) = n /\ DOMAIN order = 1 .. n
    BY <1>1, <1>2
  <1>4. order \in Injection(1 .. n, S)
    BY <1>2 DEF Injection, IsInjective
  <1>5. IsFiniteSet(1 .. n) /\ Cardinality(1 .. n) = n
    BY <1>1, FS_Interval
  <1>6. order \in Surjection(1 .. n, S)
    BY <1>4, <1>5, FS_Injection DEF n
  <1>7. \A l \in S : \E i \in 1 .. n : order[i] = l
    BY <1>6 DEF Surjection
  <1> QED
    BY <1>2, <1>3, <1>7 DEF n

\* The learners, the managers and the times.

ListTables ==
  /\ entry = [l \in Entries |-> entry[l]] /\ leads = [t \in Groups |-> leads[t]] /\ today \in Nat
  /\ \A l \in Entries : entry[l] # None => entry[l] \in EntryRow /\ entry[l].made <= today
  /\ \A l, m \in Entries : entry[l] # None /\ entry[m] # None /\ l # m /\ entry[l].made = entry[m].made =>
       entry[l].made \in crowded

\* A list under way has read, of those it may show and that no other came with, all up to the cursor.
Shows(x, l) == TokenRole[x.arg.user] = "ADMIN" \/ leads[entry[l].group] = x.arg.user
Upto(x, l) == x.seen.cursor # None /\ entry[l].made <= x.seen.cursor
Wanted(x, l) == /\ entry[l] # None /\ ~entry[l].gone /\ x.seen.atFirst[l] = entry[l] /\ entry[l].made \notin crowded
                /\ Shows(x, l) /\ x.arg.filter \in {None, entry[l].group}
HasRead(x) ==
  /\ x.seen.rows \in Seq(Entries)
  /\ \A i, j \in 1 .. Len(x.seen.rows) : x.seen.rows[i] = x.seen.rows[j] => i = j
  /\ \A i \in 1 .. Len(x.seen.rows) : entry[x.seen.rows[i]] # None /\ Upto(x, x.seen.rows[i])
MissesNone(x) ==
  /\ \A i \in 1 .. Len(x.seen.rows) : Shows(x, x.seen.rows[i])
  /\ \A l \in Entries : Wanted(x, l) /\ Upto(x, l) => \E i \in 1 .. Len(x.seen.rows) : x.seen.rows[i] = l
ScopeKnown(x, written) ==
  /\ x.seen.scope.all = (TokenRole[x.arg.user] = "ADMIN")
  /\ "leads" \notin written /\ ~x.seen.scope.all => x.seen.scope.groups = GroupsOf(x.arg.user)
WalkKnows(x, written) ==
  /\ x.pc \in {"guard", "page"} /\ x.arg.user \in Readers
  /\ x.seen = [cursor |-> x.seen.cursor, scope |-> x.seen.scope, rows |-> x.seen.rows, atFirst |-> x.seen.atFirst]
  /\ x.seen.cursor \in Nat \cup {None}
  /\ \A l \in Entries : x.seen.atFirst[l] # None => entry[l] # None
  /\ HasRead(x) /\ ("leads" \notin written => MissesNone(x))
  /\ x.pc = "page" => ScopeKnown(x, written)
OpenKnows(x, written) ==
  /\ x.pc \in {"manager", "read"} /\ x.arg.entry \in Entries /\ entry[x.arg.entry] # None
  /\ x.seen = entry[x.arg.entry].group
  /\ x.pc = "read" /\ TokenRole[x.arg.user] # "ADMIN" /\ "leads" \notin written => leads[x.seen] = x.arg.user
ListCall(x, written) == x.pc # "idle" =>
  /\ x.op = "walk" => WalkKnows(x, written)
  /\ x.op = "open" => OpenKnows(x, written)
ListInv == ListTables /\ ListsHold /\ \A d \in Callers : ListCall(call[d], crossed[d])

\* It is what the run checks, and the types.
LEMMA ListInvIsTrue ==
  ASSUME ListInv PROVE ListsHold /\ ListingsTypeOK
  BY DEF ListInv, ListTables, ListingsTypeOK, Listed, EntryRow

\* At the start nothing was shown.
LEMMA ListStart ==
  ASSUME OfficeInit PROVE ListInv
  <1>1. \A c \in Callers : call[c] = Idle /\ crossed[c] = {}
    BY CallsStart DEF OfficeInit, Init
  <1>2. Idle.pc = "idle"
    BY DEF Idle
  <1>3. PICK k \in Cases : entry = k.listings.entry /\ leads = k.listings.leads
    BY DEF OfficeInit, Init, ListingsInit
  <1>4. today = 3 /\ walked = None /\ opened = None
    BY DEF OfficeInit, ListingsInit, FirstDay
  <1>5. ListTables
    <2>1. /\ leads \in [Groups -> Readers \cup {None}] /\ entry \in [Entries -> EntryRow \cup {None}]
          /\ \A l \in Entries : entry[l] # None => entry[l].made <= 3
          /\ \A l, m \in Entries : entry[l] # None /\ entry[m] # None /\ entry[l].made = entry[m].made => l = m
      BY <1>3, StartAssumption DEF FirstDay
    <2> QED
      BY <1>4, <2>1 DEF ListTables
  <1>6. ListsHold
    BY <1>4 DEF ListsHold, ShownInScope, PagesComplete
  <1> QED
    BY <1>1, <1>2, <1>5, <1>6 DEF ListInv, ListCall

\* Rows keep their team and their time, and are marked only once.
RowsStay ==
  /\ \A l \in Entries : entry[l] # None =>
       /\ entry'[l] # None /\ entry'[l].group = entry[l].group /\ entry'[l].made = entry[l].made
       /\ ~entry'[l].gone => entry'[l] = entry[l]
  /\ crowded \subseteq crowded'

\* A call that is not concerned knows what it knew.
LEMMA ListOthersKnow ==
  ASSUME NEW x, NEW written, NEW more, ListCall(x, written), RowsStay, written \subseteq more,
         leads' = leads \/ "leads" \in more \/ x.pc = "idle"
  PROVE ListCall(x, more)'
  <1>1. ASSUME WalkKnows(x, written), leads' = leads \/ "leads" \in more PROVE WalkKnows(x, more)'
    <2>1. \A i \in 1 .. Len(x.seen.rows) : x.seen.rows[i] \in Entries
      BY <1>1 DEF WalkKnows, HasRead
    <2>2. HasRead(x)'
      BY <1>1, <2>1 DEF WalkKnows, HasRead, Upto, RowsStay
    <2>3. ASSUME "leads" \notin more PROVE MissesNone(x)'
      <3>1. leads' = leads /\ MissesNone(x)
        BY <1>1, <2>3 DEF WalkKnows
      <3>2. \A i \in 1 .. Len(x.seen.rows) : Shows(x, x.seen.rows[i])'
        BY <1>1, <2>1, <3>1 DEF WalkKnows, HasRead, MissesNone, Shows, RowsStay
      <3>3. ASSUME NEW l \in Entries, Wanted(x, l)', Upto(x, l)'
            PROVE Wanted(x, l) /\ Upto(x, l)
        <4>1. entry[l] # None
          BY <1>1, <3>3 DEF WalkKnows, Wanted
        <4>2. entry'[l] = entry[l]
          BY <3>3, <4>1 DEF Wanted, RowsStay
        <4> QED
          BY <3>1, <3>3, <4>2 DEF Wanted, Upto, Shows, RowsStay
      <3> QED
        BY <3>1, <3>2, <3>3 DEF MissesNone
    <2>4. x.pc = "page" => ScopeKnown(x, more)'
      BY <1>1 DEF WalkKnows, ScopeKnown, GroupsOf
    <2>5. \A l \in Entries : x.seen.atFirst[l] # None => entry'[l] # None
      BY <1>1 DEF WalkKnows, RowsStay
    <2> QED
      BY <1>1, <2>2, <2>3, <2>4, <2>5 DEF WalkKnows
  <1>2. ASSUME OpenKnows(x, written), leads' = leads \/ "leads" \in more PROVE OpenKnows(x, more)'
    BY <1>2 DEF OpenKnows, RowsStay
  <1> QED
    BY <1>1, <1>2 DEF ListCall

\* So a step keeps the invariant if its own call knows what it should.
LEMMA ListKeeps ==
  ASSUME ListInv, NEW c \in Callers, RowsStay, ListTables', ListsHold', ListCall(call[c], crossed[c])',
         \A d \in Callers \ {c} : call'[d] = call[d] /\ crossed[d] \subseteq crossed'[d],
         leads' = leads \/ \A d \in Callers \ {c} : call[d].pc # "idle" => "leads" \in crossed'[d]
  PROVE ListInv'
  <1>1. SUFFICES ASSUME NEW d \in Callers \ {c} PROVE ListCall(call[d], crossed[d])'
    BY DEF ListInv
  <1>2. PICK x, w, m : x = call[d] /\ w = crossed[d] /\ m = crossed'[d]
    OBVIOUS
  <1>3. ListCall(x, w) /\ w \subseteq m /\ (leads' = leads \/ "leads" \in m \/ x.pc = "idle")
    BY <1>1, <1>2 DEF ListInv
  <1>4. ListCall(x, m)'
    BY <1>3, ListOthersKnow
  <1> QED
    BY <1>1, <1>2, <1>4

\* A step of another service does not matter.
LEMMA ListsBeside ==
  ASSUME ListInv, Spares({"walk", "open"}), UNCHANGED listVars
  PROVE ListInv'
  <1>1. RowsStay /\ ListTables' /\ ListsHold' /\ leads' = leads
    BY DEF ListInv, ListTables, ListsHold, ShownInScope, PagesComplete, listVars, RowsStay
  <1>2. SUFFICES ASSUME NEW d \in Callers PROVE ListCall(call[d], crossed[d])'
    BY <1>1 DEF ListInv
  <1>3. PICK x, w, m : x = call'[d] /\ w = crossed[d] /\ m = crossed'[d]
    OBVIOUS
  <1>4. CASE x.op \in {"walk", "open"}
    <2>1. ListCall(x, w) /\ w \subseteq m
      BY <1>3, <1>4 DEF ListInv, Spares
    <2>2. ListCall(x, m)'
      BY <1>1, <2>1, ListOthersKnow
    <2> QED
      BY <1>3, <2>2
  <1>5. CASE x.op \notin {"walk", "open"}
    BY <1>3, <1>5 DEF ListCall
  <1> QED
    BY <1>4, <1>5

\* A call of lists begins.
LEMMA ListBegins ==
  ASSUME CallsSound, ListInv, NEW c \in Callers, NEW op, NEW pc, NEW arg, NEW seen, Begin(c, op, pc, arg, seen),
         NEW y, y = [op |-> op, pc |-> pc, arg |-> arg, seen |-> seen, result |-> None], UNCHANGED listVars,
         ListCall(y, {})
  PROVE ListInv'
  <1>1. /\ call'[c] = y /\ crossed'[c] = {}
        /\ \A d \in Callers \ {c} : call'[d] = call[d] /\ crossed'[d] = crossed[d]
    BY BeginDoes DEF CallsSound
  <1>2. RowsStay /\ ListTables' /\ ListsHold' /\ leads' = leads
    BY DEF ListInv, ListTables, ListsHold, ShownInScope, PagesComplete, listVars, RowsStay
  <1>3. ListCall(y, {})'
    BY <1>2, ListOthersKnow
  <1>4. ListCall(call[c], crossed[c])'
    BY <1>1, <1>3
  <1> QED
    BY <1>1, <1>2, <1>4, ListKeeps

\* It goes on.
LEMMA ListGoesOn ==
  ASSUME CallsSound, ListInv, NEW c \in Callers, NEW pc, NEW seen, NEW written, Goto(c, pc, seen, written),
         NEW y, y = [op |-> call[c].op, pc |-> pc, arg |-> call[c].arg, seen |-> seen, result |-> call[c].result],
         UNCHANGED listVars, ListCall(y, crossed[c])
  PROVE ListInv'
  <1>1. /\ call'[c] = y /\ crossed'[c] = crossed[c]
        /\ \A d \in Callers \ {c} : call'[d] = call[d] /\ crossed[d] \subseteq crossed'[d]
    <2>1. CallsOK
      BY DEF CallsSound
    <2>2. call'[c] = y /\ crossed'[c] = crossed[c] /\ \A d \in Callers \ {c} : Sees(c, d, written)
      BY <2>1, GotoDoes
    <2>3. \A d \in Callers \ {c} : call'[d] = call[d] /\ crossed[d] \subseteq crossed'[d]
      BY <2>2 DEF Sees
    <2> QED
      BY <2>2, <2>3
  <1>2. RowsStay /\ ListTables' /\ ListsHold' /\ leads' = leads
    BY DEF ListInv, ListTables, ListsHold, ShownInScope, PagesComplete, listVars, RowsStay
  <1>3. PICK w : w = crossed[c]
    OBVIOUS
  <1>4. ListCall(y, w)'
    BY <1>2, <1>3, ListOthersKnow
  <1>5. ListCall(call[c], crossed[c])'
    BY <1>1, <1>3, <1>4
  <1> QED
    BY <1>1, <1>2, <1>5, ListKeeps

\* It ends.
LEMMA ListEnds ==
  ASSUME CallsSound, ListInv, NEW c \in Callers, NEW result, NEW written, End(c, result, written),
         UNCHANGED <<entry, leads, today, crowded>>, ListsHold'
  PROVE ListInv'
  <1>1. /\ call'[c].pc = "idle"
        /\ \A d \in Callers \ {c} : call'[d] = call[d] /\ crossed[d] \subseteq crossed'[d]
    BY EndDoes DEF CallsSound, Sees
  <1>2. RowsStay /\ ListTables' /\ leads' = leads
    BY DEF ListInv, ListTables, RowsStay
  <1> QED
    BY <1>1, <1>2, ListKeeps DEF ListCall

\* One statement.
LEMMA ListChanges ==
  ASSUME CallsSound, ListInv, NEW c \in Callers, NEW op, NEW written, Atomically(c, op, written),
         RowsStay, ListTables', UNCHANGED <<walked, opened>>, leads' = leads \/ "leads" \in written
  PROVE ListInv'
  <1>1. /\ call'[c] = call[c] /\ call[c].pc = "idle"
        /\ \A d \in Callers \ {c} : call'[d] = call[d] /\ crossed[d] \subseteq crossed'[d]
        /\ \A d \in Callers \ {c} : call[d].pc # "idle" => written \subseteq crossed'[d]
    <2>1. CallsOK
      BY DEF CallsSound
    <2>2. call' = call /\ \A d \in Callers \ {c} : Sees(c, d, written)
      BY <2>1, AtomicallyDoes
    <2>3. call[c].pc = "idle"
      BY DEF Atomically, Asked
    <2> QED
      BY <2>2, <2>3 DEF Sees
  <1>2. ListsHold'
    BY DEF ListInv, ListsHold, ShownInScope, PagesComplete
  <1> QED
    BY <1>1, <1>2, ListKeeps DEF ListCall

\* The rows that a page is read from.
PageOf(x) == After(ScopedRows(x.seen.scope, x.arg.filter), x.seen.cursor)
\* What a page reads is behind the cursor, in order, and no row twice.
LEMMA PageFacts ==
  ASSUME ListTables, NEW x, NEW written, WalkKnows(x, written), x.pc = "page", NEW order \in Orders(PageOf(x))
  PROVE /\ order \in Seq(Entries)
        /\ \A i, j \in 1 .. Len(order) : order[i] = order[j] => i = j
        /\ \A i, j \in 1 .. Len(order) : i < j => entry[order[i]].made <= entry[order[j]].made
        /\ \A i \in 1 .. Len(order) : /\ order[i] \in Listed
                                      /\ x.seen.cursor = None \/ entry[order[i]].made > x.seen.cursor
        /\ "leads" \notin written => \A i \in 1 .. Len(order) : Shows(x, order[i])
        /\ "leads" \notin written => \A l \in Entries : Wanted(x, l) /\ ~Upto(x, l) => \E i \in 1 .. Len(order) : order[i] = l
  <1> DEFINE S == PageOf(x)
  <1>1. S \subseteq Listed /\ Listed \subseteq Entries
        /\ \A l \in S : x.seen.cursor = None \/ entry[l].made > x.seen.cursor
    BY DEF PageOf, After, ScopedRows, Listed
  <1>2. IsFiniteSet(S)
    BY <1>1, FS_Subset, ListingsAssumption
  <1>3. "leads" \notin written => \A l \in S : Shows(x, l)
    BY <1>1 DEF PageOf, After, ScopedRows, WalkKnows, ScopeKnown, Shows, GroupsOf
  <1>4. ASSUME "leads" \notin written, NEW l \in Entries, Wanted(x, l), ~Upto(x, l) PROVE l \in S
    <2>1. entry[l] \in EntryRow
      BY <1>4 DEF Wanted, ListTables
    <2>2. x.seen.cursor = None \/ entry[l].made > x.seen.cursor
      BY <1>4, <2>1 DEF Upto, EntryRow, WalkKnows
    <2>3. x.seen.scope.all \/ entry[l].group \in x.seen.scope.groups
      BY <1>4, <2>1 DEF Wanted, Shows, WalkKnows, ScopeKnown, GroupsOf, EntryRow
    <2> QED
      BY <1>4, <2>2, <2>3 DEF PageOf, After, ScopedRows, Listed, Wanted
  <1>5. order \in SetToSeqs(S) /\ \A i, j \in 1 .. Len(order) : i < j => entry[order[i]].made <= entry[order[j]].made
    BY DEF Orders
  <1> HIDE DEF S
  <1>6. /\ order \in Seq(S)
        /\ \A i, j \in 1 .. Len(order) : order[i] = order[j] => i = j
        /\ \A l \in S : \E i \in 1 .. Len(order) : order[i] = l
    BY <1>2, <1>5, OrderOf
  <1>7. \A i \in 1 .. Len(order) : order[i] \in S
    BY <1>6
  <1> QED
    BY <1>1, <1>3, <1>4, <1>5, <1>6, <1>7

\* One list after another.
LEMMA Joined ==
  ASSUME NEW n \in Nat, NEW m \in Nat, NEW s, NEW t, NEW r,
         \A i \in 1 .. n + m : r[i] = IF i <= n THEN s[i] ELSE t[i - n]
  PROVE /\ \A k \in 1 .. n : k \in 1 .. n + m /\ r[k] = s[k]
        /\ \A k \in 1 .. m : k + n \in 1 .. n + m /\ r[k + n] = t[k]
        /\ \A k \in 1 .. n + m : (k \in 1 .. n /\ r[k] = s[k]) \/ \E a \in 1 .. m : k = a + n /\ r[k] = t[a]
  <1>1. ASSUME NEW k \in 1 .. m PROVE k + n \in 1 .. n + m /\ r[k + n] = t[k]
    <2>1. k + n \in 1 .. n + m /\ ~(k + n <= n) /\ (k + n) - n = k
      OBVIOUS
    <2> QED
      BY <2>1
  <1>2. ASSUME NEW k \in 1 .. n PROVE k \in 1 .. n + m /\ r[k] = s[k]
    BY <1>2
  <1>3. ASSUME NEW k \in 1 .. n + m, k > n PROVE \E a \in 1 .. m : k = a + n /\ r[k] = t[a]
    <2>1. k - n \in 1 .. m /\ k = (k - n) + n
      BY <1>3
    <2> QED
      BY <1>1, <2>1
  <1>4. ASSUME NEW k \in 1 .. n + m, ~(k > n) PROVE k \in 1 .. n
    BY <1>4
  <1> QED
    BY <1>1, <1>2, <1>3, <1>4

\* Without a row that is in both, or twice in one, none is there twice.
LEMMA JoinedOnce ==
  ASSUME NEW n \in Nat, NEW m \in Nat, NEW s, NEW t, NEW r,
         \A i \in 1 .. n + m : r[i] = IF i <= n THEN s[i] ELSE t[i - n],
         \A a, b \in 1 .. n : s[a] = s[b] => a = b,
         \A a, b \in 1 .. m : t[a] = t[b] => a = b,
         \A a \in 1 .. n, b \in 1 .. m : s[a] # t[b]
  PROVE \A i, j \in 1 .. n + m : r[i] = r[j] => i = j
  <1>1. SUFFICES ASSUME NEW i \in 1 .. n + m, NEW j \in 1 .. n + m, r[i] = r[j] PROVE i = j
    OBVIOUS
  <1>2. \A k \in 1 .. n + m : (k \in 1 .. n /\ r[k] = s[k]) \/ \E a \in 1 .. m : k = a + n /\ r[k] = t[a]
    BY Joined
  <1> QED
    BY <1>1, <1>2

\* A list goes on from the page it has read, to a new cursor, or ends with it.
Reads(x, order, data, read) ==
  /\ data = IF Len(order) > Limit THEN SubSeq(order, 1, Limit) ELSE order
  /\ read = x.seen.rows \o data
ReadOnce(x, data, read) ==
  /\ read \in Seq(Entries)
  /\ \A i, j \in 1 .. Len(read) : read[i] = read[j] => i = j
  /\ \A i \in 1 .. Len(read) : (\E n \in 1 .. Len(x.seen.rows) : read[i] = x.seen.rows[n]) \/ \E n \in 1 .. Len(data) : read[i] = data[n]
  /\ \A a \in 1 .. Len(x.seen.rows) : \E i \in 1 .. Len(read) : read[i] = x.seen.rows[a]
  /\ \A a \in 1 .. Len(data) : \E i \in 1 .. Len(read) : read[i] = data[a]
\* So it is with the rows of a page that is read.
LEMMA PageRead ==
  ASSUME ListTables, NEW x, NEW written, WalkKnows(x, written), x.pc = "page", NEW order \in Orders(PageOf(x)),
         NEW data, NEW read, Reads(x, order, data, read)
  PROVE ReadOnce(x, data, read)
  <1> DEFINE rows == x.seen.rows
  <1>1. /\ order \in Seq(Entries)
        /\ \A i, j \in 1 .. Len(order) : order[i] = order[j] => i = j
        /\ \A i \in 1 .. Len(order) : order[i] \in Entries /\ entry[order[i]] # None
                                      /\ (x.seen.cursor = None \/ entry[order[i]].made > x.seen.cursor)
    BY PageFacts DEF Listed
  <1>2. /\ rows \in Seq(Entries)
        /\ \A i, j \in 1 .. Len(rows) : rows[i] = rows[j] => i = j
        /\ \A i \in 1 .. Len(rows) : rows[i] \in Entries /\ entry[rows[i]] # None /\ x.seen.cursor # None
                                     /\ entry[rows[i]].made <= x.seen.cursor
    BY DEF WalkKnows, HasRead, Upto
  <1>3. /\ data \in Seq(Entries) /\ Len(data) <= Len(order)
        /\ \A n \in 1 .. Len(data) : data[n] = order[n]
    BY <1>1, ListingsAssumption DEF Reads
  <1>4. /\ read \in Seq(Entries) /\ Len(read) = Len(rows) + Len(data)
        /\ \A i \in 1 .. Len(read) : read[i] = IF i <= Len(rows) THEN rows[i] ELSE data[i - Len(rows)]
    <2>1. rows \in Seq(Entries) /\ data \in Seq(Entries) /\ read = rows \o data
      BY <1>2, <1>3 DEF Reads
    <2> HIDE DEF rows
    <2>2. /\ rows \o data \in Seq(Entries)
          /\ Len(rows \o data) = Len(rows) + Len(data)
          /\ \A i \in 1 .. Len(rows) + Len(data) : (rows \o data)[i] = IF i <= Len(rows) THEN rows[i] ELSE data[i - Len(rows)]
      BY <2>1, ConcatProperties, Zenon
    <2> QED
      BY <2>1, <2>2, Zenon
  <1>5. \A n \in 1 .. Len(rows), m \in 1 .. Len(data) : rows[n] # data[m]
    <2>1. SUFFICES ASSUME NEW n \in 1 .. Len(rows), NEW m \in 1 .. Len(order), rows[n] = order[m] PROVE FALSE
      BY <1>1, <1>3
    <2>2. entry[rows[n]] \in EntryRow
      BY <1>2 DEF ListTables
    <2> QED
      BY <1>1, <1>2, <2>1, <2>2 DEF EntryRow, WalkKnows
  <1> HIDE DEF rows
  <1>6. PICK n \in Nat, m \in Nat : n = Len(rows) /\ m = Len(data)
    BY <1>2, <1>3 DEF rows
  <1>7. PICK s, t : s = rows /\ t = data
    OBVIOUS
  <1>8. /\ Len(read) = n + m
        /\ \A i \in 1 .. n + m : read[i] = IF i <= n THEN s[i] ELSE t[i - n]
    BY <1>4, <1>6, <1>7
  <1>9. /\ \A k \in 1 .. n : k \in 1 .. n + m /\ read[k] = s[k]
        /\ \A k \in 1 .. m : k + n \in 1 .. n + m /\ read[k + n] = t[k]
        /\ \A k \in 1 .. n + m : (k \in 1 .. n /\ read[k] = s[k]) \/ \E a \in 1 .. m : k = a + n /\ read[k] = t[a]
    BY <1>8, Joined
  <1>10. \A i, j \in 1 .. n + m : read[i] = read[j] => i = j
    <2>1. \A a, b \in 1 .. m : t[a] = t[b] => a = b
      BY <1>1, <1>3, <1>6, <1>7
    <2>2. \A a, b \in 1 .. n : s[a] = s[b] => a = b
      BY <1>2, <1>6, <1>7 DEF rows
    <2>3. \A a \in 1 .. n, b \in 1 .. m : s[a] # t[b]
      BY <1>5, <1>6, <1>7
    <2> QED
      BY <1>8, <2>1, <2>2, <2>3, JoinedOnce
  <1>11. 1 .. Len(read) = 1 .. n + m /\ 1 .. Len(rows) = 1 .. n /\ 1 .. Len(data) = 1 .. m
    BY <1>6, <1>8, Zenon
  <1>12. read \in Seq(Entries)
    BY <1>4
  <1>13. \A i, j \in 1 .. Len(read) : read[i] = read[j] => i = j
    BY <1>10, <1>11, Zenon
  <1>14. \A i \in 1 .. Len(read) : (\E k \in 1 .. Len(rows) : read[i] = rows[k]) \/ \E k \in 1 .. Len(data) : read[i] = data[k]
    BY <1>7, <1>9, <1>11, Zenon
  <1>15. \A a \in 1 .. Len(rows) : \E i \in 1 .. Len(read) : read[i] = rows[a]
    BY <1>7, <1>9, <1>11, Zenon
  <1>16. \A a \in 1 .. Len(data) : \E i \in 1 .. Len(read) : read[i] = data[a]
    BY <1>7, <1>9, <1>11, Zenon
  <1> QED
    BY <1>12, <1>13, <1>14, <1>15, <1>16, Zenon DEF rows, ReadOnce

NextPage(x, data, read, y) ==
  /\ y.pc = "guard" /\ y.arg = x.arg
  /\ y.seen = [cursor |-> entry[Last(data)].made, scope |-> x.seen.scope, rows |-> read, atFirst |-> x.seen.atFirst]
Shown(x, read, written) ==
  walked' = [user |-> x.arg.user, filter |-> x.arg.filter, rows |-> read,
             throughout |-> {l \in Listed : x.seen.atFirst[l] = entry[l]}, rowsAtEnd |-> entry,
             leads |-> leads, ledAnew |-> "leads" \in written, crowded |-> crowded]
\* A page with more behind it: the cursor moves on to its last row.
LEMMA WalkGoesOn ==
  ASSUME ListTables, NEW x, NEW written, WalkKnows(x, written), x.pc = "page", NEW order \in Orders(PageOf(x)),
         NEW data, NEW read, Reads(x, order, data, read), Len(order) > Limit,
         NEW y, NextPage(x, data, read, y)
  PROVE WalkKnows(y, written)
  <1>1. /\ order \in Seq(Entries)
        /\ \A i, j \in 1 .. Len(order) : order[i] = order[j] => i = j
        /\ \A i, j \in 1 .. Len(order) : i < j => entry[order[i]].made <= entry[order[j]].made
        /\ \A i \in 1 .. Len(order) : order[i] \in Listed /\ (x.seen.cursor = None \/ entry[order[i]].made > x.seen.cursor)
        /\ "leads" \notin written => \A i \in 1 .. Len(order) : Shows(x, order[i])
        /\ "leads" \notin written => \A l \in Entries : Wanted(x, l) /\ ~Upto(x, l) => \E i \in 1 .. Len(order) : order[i] = l
    BY PageFacts
  <1>2. /\ read \in Seq(Entries)
        /\ \A i, j \in 1 .. Len(read) : read[i] = read[j] => i = j
        /\ \A i \in 1 .. Len(read) : (\E n \in 1 .. Len(x.seen.rows) : read[i] = x.seen.rows[n]) \/ \E n \in 1 .. Len(data) : read[i] = data[n]
        /\ \A a \in 1 .. Len(x.seen.rows) : \E i \in 1 .. Len(read) : read[i] = x.seen.rows[a]
        /\ \A a \in 1 .. Len(data) : \E i \in 1 .. Len(read) : read[i] = data[a]
    <2>1. ReadOnce(x, data, read)
      BY PageRead
    <2> QED
      BY <2>1 DEF ReadOnce
  <1>3. data = SubSeq(order, 1, Limit) /\ Limit \in Nat /\ Limit >= 1 /\ Len(order) \in Nat
    BY <1>1, ListingsAssumption DEF Reads
  <1>4. Len(data) = Limit /\ \A n \in 1 .. Limit : data[n] = order[n] /\ n \in 1 .. Len(order)
    BY <1>1, <1>3
  <1>5. Limit \in 1 .. Len(order) /\ Last(data) = order[Limit]
    BY <1>3, <1>4 DEF Last
  <1>6. PICK k : k = entry[order[Limit]].made
    OBVIOUS
  <1>7. \A i \in 1 .. Len(order) : order[i] \in Entries /\ entry[order[i]] # None /\ ~entry[order[i]].gone
                                   /\ entry[order[i]] \in EntryRow /\ entry[order[i]].made \in Nat
    BY <1>1 DEF Listed, ListTables, EntryRow
  <1>8. k \in Nat /\ y.pc = "guard" /\ y.arg = x.arg /\ y.seen.cursor = k /\ y.seen.rows = read /\ y.seen.atFirst = x.seen.atFirst /\ y.seen.scope = x.seen.scope
        /\ y.seen = [cursor |-> y.seen.cursor, scope |-> y.seen.scope, rows |-> y.seen.rows, atFirst |-> y.seen.atFirst]
    BY <1>5, <1>6, <1>7 DEF NextPage
  <1>9. k # None
    BY <1>8, ListingsAssumption
  <1>10. \A n \in 1 .. Len(x.seen.rows) : /\ x.seen.rows[n] \in Entries /\ entry[x.seen.rows[n]] # None
                                          /\ entry[x.seen.rows[n]].made <= k
    <2>1. SUFFICES ASSUME NEW n \in 1 .. Len(x.seen.rows)
          PROVE /\ x.seen.rows[n] \in Entries /\ entry[x.seen.rows[n]] # None
                /\ entry[x.seen.rows[n]].made <= k
      OBVIOUS
    <2>2. x.seen.rows[n] \in Entries /\ entry[x.seen.rows[n]] # None /\ x.seen.cursor \in Nat /\ x.seen.cursor # None
          /\ entry[x.seen.rows[n]].made <= x.seen.cursor
      BY <2>1 DEF WalkKnows, HasRead, Upto
    <2>3. entry[x.seen.rows[n]] \in EntryRow
      BY <2>2 DEF ListTables
    <2>4. k > x.seen.cursor
      BY <1>1, <1>5, <1>6, <2>2
    <2> QED
      BY <1>8, <2>2, <2>3, <2>4 DEF EntryRow
  <1>11. \A n \in 1 .. Len(data) : data[n] \in Entries /\ entry[data[n]] # None /\ entry[data[n]].made <= k
    <2>1. SUFFICES ASSUME NEW n \in 1 .. Limit
          PROVE order[n] \in Entries /\ entry[order[n]] # None /\ entry[order[n]].made <= k
      BY <1>4
    <2>2. n \in 1 .. Len(order) /\ (n < Limit \/ n = Limit)
      BY <1>3, <1>4
    <2> QED
      BY <1>1, <1>5, <1>6, <1>7, <1>8, <2>2
  <1>12. HasRead(y)
    <2>1. ASSUME NEW i \in 1 .. Len(read) PROVE entry[read[i]] # None /\ entry[read[i]].made <= k
      <3>1. CASE \E n \in 1 .. Len(x.seen.rows) : read[i] = x.seen.rows[n]
        BY <1>10, <3>1, Zenon
      <3>2. CASE \E n \in 1 .. Len(data) : read[i] = data[n]
        BY <1>11, <3>2, Zenon
      <3> QED
        BY <1>2, <3>1, <3>2, Zenon
    <2> QED
      BY <1>2, <1>8, <1>9, <2>1, Zenon DEF HasRead, Upto
  <1>13. ASSUME "leads" \notin written PROVE MissesNone(y)
    <2>1. /\ \A n \in 1 .. Len(x.seen.rows) : Shows(x, x.seen.rows[n])
          /\ \A l \in Entries : Wanted(x, l) /\ Upto(x, l) => \E i \in 1 .. Len(x.seen.rows) : x.seen.rows[i] = l
      BY <1>13 DEF WalkKnows, MissesNone
    <2>2. \A l : (Shows(y, l) <=> Shows(x, l)) /\ (Wanted(y, l) <=> Wanted(x, l))
      BY <1>8 DEF Shows, Wanted
    <2>3. ASSUME NEW i \in 1 .. Len(read) PROVE Shows(x, read[i])
      <3>1. \A n \in 1 .. Len(data) : Shows(x, data[n])
        BY <1>1, <1>4, <1>13, Zenon
      <3> QED
        BY <1>2, <2>1, <3>1, Zenon
    <2>4. ASSUME NEW l \in Entries, Wanted(x, l), entry[l].made <= k
          PROVE \E i \in 1 .. Len(read) : read[i] = l
      <3>1. CASE Upto(x, l)
        <4>1. PICK n \in 1 .. Len(x.seen.rows) : x.seen.rows[n] = l
          BY <2>1, <2>4, <3>1, Zenon
        <4> QED
          BY <1>2, <4>1, Zenon
      <3>2. CASE ~Upto(x, l)
        <4>1. PICK n \in 1 .. Len(order) : order[n] = l
          BY <1>1, <1>13, <2>4, <3>2
        <4>2. CASE n <= Limit
          BY <1>2, <1>3, <1>4, <4>1, <4>2
        <4>3. CASE n > Limit
          <5>1. entry[l].made = k
            BY <1>1, <1>5, <1>6, <1>7, <1>8, <2>4, <4>1, <4>3
          <5>2. order[Limit] # l
            BY <1>1, <1>5, <4>1, <4>3
          <5>3. entry[l].made \in crowded
            BY <1>5, <1>6, <1>7, <4>1, <5>1, <5>2 DEF ListTables
          <5> QED
            BY <2>4, <5>3 DEF Wanted
        <4> QED
          BY <1>3, <4>2, <4>3
      <3> QED
        BY <3>1, <3>2
    <2> QED
      BY <1>8, <2>2, <2>3, <2>4 DEF MissesNone, Upto
  <1> QED
    BY <1>8, <1>12, <1>13 DEF WalkKnows

\* The last page: what was read is what is shown.
LEMMA WalkEnds ==
  ASSUME ListTables, NEW x, NEW written, WalkKnows(x, written), x.pc = "page", NEW order \in Orders(PageOf(x)),
         NEW data, NEW read, Reads(x, order, data, read), ~(Len(order) > Limit),
         Shown(x, read, written), UNCHANGED opened, ListsHold
  PROVE ListsHold'
  <1>1. /\ order \in Seq(Entries)
        /\ \A i \in 1 .. Len(order) : order[i] \in Listed /\ (x.seen.cursor = None \/ entry[order[i]].made > x.seen.cursor)
        /\ "leads" \notin written => \A i \in 1 .. Len(order) : Shows(x, order[i])
        /\ "leads" \notin written => \A l \in Entries : Wanted(x, l) /\ ~Upto(x, l) => \E i \in 1 .. Len(order) : order[i] = l
    BY PageFacts
  <1>2. /\ read \in Seq(Entries)
        /\ \A i, j \in 1 .. Len(read) : read[i] = read[j] => i = j
        /\ \A i \in 1 .. Len(read) : (\E n \in 1 .. Len(x.seen.rows) : read[i] = x.seen.rows[n]) \/ \E n \in 1 .. Len(data) : read[i] = data[n]
        /\ \A a \in 1 .. Len(x.seen.rows) : \E i \in 1 .. Len(read) : read[i] = x.seen.rows[a]
        /\ \A a \in 1 .. Len(data) : \E i \in 1 .. Len(read) : read[i] = data[a]
    <2>1. ReadOnce(x, data, read)
      BY PageRead
    <2> QED
      BY <2>1 DEF ReadOnce
  <1>3. data = order
    BY DEF Reads
  <1>4. /\ walked'.user = x.arg.user /\ walked'.filter = x.arg.filter /\ walked'.rows = read
        /\ walked'.throughout = {l \in Listed : x.seen.atFirst[l] = entry[l]} /\ walked'.rowsAtEnd = entry
        /\ walked'.leads = leads /\ walked'.ledAnew = ("leads" \in written) /\ walked'.crowded = crowded
    BY DEF Shown
  <1>5. ASSUME "leads" \notin written
        PROVE /\ \A i \in 1 .. Len(read) : Shows(x, read[i])
              /\ \A l \in Entries : Wanted(x, l) => \E i \in 1 .. Len(read) : read[i] = l
    <2>1. /\ \A n \in 1 .. Len(x.seen.rows) : Shows(x, x.seen.rows[n])
          /\ \A l \in Entries : Wanted(x, l) /\ Upto(x, l) => \E i \in 1 .. Len(x.seen.rows) : x.seen.rows[i] = l
      BY <1>5 DEF WalkKnows, MissesNone
    <2>2. \A i \in 1 .. Len(read) : Shows(x, read[i])
      BY <1>1, <1>2, <1>3, <1>5, <2>1
    <2>3. ASSUME NEW l \in Entries, Wanted(x, l) PROVE \E i \in 1 .. Len(read) : read[i] = l
      <3>1. CASE Upto(x, l)
        <4>1. PICK n \in 1 .. Len(x.seen.rows) : x.seen.rows[n] = l
          BY <2>1, <2>3, <3>1, Zenon
        <4> QED
          BY <1>2, <4>1, Zenon
      <3>2. CASE ~Upto(x, l)
        <4>1. PICK n \in 1 .. Len(order) : order[n] = l
          BY <1>1, <1>5, <2>3, <3>2, Zenon
        <4> QED
          BY <1>2, <1>3, <4>1, Zenon
      <3> QED
        BY <3>1, <3>2
    <2> QED
      BY <2>2, <2>3
  <1>6. ShownInScope'
    BY <1>4, <1>5 DEF ShownInScope, Shows, ListsHold
  <1>7. IsInjective(read)
    <2>1. DOMAIN read = 1 .. Len(read)
      BY <1>2
    <2> QED
      BY <1>2, <2>1, Zenon DEF IsInjective
  <1>8. ASSUME "leads" \notin written, NEW l \in Listed, x.seen.atFirst[l] = entry[l], entry[l].made \notin crowded,
               TokenRole[x.arg.user] = "ADMIN" \/ leads[entry[l].group] = x.arg.user, x.arg.filter \in {None, entry[l].group}
        PROVE \E n \in 1 .. Len(read) : read[n] = l
    BY <1>5, <1>8 DEF Listed, Wanted, Shows
  <1>9. PagesComplete'
    <2>1. SUFFICES ASSUME ~walked'.ledAnew
          PROVE \A l \in {l \in walked'.throughout : entry[l].made \notin walked'.crowded} :
                  /\ TokenRole[walked'.user] = "ADMIN" \/ walked'.leads[entry[l].group] = walked'.user
                  /\ walked'.filter \in {None, entry[l].group}
                  => \E n \in 1 .. Len(walked'.rows) : walked'.rows[n] = l
      BY <1>4, <1>7, Zenon DEF PagesComplete
    <2>2. "leads" \notin written
      BY <1>4, <2>1
    <2>3. SUFFICES ASSUME NEW l \in walked'.throughout, entry[l].made \notin walked'.crowded,
                          TokenRole[walked'.user] = "ADMIN" \/ walked'.leads[entry[l].group] = walked'.user,
                          walked'.filter \in {None, entry[l].group}
                   PROVE \E n \in 1 .. Len(walked'.rows) : walked'.rows[n] = l
      BY <2>1
    <2>4. l \in Listed /\ x.seen.atFirst[l] = entry[l]
      BY <1>4
    <2>5. /\ entry[l].made \notin crowded
          /\ TokenRole[x.arg.user] = "ADMIN" \/ leads[entry[l].group] = x.arg.user
          /\ x.arg.filter \in {None, entry[l].group}
      BY <1>4, <2>3
    <2>6. \E n \in 1 .. Len(read) : read[n] = l
      BY <1>8, <2>2, <2>4, <2>5
    <2> QED
      BY <1>4, <2>6
  <1> QED
    BY <1>6, <1>9 DEF ListsHold


\* What the last list showed does not change when one learner is shown, nor the other way round.
LEMMA OneShown ==
  ASSUME ListsHold, NEW x, NEW written, OpenKnows(x, written), x.pc = "read", UNCHANGED walked,
         opened' = [user |-> x.arg.user, entry |-> x.arg.entry, group |-> entry[x.arg.entry].group,
                    leads |-> leads, ledAnew |-> "leads" \in written, enrolledAnew |-> "entries" \in written]
  PROVE ListsHold'
  <1>1. PagesComplete'
    BY DEF ListsHold, PagesComplete
  <1>2. /\ opened'.user = x.arg.user /\ opened'.group = x.seen /\ opened'.leads = leads
        /\ opened'.ledAnew = ("leads" \in written)
    BY DEF OpenKnows
  <1>3. ShownInScope'
    BY <1>2 DEF ListsHold, ShownInScope, OpenKnows
  <1> QED
    BY <1>1, <1>3 DEF ListsHold

\* What a list knows behind a page.
LEMMA CursorParts ==
  ASSUME NEW s, s = [cursor |-> s.cursor, scope |-> s.scope, rows |-> s.rows, atFirst |-> s.atFirst], NEW k, NEW read
  PROVE [s EXCEPT !.cursor = k, !.rows = read] = [cursor |-> k, scope |-> s.scope, rows |-> read, atFirst |-> s.atFirst]
  <1>1. s \in [cursor : {s.cursor}, scope : {s.scope}, rows : {s.rows}, atFirst : {s.atFirst}]
    OBVIOUS
  <1>2. PICK y : y = [s EXCEPT !.cursor = k, !.rows = read]
    BY Zenon
  <1>3. y = [cursor |-> k, scope |-> s.scope, rows |-> read, atFirst |-> s.atFirst]
    BY <1>1, <1>2
  <1> QED
    BY <1>2, <1>3, Zenon

\* A learner who is gone.
LEMMA GoneParts ==
  ASSUME NEW e, e \in [group : Groups, made : Nat, gone : BOOLEAN]
  PROVE [e EXCEPT !.gone = TRUE] = [group |-> e.group, made |-> e.made, gone |-> TRUE]
  <1>1. PICK y : y = [e EXCEPT !.gone = TRUE]
    BY Zenon
  <1>2. y = [group |-> e.group, made |-> e.made, gone |-> TRUE]
    BY <1>1
  <1> QED
    BY <1>1, <1>2, Zenon

\* A step of the lists keeps the invariant.
LEMMA ListsGoOn ==
  ASSUME CallsSound, ListInv, NEW c \in Callers, ListStep(c)
  PROVE ListInv'
  <1>0. CallsOK /\ ListTables /\ ListsHold
    BY DEF CallsSound, ListInv
  <1>1. CASE Walk(c)
    <2>1. PICK u \in Readers, filter \in Groups \cup {None} :
             Begin(c, "walk", "guard", [user |-> u, filter |-> filter],
                   [cursor |-> None, scope |-> None, rows |-> <<>>, atFirst |-> entry])
      BY <1>1 DEF Walk
    <2>2. PICK arg, seen : /\ arg = [user |-> u, filter |-> filter]
                           /\ seen = [cursor |-> None, scope |-> None, rows |-> <<>>, atFirst |-> entry]
      OBVIOUS
    <2>3. PICK y : y = [op |-> "walk", pc |-> "guard", arg |-> arg, seen |-> seen, result |-> None]
      OBVIOUS
    <2>4. Begin(c, "walk", "guard", arg, seen) /\ UNCHANGED listVars
      BY <1>1, <2>1, <2>2 DEF Walk
    <2>5. /\ y.op = "walk" /\ y.pc = "guard" /\ y.arg.user \in Readers /\ y.seen = seen
          /\ seen.cursor = None /\ seen.rows = <<>> /\ seen.atFirst = entry
          /\ seen = [cursor |-> seen.cursor, scope |-> seen.scope, rows |-> seen.rows, atFirst |-> seen.atFirst]
      BY <2>2, <2>3
    <2>6. HasRead(y) /\ MissesNone(y)
      BY <2>5 DEF HasRead, MissesNone, Upto
    <2>7. ListCall(y, {})
      BY <2>5, <2>6 DEF ListCall, WalkKnows
    <2> QED
      BY <2>3, <2>4, <2>7, ListBegins
  <1>2. CASE GuardPage(c)
    <2>1. PICK x, w : x = call[c] /\ w = crossed[c]
      OBVIOUS
    <2>2. x.op = "walk" /\ x.pc = "guard" /\ UNCHANGED listVars
          /\ Goto(c, "page", [x.seen EXCEPT !.scope = Scope(x.arg.user)], {})
      BY <1>2, <2>1 DEF GuardPage, At
    <2>3. WalkKnows(x, w)
      BY <2>1, <2>2 DEF ListInv, ListCall
    <2>4. PICK seen : seen = [cursor |-> x.seen.cursor, scope |-> Scope(x.arg.user), rows |-> x.seen.rows,
                              atFirst |-> x.seen.atFirst]
      OBVIOUS
    <2>5. [x.seen EXCEPT !.scope = Scope(x.arg.user)] = seen
      BY <2>3, <2>4 DEF WalkKnows
    <2>6. PICK y : y = [op |-> x.op, pc |-> "page", arg |-> x.arg, seen |-> seen, result |-> x.result]
      OBVIOUS
    <2>7. /\ y.op = "walk" /\ y.pc = "page" /\ y.arg = x.arg /\ y.seen = seen
          /\ seen.cursor = x.seen.cursor /\ seen.rows = x.seen.rows /\ seen.atFirst = x.seen.atFirst
          /\ seen.scope = Scope(x.arg.user)
          /\ seen = [cursor |-> seen.cursor, scope |-> seen.scope, rows |-> seen.rows, atFirst |-> seen.atFirst]
      BY <2>2, <2>4, <2>6
    <2>8. HasRead(y) /\ ("leads" \notin w => MissesNone(y))
      BY <2>3, <2>7 DEF WalkKnows, HasRead, MissesNone, Upto, Wanted, Shows
    <2>9. ScopeKnown(y, w)
      <3>1. CASE TokenRole[x.arg.user] = "ADMIN"
        <4>1. seen.scope.all = TRUE
          BY <2>7, <3>1 DEF Scope
        <4> QED
          BY <2>7, <3>1, <4>1 DEF ScopeKnown
      <3>2. CASE TokenRole[x.arg.user] # "ADMIN"
        <4>1. seen.scope.all = FALSE /\ seen.scope.groups = GroupsOf(x.arg.user)
          BY <2>7, <3>2 DEF Scope
        <4> QED
          BY <2>7, <3>2, <4>1 DEF ScopeKnown
      <3> QED
        BY <3>1, <3>2
    <2>10. WalkKnows(y, w)
      BY <2>3, <2>7, <2>8, <2>9 DEF WalkKnows
    <2>11. ListCall(y, crossed[c])
      BY <2>1, <2>7, <2>10 DEF ListCall
    <2>12. Goto(c, "page", seen, {})
      BY <2>2, <2>5
    <2> QED
      BY <2>1, <2>2, <2>6, <2>11, <2>12, ListGoesOn
  <1>3. CASE ReadPage(c)
    <2>1. PICK x, w : x = call[c] /\ w = crossed[c]
      OBVIOUS
    <2>2. x.op = "walk" /\ x.pc = "page" /\ UNCHANGED <<entry, leads, today, crowded, opened>>
      BY <1>3, <2>1 DEF ReadPage, At
    <2>3. WalkKnows(x, w)
      BY <2>1, <2>2 DEF ListInv, ListCall
    <2>4. PICK order \in Orders(PageOf(x)) :
            \E data, read :
              /\ Reads(x, order, data, read)
              /\ \/ /\ Len(order) > Limit
                    /\ Goto(c, "guard", [x.seen EXCEPT !.cursor = entry[Last(data)].made, !.rows = read], {})
                    /\ UNCHANGED walked
                 \/ /\ ~(Len(order) > Limit) /\ Shown(x, read, w) /\ End(c, None, {})
      <3> DEFINE page(order) == IF Len(order) > Limit THEN SubSeq(order, 1, Limit) ELSE order
      <3>1. PICK order \in Orders(PageOf(x)) :
              IF Len(order) > Limit
              THEN /\ Goto(c, "guard", [x.seen EXCEPT !.cursor = entry[Last(page(order))].made, !.rows = x.seen.rows \o page(order)], {})
                   /\ UNCHANGED walked
              ELSE /\ walked' = [user |-> x.arg.user, filter |-> x.arg.filter, rows |-> x.seen.rows \o page(order),
                                 throughout |-> {l \in Listed : x.seen.atFirst[l] = entry[l]}, rowsAtEnd |-> entry,
                                 leads |-> leads, ledAnew |-> "leads" \in w, crowded |-> crowded]
                   /\ End(c, None, {})
        BY <1>3, <2>1, Zenon DEF ReadPage, PageOf, Stale
      <3>2. PICK data, read : data = page(order) /\ read = x.seen.rows \o data
        OBVIOUS
      <3>3. Reads(x, order, data, read)
        BY <3>2 DEF Reads
      <3> HIDE DEF page
      <3>4. CASE Len(order) > Limit
        BY <3>1, <3>2, <3>3, <3>4, Zenon
      <3>5. CASE ~(Len(order) > Limit)
        BY <3>1, <3>2, <3>3, <3>5, Zenon DEF Shown
      <3> QED
        BY <3>4, <3>5, Zenon
    <2>5. PICK data, read :
            /\ Reads(x, order, data, read)
            /\ \/ /\ Len(order) > Limit
                  /\ Goto(c, "guard", [x.seen EXCEPT !.cursor = entry[Last(data)].made, !.rows = read], {})
                  /\ UNCHANGED walked
               \/ /\ ~(Len(order) > Limit) /\ Shown(x, read, w) /\ End(c, None, {})
      BY <2>4, Zenon
    <2>6. CASE Len(order) > Limit
      <3>1. PICK seen : seen = [cursor |-> entry[Last(data)].made, scope |-> x.seen.scope, rows |-> read,
                                atFirst |-> x.seen.atFirst]
        OBVIOUS
      <3>2. [x.seen EXCEPT !.cursor = entry[Last(data)].made, !.rows = read] = seen
        <4>1. PICK s, k : s = x.seen /\ k = entry[Last(data)].made
          OBVIOUS
        <4>2. s = [cursor |-> s.cursor, scope |-> s.scope, rows |-> s.rows, atFirst |-> s.atFirst]
          BY <2>3, <4>1 DEF WalkKnows
        <4>3. [s EXCEPT !.cursor = k, !.rows = read] = [cursor |-> k, scope |-> s.scope, rows |-> read, atFirst |-> s.atFirst]
          BY <4>2, CursorParts
        <4> QED
          BY <3>1, <4>1, <4>3, Zenon
      <3>3. PICK y : y = [op |-> x.op, pc |-> "guard", arg |-> x.arg, seen |-> seen, result |-> x.result]
        OBVIOUS
      <3>4. y.op = "walk" /\ NextPage(x, data, read, y)
        BY <2>2, <3>1, <3>3, Zenon DEF NextPage
      <3>5. WalkKnows(y, w)
        BY <1>0, <2>2, <2>3, <2>5, <2>6, <3>4, WalkGoesOn, Zenon
      <3>6. ListCall(y, crossed[c])
        BY <2>1, <3>4, <3>5 DEF ListCall
      <3>7. Goto(c, "guard", seen, {}) /\ UNCHANGED listVars
        BY <2>2, <2>5, <2>6, <3>2, Zenon DEF listVars
      <3> QED
        BY <2>1, <3>3, <3>6, <3>7, ListGoesOn, Zenon
    <2>7. CASE ~(Len(order) > Limit)
      <3>1. Shown(x, read, w) /\ End(c, None, {})
        BY <2>5, <2>7, Zenon
      <3>2. ListsHold'
        BY <1>0, <2>2, <2>3, <2>5, <2>7, <3>1, WalkEnds, Zenon
      <3>3. UNCHANGED <<entry, leads, today, crowded>>
        BY <2>2
      <3> QED
        BY <3>1, <3>2, <3>3, ListEnds, Zenon
    <2> QED
      BY <2>6, <2>7, Zenon
  <1>4. CASE Open(c)
    <2>1. PICK u \in Readers, l \in Listed :
             Begin(c, "open", IF TokenRole[u] = "ADMIN" THEN "read" ELSE "manager", [user |-> u, entry |-> l], entry[l].group)
      BY <1>4 DEF Open
    <2>2. PICK arg, seen, pc : /\ arg = [user |-> u, entry |-> l] /\ seen = entry[l].group
                               /\ pc = IF TokenRole[u] = "ADMIN" THEN "read" ELSE "manager"
      OBVIOUS
    <2>3. PICK y : y = [op |-> "open", pc |-> pc, arg |-> arg, seen |-> seen, result |-> None]
      OBVIOUS
    <2>4. Begin(c, "open", pc, arg, seen) /\ UNCHANGED listVars
      BY <1>4, <2>1, <2>2 DEF Open
    <2>5. /\ y.op = "open" /\ y.pc \in {"manager", "read"} /\ (y.pc = "read" => TokenRole[u] = "ADMIN")
          /\ y.arg.user = u /\ y.arg.entry = l /\ y.seen = entry[l].group
      BY <2>2, <2>3
    <2>6. l \in Entries /\ entry[l] # None
      BY DEF Listed
    <2>7. ListCall(y, {})
      BY <2>5, <2>6 DEF ListCall, OpenKnows
    <2> QED
      BY <2>3, <2>4, <2>7, ListBegins
  <1>5. CASE CheckManager(c)
    <2>1. PICK x, w : x = call[c] /\ w = crossed[c]
      OBVIOUS
    <2>2. x.op = "open" /\ x.pc = "manager" /\ UNCHANGED listVars
          /\ IF leads[x.seen] = x.arg.user THEN Goto(c, "read", x.seen, {}) ELSE End(c, "refused", {})
      BY <1>5, <2>1 DEF CheckManager, At
    <2>3. OpenKnows(x, w)
      BY <2>1, <2>2 DEF ListInv, ListCall
    <2>4. CASE leads[x.seen] = x.arg.user
      <3>1. PICK y : y = [op |-> x.op, pc |-> "read", arg |-> x.arg, seen |-> x.seen, result |-> x.result]
        OBVIOUS
      <3>2. y.op = "open" /\ y.pc = "read" /\ y.arg = x.arg /\ y.seen = x.seen
        BY <2>2, <3>1
      <3>3. ListCall(y, crossed[c])
        BY <2>1, <2>3, <2>4, <3>2 DEF ListCall, OpenKnows
      <3>4. Goto(c, "read", x.seen, {})
        BY <2>2, <2>4
      <3> QED
        BY <2>1, <2>2, <3>1, <3>3, <3>4, ListGoesOn
    <2>5. CASE leads[x.seen] # x.arg.user
      <3>1. End(c, "refused", {}) /\ UNCHANGED <<entry, leads, today, crowded>>
        BY <2>2, <2>5 DEF listVars
      <3>2. ListsHold'
        BY <1>0, <2>2 DEF ListsHold, ShownInScope, PagesComplete, listVars
      <3> QED
        BY <3>1, <3>2, ListEnds
    <2> QED
      BY <2>4, <2>5
  <1>6. CASE ReadOne(c)
    <2>1. PICK x, w : x = call[c] /\ w = crossed[c]
      OBVIOUS
    <2>2. x.op = "open" /\ x.pc = "read" /\ UNCHANGED <<entry, leads, today, crowded, walked>>
      BY <1>6, <2>1 DEF ReadOne, At
    <2>3. OpenKnows(x, w)
      BY <2>1, <2>2 DEF ListInv, ListCall
    <2>4. CASE x.arg.entry \notin Listed
      <3>1. End(c, "missing", {}) /\ UNCHANGED opened
        BY <1>6, <2>1, <2>4 DEF ReadOne
      <3>2. ListsHold'
        BY <1>0, <2>2, <3>1 DEF ListsHold, ShownInScope, PagesComplete
      <3> QED
        BY <2>2, <3>1, <3>2, ListEnds
    <2>5. CASE x.arg.entry \in Listed
      <3>1. /\ opened' = [user |-> x.arg.user, entry |-> x.arg.entry, group |-> entry[x.arg.entry].group,
                          leads |-> leads, ledAnew |-> "leads" \in w, enrolledAnew |-> "entries" \in w]
            /\ End(c, None, {})
        BY <1>6, <2>1, <2>5 DEF ReadOne, Stale
      <3>2. ListsHold'
        BY <1>0, <2>2, <2>3, <3>1, OneShown
      <3> QED
        BY <2>2, <3>1, <3>2, ListEnds
    <2> QED
      BY <2>4, <2>5
  <1>7. CASE Appoint(c)
    <2>1. PICK t \in Groups, u \in {v \in Readers : TokenRole[v] = "DEPARTMENT_MANAGER"} \cup {None} :
             leads' = [leads EXCEPT ![t] = u]
      BY <1>7 DEF Appoint
    <2>2. Atomically(c, "appoint", {"leads"}) /\ UNCHANGED <<entry, today, crowded, walked, opened>>
      BY <1>7 DEF Appoint
    <2>3. RowsStay /\ ListTables'
      BY <1>0, <2>1, <2>2 DEF RowsStay, ListTables
    <2> QED
      BY <2>2, <2>3, ListChanges
  <1>8. CASE Dismiss(c)
    <2>1. PICK l \in Listed : entry' = [entry EXCEPT ![l].gone = TRUE]
      BY <1>8 DEF Dismiss
    <2>2. Atomically(c, "dismiss", {"entries"}) /\ UNCHANGED <<leads, today, crowded, walked, opened>>
      BY <1>8 DEF Dismiss
    <2>3. l \in Entries /\ entry[l] # None /\ ~entry[l].gone /\ entry[l] \in EntryRow
      BY <1>0 DEF Listed, ListTables
    <2>4. PICK r : r = [group |-> entry[l].group, made |-> entry[l].made, gone |-> TRUE]
      OBVIOUS
    <2>5. entry' = [m \in Entries |-> IF m = l THEN r ELSE entry[m]]
      <3>1. PICK e : e = entry[l]
        OBVIOUS
      <3>2. [e EXCEPT !.gone = TRUE] = r
        <4>1. e \in [group : Groups, made : Nat, gone : BOOLEAN] /\ r = [group |-> e.group, made |-> e.made, gone |-> TRUE]
          BY <2>3, <2>4, <3>1 DEF EntryRow
        <4> QED
          BY <4>1, GoneParts
      <3>3. entry' = [entry EXCEPT ![l] = [e EXCEPT !.gone = TRUE]]
        BY <2>1, <3>1, Zenon
      <3> QED
        BY <1>0, <3>2, <3>3 DEF ListTables
    <2>6. r \in EntryRow /\ r # None /\ r.group = entry[l].group /\ r.made = entry[l].made /\ r.gone = TRUE
      <3>1. PICK g, k : g = entry[l].group /\ k = entry[l].made
        OBVIOUS
      <3>2. g \in Groups /\ k \in Nat
        BY <2>3, <3>1 DEF EntryRow
      <3>3. r = [group |-> g, made |-> k, gone |-> TRUE]
        BY <2>4, <3>1
      <3>4. r \in EntryRow /\ r.group = g /\ r.made = k /\ r.gone = TRUE
        BY <3>2, <3>3 DEF EntryRow
      <3> QED
        BY <3>1, <3>4, ListingsAssumption
    <2>7. RowsStay /\ ListTables'
      BY <1>0, <2>2, <2>3, <2>5, <2>6 DEF RowsStay, ListTables
    <2> QED
      BY <2>2, <2>7, ListChanges
  <1>9. CASE Enroll(c)
    <2>1. PICK l \in {k \in Entries : entry[k] = None}, t \in Groups, tick \in {0, 1} :
            /\ today' = today + tick
            /\ entry' = [entry EXCEPT ![l] = [group |-> t, made |-> today', gone |-> FALSE]]
            /\ crowded' = IF tick = 0 THEN crowded \cup {today} ELSE crowded
      BY <1>9 DEF Enroll
    <2>2. Atomically(c, "enroll", {"entries"}) /\ UNCHANGED <<leads, walked, opened>>
      BY <1>9 DEF Enroll
    <2>3. PICK now : now = today + tick
      OBVIOUS
    <2>4. PICK r : r = [group |-> t, made |-> now, gone |-> FALSE]
      OBVIOUS
    <2>5. entry' = [m \in Entries |-> IF m = l THEN r ELSE entry[m]] /\ today' = now
      BY <1>0, <2>1, <2>3, <2>4 DEF ListTables
    <2>6. now \in Nat /\ today <= now /\ today \in Nat /\ crowded \subseteq crowded'
          /\ (today = now => now \in crowded')
      BY <1>0, <2>1, <2>3 DEF ListTables
    <2>7. r \in EntryRow /\ r.made = now
      BY <2>4, <2>6 DEF EntryRow
    <2>8. RowsStay
      BY <2>1, <2>5, <2>6 DEF RowsStay
    <2>9. \A m \in Entries : entry[m] # None => entry[m].made \in Nat /\ entry[m].made <= today
      BY <1>0 DEF ListTables, EntryRow
    <2>10. \A m \in Entries : entry'[m] # None => entry'[m] \in EntryRow /\ entry'[m].made <= now
      BY <1>0, <2>5, <2>6, <2>7, <2>9 DEF ListTables
    <2>11. ASSUME NEW m \in Entries, NEW k \in Entries, entry'[m] # None, entry'[k] # None, m # k,
                  entry'[m].made = entry'[k].made
           PROVE entry'[m].made \in crowded'
      <3>1. CASE m # l /\ k # l
        BY <1>0, <2>5, <2>6, <2>11, <3>1 DEF ListTables
      <3>2. CASE m = l
        <4>1. entry[k] # None /\ entry[k].made = now /\ entry'[m].made = now
          BY <2>5, <2>7, <2>11, <3>2
        <4> QED
          BY <2>6, <2>9, <4>1
      <3>3. CASE k = l
        <4>1. entry[m] # None /\ entry[m].made = now /\ entry'[m].made = now
          BY <2>5, <2>7, <2>11, <3>3
        <4> QED
          BY <2>6, <2>9, <4>1
      <3> QED
        BY <3>1, <3>2, <3>3
    <2>12. ListTables'
      BY <1>0, <2>2, <2>5, <2>6, <2>10, <2>11 DEF ListTables
    <2> QED
      BY <2>2, <2>8, <2>12, ListChanges
  <1> QED
    BY <1>1, <1>2, <1>3, <1>4, <1>5, <1>6, <1>7, <1>8, <1>9 DEF ListStep

\* All that is done beside the lists leaves them alone.
LEMMA ListsBesideOffice ==
  ASSUME CallsSound, [OfficeNext]_officeVars
  PROVE \/ \E c \in Callers : ListStep(c)
        \/ UNCHANGED listVars /\ Spares({"walk", "open"})
  <1> DEFINE ops == {"walk", "open"}
  <1>1. None \notin ops /\ ops \cap CatalogueCalls = {} /\ ops \cap SeedCalls = {}
        /\ ops \cap UnitCalls = {}
        /\ ops \cap SweepCalls = {} /\ ops \cap BriefCalls = {}
    BY OfficeAssumption DEF CatalogueCalls, SeedCalls, UnitCalls, SweepCalls, BriefCalls, ListCalls
  <1> HIDE DEF ops
  <1>2. CASE UNCHANGED officeVars
    BY <1>2, NoCallSpares DEF officeVars
  <1>3. ASSUME NEW c \in Callers, OfficeStep(c) PROVE ListStep(c) \/ (UNCHANGED listVars
        /\ Spares(ops))
    BY <1>1, <1>3, CatalogueSpares, SeedsSpare, UnitsSpare, SweepsSpare, BriefsSpare DEF OfficeStep
  <1> QED
    BY <1>2, <1>3 DEF OfficeNext, ops

\* A manager is shown learners of his own teams (authorize.guard.ts), and page after page everybody
\* who was there throughout comes once (base.repository.ts), whatever else the back office does.
THEOREM ListsShowWhatTheyMay == OfficeSpec => [](ListsHold /\ ListingsTypeOK)
  <1>1. OfficeInit => CallsSound /\ ListInv
    BY ListStart, CallsStartSound DEF OfficeInit, Init
  <1>2. CallsSound /\ ListInv /\ [OfficeNext]_officeVars => CallsSound' /\ ListInv'
    BY OfficeCalls, ListsBesideOffice, ListsGoOn, ListsBeside
  <1>3. ListInv => ListsHold /\ ListingsTypeOK
    BY ListInvIsTrue
  <1> QED
    BY <1>1, <1>2, <1>3, PTL DEF OfficeSpec

-----------------------------------------------------------------------------
(* The catalogue beside the other services.                                *)

\* A step is the catalogue's, or leaves its tables and its calls alone.
LEMMA CatalogueInOffice ==
  ASSUME CallsSound, [OfficeNext]_officeVars
  PROVE \/ \E c \in Callers : Step(c)
        \/ UNCHANGED catalogueVars /\ Spares(CatalogueCalls)
  <1> DEFINE ops == CatalogueCalls
  <1>1. None \notin ops /\ ops \cap SeedCalls = {} /\ ops \cap UnitCalls = {}
        /\ ops \cap SweepCalls = {} /\ ops \cap BriefCalls = {} /\ ops \cap ListCalls = {}
    BY OfficeAssumption DEF CatalogueCalls, SeedCalls, UnitCalls, SweepCalls, BriefCalls, ListCalls
  <1> HIDE DEF ops
  <1>2. CASE UNCHANGED officeVars
    BY <1>2, NoCallSpares DEF officeVars, ops
  <1>3. ASSUME NEW c \in Callers, OfficeStep(c) PROVE Step(c) \/ (UNCHANGED catalogueVars
        /\ Spares(ops))
    BY <1>1, <1>3, SeedsSpare, UnitsSpare, SweepsSpare, BriefsSpare, ListsSpare DEF OfficeStep
  <1> QED
    BY <1>2, <1>3 DEF OfficeNext, ops

\* Its tables and its calls are sound from the start.
LEMMA CatalogueStartsSound ==
  ASSUME OfficeInit PROVE CatalogueSound
  BY CatalogueStart DEF OfficeInit

\* And stay sound.
LEMMA CatalogueStaysSound ==
  ASSUME CatalogueSound, [OfficeNext]_officeVars
  PROVE CatalogueSound'
  <1>1. CallsSound'
    BY OfficeCalls DEF CatalogueSound
  <1>2. CASE \E c \in Callers : Step(c)
    BY <1>2, CatalogueSteps
  <1>3. CASE UNCHANGED catalogueVars /\ Spares(CatalogueCalls)
    BY <1>1, <1>3, CatalogueBeside DEF catalogueVars
  <1> QED
    BY <1>2, <1>3, CatalogueInOffice DEF CatalogueSound

\* Every table and every call of the catalogue has its type, and foreign keys lead to a row, whatever
\* is deleted while something else is made of it (track.repository.ts, level.repository.ts, schema.prisma).
THEOREM CatalogueTypeCorrect == OfficeSpec => []TypeOK
  <1>1. OfficeInit => CatalogueSound
    BY CatalogueStartsSound
  <1>2. CatalogueSound /\ [OfficeNext]_officeVars => CatalogueSound'
    BY CatalogueStaysSound
  <1>3. CatalogueSound => TypeOK
    BY CatalogueTypes
  <1> QED
    BY <1>1, <1>2, <1>3, PTL DEF OfficeSpec

\* The tables of all the services behind the portal have their types, however their requests overlap.
THEOREM OfficeTypeCorrect == OfficeSpec => []OfficeTypeOK
  <1>1. OfficeTypeOK <=> TypeOK /\ SeedsTypeOK /\ UnitsTypeOK /\ SweepsTypeOK /\ BriefingsTypeOK /\ ListingsTypeOK
    BY DEF OfficeTypeOK
  <1> QED
    BY <1>1, CatalogueTypeCorrect, ScriptsDoWhatTheySay, NightlyJobsAddUp, BriefingsSayWhatIsSo, ListsShowWhatTheyMay, PTL

-----------------------------------------------------------------------------
(* Names: a call that writes one has found it free, unless another has     *)
(* written names since, which the track it writes is then marked with.     *)

Naming == {"createTrack", "createFull", "updateTrack", "copyTrack"}
NameFree(x) ==
  /\ x.op \in {"createTrack", "createFull"} => ~Clash(x.arg.dept, x.arg.en, x.arg.ar, None)
  /\ x.op = "updateTrack" =>
       LET t == x.arg.track
           new == Edited(track[t], x.arg.edit)
       IN track[t] # None => ~Clash(new.dept, new.en, new.ar, t)
  /\ x.op = "copyTrack" /\ track[x.arg.track] # None =>
       ~Clash(track[x.arg.track].dept, x.arg.en, x.arg.ar, None)
NameFits(x, written) == x.op \in Naming /\ x.pc = "write" /\ Renaming \notin written => NameFree(x)
NamesInv == NamesUnique /\ \A d \in Callers : NameFits(call[d], crossed[d])

\* At the start no name is taken twice.
LEMMA NamesStart ==
  ASSUME Init PROVE NamesInv
  <1>1. \A c \in Callers : call[c] = Idle
    BY CallsStart DEF Init
  <1>2. Idle.pc = "idle"
    BY DEF Idle
  <1>3. NamesUnique
    <2>1. case \in Cases /\ track = case.track
      BY DEF Init
    <2> QED
      BY <2>1, CasesAssumption DEF NamesUnique
  <1> QED
    BY <1>1, <1>2, <1>3 DEF NamesInv, NameFits

\* Tracks keep their names and departments, until they are gone.
NamesStay == \A t \in Tracks : track'[t] # None =>
  /\ track[t] # None /\ track'[t].dept = track[t].dept /\ track'[t].en = track[t].en /\ track'[t].ar = track[t].ar
  /\ t \in raced => t \in raced'

\* A call that has found its name free still finds it so.
LEMMA StillFree ==
  ASSUME NEW x, CallTyped(x), x.pc = "write", NameFree(x), NamesStay
  PROVE NameFree(x)'
  <1>1. \A d, en, ar, self : ~Clash(d, en, ar, self) => ~Clash(d, en, ar, self)'
    BY DEF Clash, NamesStay
  <1>2. x.op \in {"createTrack", "createFull"} => ~Clash(x.arg.dept, x.arg.en, x.arg.ar, None)'
    BY <1>1 DEF NameFree
  <1>3. ASSUME x.op = "updateTrack", track'[x.arg.track] # None
        PROVE (LET new == Edited(track[x.arg.track], x.arg.edit) IN ~Clash(new.dept, new.en, new.ar, x.arg.track))'
    <2>1. x.arg.track \in Tracks
      BY <1>3 DEF CallTyped, EditArg
    <2>2. PICK old, new : old = Edited(track[x.arg.track], x.arg.edit) /\ new = Edited(track'[x.arg.track], x.arg.edit)
      OBVIOUS
    <2>3. new.dept = old.dept /\ new.en = old.en /\ new.ar = old.ar
      BY <1>3, <2>1, <2>2 DEF NamesStay, Edited
    <2>4. ~Clash(old.dept, old.en, old.ar, x.arg.track)
      BY <1>3, <2>1, <2>2 DEF NamesStay, NameFree
    <2>5. ~Clash(new.dept, new.en, new.ar, x.arg.track)'
      BY <1>1, <2>3, <2>4
    <2> QED
      BY <2>2, <2>5
  <1>4. ASSUME x.op = "copyTrack", track'[x.arg.track] # None
        PROVE ~Clash(track[x.arg.track].dept, x.arg.en, x.arg.ar, None)'
    <2>1. x.arg.track \in Tracks
      BY <1>4 DEF CallTyped, CopyArg
    <2>2. PICK d : d = track[x.arg.track].dept
      OBVIOUS
    <2>3. track[x.arg.track] # None /\ track'[x.arg.track].dept = d
      BY <1>4, <2>1, <2>2 DEF NamesStay
    <2>4. ~Clash(d, x.arg.en, x.arg.ar, None)
      BY <1>4, <2>2, <2>3 DEF NameFree
    <2> QED
      BY <1>1, <2>3, <2>4
  <1> QED
    BY <1>2, <1>3, <1>4 DEF NameFree

\* A step that names nothing.
LEMMA NamesSpared ==
  ASSUME CatalogueSound, NamesInv, NamesStay, Spares(Naming)
  PROVE NamesInv'
  <1>1. NamesUnique'
    BY DEF NamesInv, NamesUnique, NamesStay
  <1>2. ASSUME NEW d \in Callers PROVE NameFits(call[d], crossed[d])'
    <2>1. PICK x, w, m : x = call'[d] /\ w = crossed[d] /\ m = crossed'[d]
      OBVIOUS
    <2>2. SUFFICES ASSUME x.op \in Naming, x.pc = "write", Renaming \notin m PROVE NameFree(x)'
      BY <2>1 DEF NameFits
    <2>3. call[d] = x /\ w \subseteq m
      BY <2>1, <2>2 DEF Spares
    <2>4. NameFree(x) /\ CallTyped(x)
      BY <2>1, <2>2, <2>3 DEF NamesInv, NameFits, CatalogueSound
    <2> QED
      BY <2>2, <2>4, StillFree
  <1> QED
    BY <1>1, <1>2 DEF NamesInv

\* A call that has just found its name free.
LEMMA NamesBegin ==
  ASSUME CatalogueSound, NamesInv, NEW c \in Callers, NEW op, NEW arg, NEW seen, Begin(c, op, "write", arg, seen),
         NEW y, y = [op |-> op, pc |-> "write", arg |-> arg, seen |-> seen, result |-> None],
         op \in Naming => NameFree(y), UNCHANGED <<track, raced>>
  PROVE NamesInv'
  <1>1. call'[c] = y /\ \A d \in Callers \ {c} : call'[d] = call[d] /\ crossed'[d] = crossed[d]
    BY BeginDoes DEF CatalogueSound, CallsSound
  <1>2. NamesUnique'
    BY DEF NamesInv, NamesUnique
  <1>3. \A x : NameFree(x) => NameFree(x)'
    BY DEF NameFree, Clash
  <1>4. ASSUME NEW d \in Callers PROVE NameFits(call[d], crossed[d])'
    <2>1. PICK x, m : x = call'[d] /\ m = crossed'[d]
      OBVIOUS
    <2>2. SUFFICES ASSUME x.op \in Naming, x.pc = "write", Renaming \notin m PROVE NameFree(x)'
      BY <2>1 DEF NameFits
    <2>3. NameFree(x)
      BY <1>1, <2>1, <2>2 DEF NamesInv, NameFits
    <2> QED
      BY <1>3, <2>3
  <1> QED
    BY <1>2, <1>4 DEF NamesInv

\* The three that write a name have found it free, or are marked.
LEMMA NamesWritten ==
  ASSUME CatalogueSound, NamesInv, NEW c \in Callers, End(c, None, {Renaming}), NEW t \in Tracks, NEW new,
         track' = [u \in Tracks |-> IF u = t THEN new ELSE track[u]], Mark(t, Stale(c, Renaming)),
         ~Stale(c, Renaming) => ~Clash(new.dept, new.en, new.ar, t)
  PROVE NamesInv'
  <1>1. NamesUnique'
    BY DEF NamesInv, NamesUnique, Mark, Clash
  <1>2. call'[c].pc = "idle" /\ \A d \in Callers \ {c} : Sees(c, d, {Renaming})
    BY EndDoes DEF CatalogueSound, CallsSound
  <1> QED
    BY <1>1, <1>2 DEF NamesInv, NameFits, Sees

\* Or have failed.
LEMMA NamesFailed ==
  ASSUME CatalogueSound, NamesInv, NEW c \in Callers, NEW result, result # None, End(c, result, {Renaming}),
         UNCHANGED <<track, raced>>
  PROVE NamesInv'
  <1>1. call'[c].pc = "idle" /\ \A d \in Callers \ {c} : Sees(c, d, {})
    BY EndDoes DEF CatalogueSound, CallsSound
  <1>2. NamesUnique'
    BY DEF NamesInv, NamesUnique
  <1>3. \A x : NameFree(x) => NameFree(x)'
    BY DEF NameFree, Clash
  <1>4. ASSUME NEW d \in Callers \ {c} PROVE NameFits(call[d], crossed[d])'
    <2>1. PICK x, m : x = call[d] /\ m = crossed[d] /\ x = call'[d] /\ m = crossed'[d]
      BY <1>1 DEF Sees
    <2>2. NameFits(x, m)
      BY <2>1 DEF NamesInv
    <2> QED
      BY <1>3, <2>1, <2>2 DEF NameFits
  <1> QED
    BY <1>1, <1>2, <1>4 DEF NamesInv, NameFits

\* Whatever step the catalogue takes.
LEMMA NamesSteps ==
  ASSUME CatalogueSound, NamesInv, NEW c \in Callers, Step(c)
  PROVE NamesInv'
  <1>0. CallsSound /\ TablesSound /\ None \notin Naming
    BY OfficeAssumption DEF CatalogueSound, Naming, CatalogueCalls
  <1>1. CASE CreateTrack(c)
    <2>1. PICK d \in Departments, n \in case.names, k \in 1 .. 2 :
            /\ ~Clash(d, n.en, n.ar, None)
            /\ Begin(c, "createTrack", "write", [dept |-> d, en |-> n.en, ar |-> n.ar, key |-> <<n.en, k>>], None)
      BY <1>1 DEF CreateTrack
    <2> DEFINE y == [op |-> "createTrack", pc |-> "write", arg |-> [dept |-> d, en |-> n.en, ar |-> n.ar, key |-> <<n.en, k>>],
                     seen |-> None, result |-> None]
    <2>2. NameFree(y)
      BY <2>1 DEF NameFree
    <2> QED
      BY <1>1, <2>1, <2>2, NamesBegin DEF CreateTrack, structure
  <1>2. CASE CreateFull(c)
    <2>1. PICK d \in Departments, n \in case.names, shape \in case.shapes :
            /\ ~Clash(d, n.en, n.ar, None)
            /\ Begin(c, "createFull", "write", [dept |-> d, en |-> n.en, ar |-> n.ar,
                                               key |-> DerivedKey(n.en), shape |-> shape], None)
      BY <1>2 DEF CreateFull
    <2> DEFINE y == [op |-> "createFull", pc |-> "write", arg |-> [dept |-> d, en |-> n.en, ar |-> n.ar,
                     key |-> DerivedKey(n.en), shape |-> shape], seen |-> None, result |-> None]
    <2>2. NameFree(y)
      BY <2>1 DEF NameFree
    <2> QED
      BY <1>2, <2>1, <2>2, NamesBegin DEF CreateFull, structure
  <1>3. CASE UpdateTrack(c)
    <2>1. PICK t \in Tracks, edit \in Edits :
            /\ ~Clash(Given(edit.dept, track[t].dept), Given(edit.en, track[t].en), Given(edit.ar, track[t].ar), t)
            /\ Begin(c, "updateTrack", "write", [track |-> t, edit |-> edit], None)
      BY <1>3 DEF UpdateTrack
    <2> DEFINE y == [op |-> "updateTrack", pc |-> "write", arg |-> [track |-> t, edit |-> edit], seen |-> None, result |-> None]
    <2>2. NameFree(y)
      BY <2>1 DEF NameFree, Edited
    <2> QED
      BY <1>3, <2>1, <2>2, NamesBegin DEF UpdateTrack, structure
  <1>4. CASE CopyTrack(c)
    <2>1. PICK t \in Tracks : track[t] # None /\
            LET en == CopyName(track[t].dept, track[t].en, "en")
                ar == CopyName(track[t].dept, track[t].ar, "ar")
            IN Begin(c, "copyTrack", "write", [track |-> t, en |-> en, ar |-> ar, key |-> <<en, 1>>], None)
      BY <1>4 DEF CopyTrack
    <2>2. PICK en, ar : en = CopyName(track[t].dept, track[t].en, "en") /\ ar = CopyName(track[t].dept, track[t].ar, "ar")
      OBVIOUS
    <2> DEFINE y == [op |-> "copyTrack", pc |-> "write", arg |-> [track |-> t, en |-> en, ar |-> ar, key |-> <<en, 1>>],
                     seen |-> None, result |-> None]
    <2>3. /\ \A u \in Tracks : track[u] # None /\ track[u].dept = track[t].dept => track[u]["en"] # en
          /\ \A u \in Tracks : track[u] # None /\ track[u].dept = track[t].dept => track[u]["ar"] # ar
      BY <1>0, <2>1, <2>2, TrackIs, CopyNameIs
    <2>4. ~Clash(track[t].dept, en, ar, None)
      BY <2>3 DEF Clash
    <2>5. NameFree(y)
      BY <2>4 DEF NameFree
    <2>6. Begin(c, "copyTrack", "write", [track |-> t, en |-> en, ar |-> ar, key |-> <<en, 1>>], None)
      BY <2>1, <2>2
    <2> QED
      BY <1>4, <2>5, <2>6, NamesBegin DEF CopyTrack, structure
  <1>5. ASSUME NEW t \in Tracks, NEW new, TrackAdded(c, t, new), End(c, None, {Renaming}),
               ~Stale(c, Renaming) => ~Clash(new.dept, new.en, new.ar, None)
        PROVE NamesInv'
    <2>1. /\ track' = [u \in Tracks |-> IF u = t THEN new ELSE track[u]] /\ Mark(t, Stale(c, Renaming))
          /\ ~Stale(c, Renaming) => ~Clash(new.dept, new.en, new.ar, t)
      BY <1>5, CatalogueAssumption DEF TrackAdded, Clash
    <2> QED
      BY <1>5, <2>1, NamesWritten
  <1>6. CASE InsertTrack(c)
    <2>1. /\ call[c].op = "createTrack" /\ call[c].pc = "write"
          /\ \/ \E result \in {"clash", "referenced"} : End(c, result, {Renaming}) /\ UNCHANGED <<track, raced>>
             \/ End(c, None, {Renaming}) /\ \E t \in Tracks : TrackAdded(c, t, NewTrack(call[c].arg, call[c].arg.dept, TRUE))
      BY <1>6, InsertTrackDoes
    <2>2. ~Stale(c, Renaming) => ~Clash(call[c].arg.dept, call[c].arg.en, call[c].arg.ar, None)
      BY <2>1 DEF NamesInv, NameFits, NameFree, Naming, Stale
    <2>3. PICK new : new = NewTrack(call[c].arg, call[c].arg.dept, TRUE)
      OBVIOUS
    <2>4. ~Stale(c, Renaming) => ~Clash(new.dept, new.en, new.ar, None)
      BY <2>2, <2>3 DEF NewTrack
    <2> QED
      BY <1>5, <2>1, <2>3, <2>4, NamesFailed, CatalogueAssumption
  <1>7. CASE InsertFull(c)
    <2>1. /\ call[c].op = "createFull" /\ call[c].pc = "write"
          /\ \/ \E result \in {"clash", "referenced"} : End(c, result, {Renaming}) /\ UNCHANGED <<track, raced>>
             \/ End(c, None, {Renaming}) /\ \E t \in Tracks : TrackAdded(c, t, NewTrack(call[c].arg, call[c].arg.dept, TRUE))
      BY <1>7, InsertFullDoes
    <2>2. ~Stale(c, Renaming) => ~Clash(call[c].arg.dept, call[c].arg.en, call[c].arg.ar, None)
      BY <2>1 DEF NamesInv, NameFits, NameFree, Naming, Stale
    <2>3. PICK new : new = NewTrack(call[c].arg, call[c].arg.dept, TRUE)
      OBVIOUS
    <2>4. ~Stale(c, Renaming) => ~Clash(new.dept, new.en, new.ar, None)
      BY <2>2, <2>3 DEF NewTrack
    <2> QED
      BY <1>5, <2>1, <2>3, <2>4, NamesFailed, CatalogueAssumption
  <1>8. CASE SaveTrack(c)
    <2>1. /\ call[c].op = "updateTrack" /\ call[c].pc = "write" /\ call[c].arg.track \in Tracks
          /\ \/ \E result \in {"missing", "referenced"} : End(c, result, {Renaming}) /\ UNCHANGED <<track, raced>>
             \/ LET t == call[c].arg.track
                    new == Edited(track[t], call[c].arg.edit)
                IN /\ End(c, None, {Renaming}) /\ track[t] # None
                   /\ track' = [u \in Tracks |-> IF u = t THEN new ELSE track[u]]
                   /\ Mark(t, Stale(c, Renaming))
      BY <1>8, SaveTrackDoes DEF EditArg
    <2>2. PICK t, new : t = call[c].arg.track /\ new = Edited(track[t], call[c].arg.edit)
      OBVIOUS
    <2>3. ~Stale(c, Renaming) /\ track[t] # None => ~Clash(new.dept, new.en, new.ar, t)
      BY <2>1, <2>2 DEF NamesInv, NameFits, NameFree, Naming, Stale
    <2>4. CASE \E result \in {"missing", "referenced"} : End(c, result, {Renaming}) /\ UNCHANGED <<track, raced>>
      BY <2>4, NamesFailed, CatalogueAssumption
    <2>5. CASE /\ End(c, None, {Renaming}) /\ track[t] # None
               /\ track' = [u \in Tracks |-> IF u = t THEN new ELSE track[u]]
               /\ Mark(t, Stale(c, Renaming))
      BY <2>1, <2>2, <2>3, <2>5, NamesWritten
    <2> QED
      BY <2>1, <2>2, <2>4, <2>5
  <1>9. CASE InsertCopy(c)
    <2>1. /\ call[c].op = "copyTrack" /\ call[c].pc = "write"
          /\ \/ \E result \in {"missing", "clash"} : End(c, result, {Renaming}) /\ UNCHANGED <<track, raced>>
             \/ /\ End(c, None, {Renaming}) /\ track[call[c].arg.track] # None
                /\ \E t \in Tracks : TrackAdded(c, t, NewTrack(call[c].arg, track[call[c].arg.track].dept, FALSE))
      BY <1>9, InsertCopyDoes
    <2>2. PICK new : new = NewTrack(call[c].arg, track[call[c].arg.track].dept, FALSE)
      OBVIOUS
    <2>3. ~Stale(c, Renaming) /\ track[call[c].arg.track] # None => ~Clash(new.dept, new.en, new.ar, None)
      BY <2>1, <2>2 DEF NamesInv, NameFits, NameFree, Naming, Stale, NewTrack
    <2> QED
      BY <1>5, <2>1, <2>2, <2>3, NamesFailed, CatalogueAssumption
  <1>10. CASE ToggleTrack(c)
    <2>1. PICK t \in Tracks : track[t] # None /\ track' = [track EXCEPT ![t].on = ~@]
      BY <1>10 DEF ToggleTrack
    <2>2. raced' = raced
      BY <1>10 DEF ToggleTrack
    <2>3. NamesStay
      BY <1>0, <2>1, <2>2, TrackIs DEF NamesStay, TablesSound, Tables, TrackRow
    <2>4. Spares(Naming)
      BY <1>0, <1>10, StepSpares
    <2> QED
      BY <2>3, <2>4, NamesSpared
  <1>11. CASE DeleteTree(c)
    <2>1. \/ UNCHANGED <<track, raced>>
          \/ TreeGone(call[c].arg)
      BY <1>11, DeleteTreeDoes
    <2>2. NamesStay
      BY <2>1 DEF NamesStay, TreeGone, Mark
    <2>3. Spares(Naming)
      BY <1>0, <1>11, StepSpares DEF Naming
    <2> QED
      BY <2>2, <2>3, NamesSpared
  <1>12. CASE CommitAssignment(c)
    <2>1. track' = track
      BY <1>12 DEF CommitAssignment, structure
    <2>2. call[c].arg.learner \in Learners /\ (raced' = raced \/ Mark(call[c].arg.learner, Stale(c, <<"assign", call[c].arg.learner>>)))
      <3>1. LET arg == call[c].arg
                written == {<<"assign", arg.learner>>}
                             \cup IF Stale(c, <<"achieve", arg.learner>>) THEN {<<"achieve", arg.learner>>} ELSE {}
            IN /\ call[c].op = "assign" /\ call[c].pc = "write" /\ arg \in AssignArg /\ call[c].seen \in AssignSeen
               /\ UNCHANGED <<case, deleted, structure, asked>>
               /\ \/ End(c, "referenced", written) /\ UNCHANGED <<holdings, raced>>
                  \/ End(c, None, written) /\ \E a \in Assignments : Assigns(c, a)
        BY <1>12, CommitDoes
      <3> QED
        BY <3>1 DEF AssignArg, Assigns
    <2>3. NamesStay
      BY <2>1, <2>2, CatalogueAssumption DEF NamesStay, Mark
    <2>4. Spares(Naming)
      BY <1>0, <1>12, StepSpares DEF Naming
    <2> QED
      BY <2>3, <2>4, NamesSpared
  <1>13. ASSUME UNCHANGED <<track, raced>>, Spares(Naming) PROVE NamesInv'
    BY <1>13, NamesSpared DEF NamesStay
  <1>14. CASE DeleteTrack(c) \/ DeleteDepartment(c) \/ RemoveDepartment(c) \/ ToggleDepartment(c) \/ ToggleLevel(c) \/ ToggleOutcome(c)
    <2>1. UNCHANGED <<track, raced>>
      BY <1>14
         DEF DeleteTrack, DeleteDepartment, RemoveDepartment, ToggleDepartment, ToggleLevel,
             ToggleOutcome, ToggleRow,
                   structure
    <2>2. Spares(Naming)
      BY <1>0, <1>14, StepSpares DEF Naming
    <2> QED
      BY <1>13, <2>1, <2>2
  <1>15. CASE \/ CreateLevel(c) \/ CreateOutcome(c) \/ CopyOutcome(c) \/ AddOutcome(c) \/ AddSkill(c) \/ InsertRow(c)
              \/ DeleteRow(c) \/ RemoveRow(c) \/ Reorder(c) \/ MoveRows(c)
    <2>1. UNCHANGED <<track, raced>>
      BY <1>15
         DEF CreateLevel, CreateOutcome, CopyOutcome, AddOutcome, AddSkill, InsertRow, DeleteRow,
             RemoveRow, Reorder,
                   MoveRows, structure
    <2>2. Spares(Naming)
      BY <1>0, <1>15, StepSpares DEF Naming, Inserts
    <2> QED
      BY <1>13, <2>1, <2>2
  <1>16. CASE \/ CreateSkill(c) \/ SaveSkill(c) \/ DeleteSkill(c) \/ RemoveSkill(c) \/ Assign(c) \/ Retire(c)
              \/ PatchOutcomes(c) \/ AddCustom(c) \/ RemoveCustom(c) \/ Achieve(c)
    <2>1. UNCHANGED <<track, raced>>
      BY <1>16
         DEF CreateSkill, SaveSkill, DeleteSkill, RemoveSkill, Assign, Retire, PatchOutcomes,
             AddCustom, RemoveCustom,
                   Achieve, structure
    <2>2. Spares(Naming)
      BY <1>0, <1>16, StepSpares DEF Naming
    <2> QED
      BY <1>13, <2>1, <2>2
  <1> QED
    BY <1>1, <1>2, <1>3, <1>4, <1>6, <1>7, <1>8, <1>9, <1>10, <1>11, <1>12, <1>14, <1>15, <1>16
       DEF Step

\* And whatever is done beside it.
LEMMA NamesBeside ==
  ASSUME CatalogueSound, NamesInv, UNCHANGED catalogueVars, Spares(CatalogueCalls)
  PROVE NamesInv'
  <1>1. Spares(Naming)
    BY DEF Spares, Naming, CatalogueCalls
  <1>2. NamesStay
    BY DEF NamesStay, catalogueVars, structure
  <1> QED
    BY <1>1, <1>2, NamesSpared

-----------------------------------------------------------------------------
(* Assignments: one that is about to be committed has retired all that are *)
(* active, unless another of the learner has been committed since.         *)

AssignFits(x, written) ==
  x.op = "assign" /\ x.pc = "write" /\ <<"assign", x.arg.learner>> \notin written => Active(x.arg.learner) \subseteq x.seen.retired
AssignInv ==
  /\ \A learner \in Learners \ raced : \A a, b \in Active(learner) : a = b
  /\ \A d \in Callers : AssignFits(call[d], crossed[d])

\* At the start a learner has one active assignment at most.
LEMMA AssignStart ==
  ASSUME Init PROVE AssignInv
  <1>1. \A c \in Callers : call[c] = Idle
    BY CallsStart DEF Init
  <1>2. Idle.pc = "idle"
    BY DEF Idle
  <1>3. \A learner \in Learners \ raced : \A a, b \in Active(learner) : a = b
    <2>1. case \in Cases /\ assignment = case.assignment
      BY DEF Init
    <2> QED
      BY <2>1, CasesAssumption DEF Active, Assigned
  <1> QED
    BY <1>1, <1>2, <1>3 DEF AssignInv, AssignFits

\* A step that commits no assignment.
LEMMA AssignSpared ==
  ASSUME AssignInv, assignment' = assignment, \A l \in Learners : l \in raced => l \in raced', Spares({"assign"})
  PROVE AssignInv'
  <1>1. \A l : Active(l)' = Active(l)
    BY DEF Active, Assigned
  <1>2. ASSUME NEW d \in Callers PROVE AssignFits(call[d], crossed[d])'
    <2>1. PICK x, w, m : x = call'[d] /\ w = crossed[d] /\ m = crossed'[d]
      OBVIOUS
    <2>2. SUFFICES ASSUME x.op = "assign", x.pc = "write", <<"assign", x.arg.learner>> \notin m
                   PROVE Active(x.arg.learner)' \subseteq x.seen.retired
      BY <2>1 DEF AssignFits
    <2>3. call[d] = x /\ w \subseteq m
      BY <2>1, <2>2 DEF Spares
    <2> QED
      BY <1>1, <2>1, <2>2, <2>3 DEF AssignInv, AssignFits
  <1> QED
    BY <1>1, <1>2 DEF AssignInv

\* A call of an assignment that goes on.
LEMMA AssignGoesOn ==
  ASSUME AssignInv, UNCHANGED <<assignment, raced>>, NEW c \in Callers, AssignFits(call[c], crossed[c])',
         \A d \in Callers \ {c} : call'[d] = call[d] /\ crossed[d] \subseteq crossed'[d]
  PROVE AssignInv'
  <1>1. \A l : Active(l)' = Active(l)
    BY DEF Active, Assigned
  <1>2. ASSUME NEW d \in Callers \ {c} PROVE AssignFits(call[d], crossed[d])'
    <2>1. PICK x, w, m : x = call'[d] /\ w = crossed[d] /\ m = crossed'[d]
      OBVIOUS
    <2>2. AssignFits(x, w) /\ w \subseteq m
      BY <2>1 DEF AssignInv
    <2>3. AssignFits(x, m)'
      BY <1>1, <2>2 DEF AssignFits
    <2> QED
      BY <2>1, <2>3
  <1> QED
    BY <1>1, <1>2 DEF AssignInv

\* A committed assignment is the only active one, or the learner is marked.
LEMMA AssignCommits ==
  ASSUME CatalogueSound, AssignInv, NEW c \in Callers, CommitAssignment(c)
  PROVE AssignInv'
  <1>1. PICK arg, seen, written :
          arg = call[c].arg /\ seen = call[c].seen
            /\ written = {<<"assign", arg.learner>>}
                           \cup IF Stale(c, <<"achieve", arg.learner>>) THEN {<<"achieve", arg.learner>>} ELSE {}
    OBVIOUS
  <1>2. /\ call[c].op = "assign" /\ call[c].pc = "write" /\ arg \in AssignArg /\ seen \in AssignSeen
        /\ \/ End(c, "referenced", written) /\ UNCHANGED <<holdings, raced>>
           \/ End(c, None, written) /\ \E a \in Assignments : Assigns(c, a)
    <2>1. LET arg_1 == call[c].arg
              written_1 == {<<"assign", arg_1.learner>>}
                             \cup IF Stale(c, <<"achieve", arg_1.learner>>) THEN {<<"achieve", arg_1.learner>>} ELSE {}
          IN /\ call[c].op = "assign" /\ call[c].pc = "write" /\ arg_1 \in AssignArg /\ call[c].seen \in AssignSeen
             /\ UNCHANGED <<case, deleted, structure, asked>>
             /\ \/ End(c, "referenced", written_1) /\ UNCHANGED <<holdings, raced>>
                \/ End(c, None, written_1) /\ \E a \in Assignments : Assigns(c, a)
      BY CommitDoes
    <2> QED
      BY <1>1, <2>1
  <1>3. CASE End(c, "referenced", written) /\ UNCHANGED <<holdings, raced>>
    <2>1. call'[c].pc = "idle" /\ \A d \in Callers \ {c} : Sees(c, d, {})
      BY <1>3, EndDoes, CatalogueAssumption DEF CatalogueSound, CallsSound
    <2>2. AssignFits(call[c], crossed[c])'
      BY <2>1 DEF AssignFits
    <2>3. \A d \in Callers \ {c} : call'[d] = call[d] /\ crossed[d] \subseteq crossed'[d]
      BY <2>1 DEF Sees
    <2> QED
      BY <1>3, <2>2, <2>3, AssignGoesOn DEF holdings
  <1>4. ASSUME End(c, None, written), NEW a \in Assignments, Assigns(c, a)
        PROVE AssignInv'
    <2>1. call'[c].pc = "idle" /\ \A d \in Callers \ {c} : Sees(c, d, written)
      BY <1>4, EndDoes DEF CatalogueSound, CallsSound
    <2>2. /\ assignment[a] = None /\ arg.learner \in Learners
          /\ assignment'[a] = [learner |-> arg.learner, track |-> arg.track, level |-> arg.level, active |-> TRUE]
          /\ \A b \in Assignments \ {a} :
               IF b \in seen.retired
               THEN assignment'[b] = [learner |-> assignment[b].learner, track |-> assignment[b].track,
                                      level |-> assignment[b].level, active |-> FALSE]
               ELSE assignment'[b] = assignment[b]
          /\ Mark(arg.learner, Stale(c, <<"assign", arg.learner>>))
      BY <1>1, <1>2, <1>4 DEF Assigns, AssignArg
    <2>8. /\ assignment'[a].learner = arg.learner
          /\ \A b \in (Assignments \ {a}) \cap seen.retired : ~assignment'[b].active
          /\ \A b \in (Assignments \ {a}) \ seen.retired : assignment'[b] = assignment[b]
      <3>1. assignment'[a].learner = arg.learner
        BY <2>2
      <3>2. ASSUME NEW b \in (Assignments \ {a}) \cap seen.retired PROVE ~assignment'[b].active
        <4>1. assignment'[b] = [learner |-> assignment[b].learner, track |-> assignment[b].track,
                                level |-> assignment[b].level, active |-> FALSE]
          BY <2>2, <3>2
        <4> QED
          BY <4>1
      <3> QED
        BY <2>2, <3>1, <3>2
    <2>9. \A l, b : b \in Active(l)' => b \in Assignments /\ assignment'[b] # None /\ assignment'[b].learner = l /\ assignment'[b].active
      BY DEF Active, Assigned
    <2>10. \A l, b : b \in Assignments /\ assignment[b] # None /\ assignment[b].learner = l /\ assignment[b].active => b \in Active(l)
      BY DEF Active, Assigned
    <2>3. \A l \in Learners \ {arg.learner} : Active(l)' \subseteq Active(l)
      BY <2>8, <2>9, <2>10
    <2>4. Active(arg.learner)' \subseteq {a} \cup (Active(arg.learner) \ seen.retired)
      BY <2>8, <2>9, <2>10
    <2>5. ~Stale(c, <<"assign", arg.learner>>) => Active(arg.learner) \subseteq seen.retired
      BY <1>1, <1>2 DEF AssignInv, AssignFits, Stale
    <2>6. \A learner \in Learners \ raced' : \A b, d \in Active(learner)' : b = d
      BY <2>2, <2>3, <2>4, <2>5 DEF AssignInv, Mark
    <2>7. ASSUME NEW d \in Callers \ {c} PROVE AssignFits(call[d], crossed[d])'
      <3>1. PICK x, w, m : x = call[d] /\ w = crossed[d] /\ m = crossed'[d]
        OBVIOUS
      <3>2. call'[d] = x /\ (x.pc # "idle" => m = w \cup written)
        BY <2>1, <3>1 DEF Sees
      <3>3. SUFFICES ASSUME x.op = "assign", x.pc = "write", <<"assign", x.arg.learner>> \notin m
                     PROVE Active(x.arg.learner)' \subseteq x.seen.retired
        BY <3>1, <3>2 DEF AssignFits
      <3>4. x.arg.learner # arg.learner
        BY <1>1, <3>2, <3>3
      <3>5. x.arg.learner \in Learners
        BY <3>1, <3>3 DEF CatalogueSound, CallTyped, AssignArg
      <3>6. Active(x.arg.learner) \subseteq x.seen.retired
        BY <3>1, <3>2, <3>3 DEF AssignInv, AssignFits
      <3> QED
        BY <2>3, <3>4, <3>5, <3>6
    <2> QED
      BY <2>1, <2>6, <2>7 DEF AssignInv, AssignFits
  <1> QED
    BY <1>2, <1>3, <1>4

\* Whatever step the catalogue takes.
LEMMA AssignSteps ==
  ASSUME CatalogueSound, AssignInv, NEW c \in Callers, Step(c)
  PROVE AssignInv'
  <1>0. CallsSound /\ TablesSound /\ None \notin {"assign"}
    BY OfficeAssumption DEF CatalogueSound, CatalogueCalls
  <1>1. CASE CommitAssignment(c)
    BY <1>1, AssignCommits
  <1>2. CASE Assign(c)
    <2>1. PICK arg, seen : Begin(c, "assign", "retire", arg, seen)
      BY <1>2 DEF Assign
    <2>2. call'[c] = [op |-> "assign", pc |-> "retire", arg |-> arg, seen |-> seen, result |-> None]
          /\ \A d \in Callers \ {c} : call'[d] = call[d] /\ crossed'[d] = crossed[d]
      BY <1>0, <2>1, BeginDoes DEF CallsSound
    <2>3. AssignFits(call[c], crossed[c])'
      BY <2>2 DEF AssignFits
    <2> QED
      BY <1>2, <2>2, <2>3, AssignGoesOn DEF Assign, holdings
  <1>3. CASE Retire(c)
    <2>1. PICK seen : seen = [call[c].seen EXCEPT !.retired = Active(call[c].arg.learner)]
      OBVIOUS
    <2>2. Goto(c, "write", seen, {}) /\ call[c].op = "assign" /\ call[c].pc = "retire"
      BY <1>3, <2>1 DEF Retire, At
    <2>3. call[c].seen \in AssignSeen
      BY <2>2 DEF CatalogueSound, CallTyped
    <2>4. seen.retired = Active(call[c].arg.learner)
      BY <2>1, <2>3 DEF AssignSeen
    <2>5. /\ call'[c] = [op |-> call[c].op, pc |-> "write", arg |-> call[c].arg, seen |-> seen, result |-> call[c].result]
          /\ \A d \in Callers \ {c} : Sees(c, d, {})
      BY <1>0, <2>2, GotoDoes DEF CallsSound
    <2>6. assignment' = assignment
      BY <1>3 DEF Retire, holdings
    <2>7. AssignFits(call[c], crossed[c])'
      BY <2>4, <2>5, <2>6 DEF AssignFits, Active, Assigned
    <2> QED
      BY <1>3, <2>5, <2>7, AssignGoesOn DEF Retire, holdings, Sees
  <1>4. ASSUME UNCHANGED <<assignment, raced>>, Spares({"assign"}) PROVE AssignInv'
    BY <1>4, AssignSpared
  <1>5. ASSUME assignment' = assignment, NEW t \in Tracks, raced' = raced \cup {t} \/ raced' = raced \ {t}, Spares({"assign"})
        PROVE AssignInv'
    BY <1>5, AssignSpared, CatalogueAssumption
  <1>6. CASE InsertTrack(c) \/ InsertFull(c) \/ SaveTrack(c) \/ InsertCopy(c) \/ DeleteTree(c)
    <2>1. assignment' = assignment
      BY <1>6 DEF InsertTrack, InsertFull, SaveTrack, InsertCopy, DeleteTree, holdings
    <2>2. Spares({"assign"})
      BY <1>0, <1>6, StepSpares
    <2>3. raced' = raced \/ \E t \in Tracks : raced' = raced \cup {t} \/ raced' = raced \ {t}
      <3>1. CASE InsertTrack(c)
        BY <3>1, InsertTrackDoes DEF TrackAdded, Mark
      <3>2. CASE InsertFull(c)
        BY <3>2, InsertFullDoes DEF TrackAdded, Mark
      <3>3. CASE SaveTrack(c)
        BY <3>3, SaveTrackDoes DEF EditArg, Mark
      <3>4. CASE InsertCopy(c)
        BY <3>4, InsertCopyDoes DEF TrackAdded, Mark
      <3>5. CASE DeleteTree(c)
        BY <3>5, DeleteTreeDoes DEF TreeGone, Mark
      <3> QED
        BY <1>6, <3>1, <3>2, <3>3, <3>4, <3>5
    <2> QED
      BY <1>4, <1>5, <2>1, <2>2, <2>3
  <1>7. CASE \/ CreateTrack(c) \/ CreateFull(c) \/ UpdateTrack(c) \/ CopyTrack(c) \/ DeleteTrack(c) \/ DeleteDepartment(c)
             \/ RemoveDepartment(c) \/ ToggleDepartment(c) \/ ToggleTrack(c) \/ ToggleLevel(c) \/ ToggleOutcome(c)
    <2>1. UNCHANGED <<assignment, raced>>
      BY <1>7
         DEF CreateTrack, CreateFull, UpdateTrack, CopyTrack, DeleteTrack, DeleteDepartment,
             RemoveDepartment,
                  ToggleDepartment, ToggleTrack, ToggleLevel, ToggleOutcome, ToggleRow, holdings
    <2>2. Spares({"assign"})
      BY <1>0, <1>7, StepSpares
    <2> QED
      BY <1>4, <2>1, <2>2
  <1>8. CASE \/ CreateLevel(c) \/ CreateOutcome(c) \/ CopyOutcome(c) \/ AddOutcome(c) \/ AddSkill(c) \/ InsertRow(c)
             \/ DeleteRow(c) \/ RemoveRow(c) \/ Reorder(c) \/ MoveRows(c)
    <2>1. UNCHANGED <<assignment, raced>>
      BY <1>8
         DEF CreateLevel, CreateOutcome, CopyOutcome, AddOutcome, AddSkill, InsertRow, DeleteRow,
             RemoveRow, Reorder,
                  MoveRows, holdings
    <2>2. Spares({"assign"})
      BY <1>0, <1>8, StepSpares DEF Inserts
    <2> QED
      BY <1>4, <2>1, <2>2
  <1>9. CASE \/ CreateSkill(c) \/ SaveSkill(c) \/ DeleteSkill(c) \/ RemoveSkill(c)
             \/ PatchOutcomes(c) \/ AddCustom(c) \/ RemoveCustom(c) \/ Achieve(c)
    <2>1. UNCHANGED <<assignment, raced>>
      BY <1>9
         DEF CreateSkill, SaveSkill, DeleteSkill, RemoveSkill, PatchOutcomes, AddCustom,
             RemoveCustom, Achieve, holdings
    <2>2. Spares({"assign"})
      BY <1>0, <1>9, StepSpares
    <2> QED
      BY <1>4, <2>1, <2>2
  <1> QED
    BY <1>1, <1>2, <1>3, <1>6, <1>7, <1>8, <1>9 DEF Step

\* And whatever is done beside it.
LEMMA AssignBeside ==
  ASSUME CatalogueSound, AssignInv, UNCHANGED catalogueVars, Spares(CatalogueCalls)
  PROVE AssignInv'
  <1>1. Spares({"assign"})
    BY DEF Spares, CatalogueCalls
  <1> QED
    BY <1>1, AssignSpared DEF catalogueVars, holdings

\* What is marked once is there once at most.
LEMMA OneActiveHolds ==
  ASSUME AssignInv PROVE OneActive
  <1>1. SUFFICES ASSUME NEW learner \in Learners \ raced PROVE Cardinality(Active(learner)) <= 1
    BY DEF OneActive
  <1>2. \A a, b \in Active(learner) : a = b
    BY DEF AssignInv
  <1>3. CASE Active(learner) = {}
    BY <1>3, FS_EmptySet
  <1>4. CASE Active(learner) # {}
    <2>1. PICK a : Active(learner) = {a}
      BY <1>2, <1>4
    <2> QED
      BY <2>1, FS_Singleton
  <1> QED
    BY <1>3, <1>4

\* Of a name in a department there is one track, and of a learner one active assignment, but for those that
\* were written while another call wrote such (track.service.ts, learner-assignment.repository.ts).
THEOREM ThereIsOneOfEach == OfficeSpec => []OneOfEach
  <1>1. OfficeInit => CatalogueSound /\ NamesInv /\ AssignInv
    BY CatalogueStartsSound, NamesStart, AssignStart DEF OfficeInit
  <1>2. CatalogueSound /\ NamesInv /\ AssignInv /\ [OfficeNext]_officeVars => CatalogueSound'
        /\ NamesInv' /\ AssignInv'
    <2>1. SUFFICES ASSUME CatalogueSound, NamesInv, AssignInv, [OfficeNext]_officeVars
                   PROVE CatalogueSound' /\ NamesInv' /\ AssignInv'
      OBVIOUS
    <2>2. CallsSound
      BY <2>1 DEF CatalogueSound
    <2>3. CASE \E c \in Callers : Step(c)
      BY <2>1, <2>3, CatalogueStaysSound, NamesSteps, AssignSteps
    <2>4. CASE UNCHANGED catalogueVars /\ Spares(CatalogueCalls)
      BY <2>1, <2>4, CatalogueStaysSound, NamesBeside, AssignBeside
    <2> QED
      BY <2>1, <2>2, <2>3, <2>4, CatalogueInOffice
  <1>3. NamesInv /\ AssignInv => OneOfEach
    BY OneActiveHolds DEF NamesInv, OneOfEach
  <1> QED
    BY <1>1, <1>2, <1>3, PTL DEF OfficeSpec

-----------------------------------------------------------------------------
(* Refusals: an insert has taken an order past all of its list, a reorder  *)
(* lists all rows, a track that is deleted is assigned to nobody; others   *)
(* may have changed that since, and only they.                             *)

Known(p) == There(p) \/ p \in deleted
RaceOps == Inserts \cup {"reorder", "deleteTrack"}
RaceFits(x, written) == x.pc = "write" =>
  /\ x.op \in Inserts =>
       /\ Known(x.arg.of)
       /\ <<"insert", x.arg.of>> \notin written => \A r \in Siblings(x.arg.of) : row[r].order < x.seen
  /\ x.op = "reorder" =>
       LET p == x.arg.of
           s == x.arg.order
       IN /\ Known(p)
          /\ <<"insert", p>> \notin written => Siblings(p) \subseteq ToSet(s)
          /\ <<"late", p>> \notin written /\ <<"reorder", p>> \notin written =>
               \A q \in Siblings(p) \ ToSet(s), r \in Siblings(p) \cap ToSet(s) : row[r].order < row[q].order
  /\ x.op = "deleteTrack" /\ (\A learner \in Learners : <<"assign", learner>> \notin written) =>
       \A a \in Assigned : assignment[a].track # x.arg
RaceInv == \A d \in Callers : RaceFits(call[d], crossed[d])

\* At the start nobody has called.
LEMMA RaceStart ==
  ASSUME Init PROVE RaceInv
  <1>1. \A c \in Callers : call[c] = Idle
    BY CallsStart DEF Init
  <1>2. Idle.pc = "idle"
    BY DEF Idle
  <1> QED
    BY <1>1, <1>2 DEF RaceInv, RaceFits

\* The rows of a list stay as they are in it, or go.
OrdersStay(p) == \A r \in Rows :
  row'[r] # None /\ row'[r].of = p => row[r] # None /\ row[r].of = p /\ row'[r].order = row[r].order
KnownStay == \A p \in Parents : Known(p) => There(p)' \/ p \in deleted'

\* A call that these do not concern.
LEMMA StillRaces ==
  ASSUME NEW x, NEW w, NEW m, CallTyped(x), RaceFits(x, w), w \subseteq m, KnownStay,
         x.pc = "write" /\ x.op \in Inserts \cup {"reorder"} => OrdersStay(x.arg.of),
         assignment' = assignment \/ (\E learner \in Learners : <<"assign", learner>> \in m) \/ x.op # "deleteTrack"
  PROVE RaceFits(x, m)'
  <1>0. SUFFICES ASSUME x.pc = "write" PROVE RaceFits(x, m)'
    BY DEF RaceFits
  <1>1. CASE x.op \in Inserts
    <2>1. x.arg.of \in Parents
      BY <1>0, <1>1 DEF CallTyped, InsertArg, Parents, Inserts
    <2>2. Known(x.arg.of)'
      BY <1>0, <1>1, <2>1 DEF RaceFits, KnownStay, Known
    <2>3. <<"insert", x.arg.of>> \notin m => \A r \in Siblings(x.arg.of)' : row'[r].order < x.seen
      BY <1>0, <1>1 DEF RaceFits, OrdersStay, Siblings
    <2> QED
      BY <1>1, <2>2, <2>3 DEF RaceFits, Inserts
  <1>2. CASE x.op = "reorder"
    <2>0. PICK p, s : p = x.arg.of /\ s = x.arg.order
      OBVIOUS
    <2>1. p \in Parents /\ OrdersStay(p)
      BY <1>0, <1>2, <2>0 DEF CallTyped
    <2>2. /\ Known(p)
          /\ <<"insert", p>> \notin w => Siblings(p) \subseteq ToSet(s)
          /\ <<"late", p>> \notin w /\ <<"reorder", p>> \notin w =>
               \A q \in Siblings(p) \ ToSet(s), r \in Siblings(p) \cap ToSet(s) : row[r].order < row[q].order
      BY <1>0, <1>2, <2>0 DEF RaceFits
    <2>3. Known(p)'
      BY <2>1, <2>2 DEF KnownStay, Known
    <2>4. Siblings(p)' \subseteq Siblings(p) /\ \A r \in Siblings(p)' : row'[r].order = row[r].order
      BY <2>1 DEF OrdersStay, Siblings
    <2>5. /\ <<"insert", p>> \notin m => Siblings(p)' \subseteq ToSet(s)
          /\ <<"late", p>> \notin m /\ <<"reorder", p>> \notin m =>
               \A q \in Siblings(p)' \ ToSet(s), r \in Siblings(p)' \cap ToSet(s) : row'[r].order < row'[q].order
      BY <2>2, <2>4
    <2> QED
      BY <1>2, <2>0, <2>3, <2>5 DEF RaceFits, Inserts
  <1>3. CASE x.op = "deleteTrack"
    BY <1>0, <1>3 DEF RaceFits, Inserts, Assigned
  <1> QED
    BY <1>1, <1>2, <1>3 DEF RaceFits

\* So a step keeps them all, if it leaves their lists and assignments alone or they are told.
LEMMA RaceKeeps ==
  ASSUME CatalogueSound, RaceInv, KnownStay,
         \A d \in Callers : call'[d].op \in RaceOps /\ call'[d].pc = "write" =>
           /\ call'[d] = call[d] /\ crossed[d] \subseteq crossed'[d]
           /\ call[d].op \in Inserts \cup {"reorder"} => OrdersStay(call[d].arg.of)
           /\ assignment' = assignment \/ \E learner \in Learners : <<"assign", learner>> \in crossed'[d]
  PROVE RaceInv'
  <1>1. SUFFICES ASSUME NEW d \in Callers PROVE RaceFits(call[d], crossed[d])'
    BY DEF RaceInv
  <1>2. PICK x, w, m : x = call'[d] /\ w = crossed[d] /\ m = crossed'[d]
    OBVIOUS
  <1>3. CASE x.op \in RaceOps /\ x.pc = "write"
    <2>1. /\ call[d] = x /\ w \subseteq m /\ CallTyped(x) /\ RaceFits(x, w)
          /\ x.op \in Inserts \cup {"reorder"} => OrdersStay(x.arg.of)
          /\ assignment' = assignment \/ \E learner \in Learners : <<"assign", learner>> \in m
      BY <1>2, <1>3 DEF RaceInv, CatalogueSound
    <2>2. RaceFits(x, m)'
      BY <2>1, StillRaces
    <2> QED
      BY <1>2, <2>2
  <1>4. CASE ~(x.op \in RaceOps /\ x.pc = "write")
    BY <1>2, <1>4 DEF RaceFits, RaceOps
  <1> QED
    BY <1>3, <1>4

\* Most steps leave all lists alone.
LEMMA Calm ==
  ASSUME CatalogueSound, NEW c \in Callers, Step(c), ~InsertRow(c), ~MoveRows(c), ~InsertFull(c), ~InsertCopy(c)
  PROVE KnownStay /\ \A p : OrdersStay(p)
  <1>0. TablesSound
    BY DEF CatalogueSound
  <1>1. ASSUME row' = row, \A t \in Tracks : track[t] # None => track'[t] # None, deleted' = deleted
        PROVE KnownStay /\ \A p : OrdersStay(p)
    BY <1>1, CatalogueAssumption DEF KnownStay, Known, There, OrdersStay, Parents
  <1>2. CASE \/ CreateTrack(c) \/ CreateFull(c) \/ UpdateTrack(c) \/ CopyTrack(c) \/ DeleteTrack(c) \/ DeleteDepartment(c)
             \/ CreateLevel(c) \/ CreateOutcome(c) \/ CopyOutcome(c) \/ AddOutcome(c) \/ DeleteRow(c) \/ Reorder(c)
             \/ CreateSkill(c) \/ DeleteSkill(c) \/ Assign(c) \/ PatchOutcomes(c)
    <2>1. UNCHANGED <<row, track, deleted>>
      BY <1>2
         DEF CreateTrack, CreateFull, UpdateTrack, CopyTrack, DeleteTrack, DeleteDepartment,
             CreateLevel, CreateOutcome,
                  CopyOutcome, AddOutcome, DeleteRow, Reorder, CreateSkill, DeleteSkill, Assign, PatchOutcomes, structure
    <2> QED
      BY <1>1, <2>1
  <1>3. CASE \/ RemoveDepartment(c) \/ ToggleDepartment(c) \/ AddSkill(c) \/ SaveSkill(c)
             \/ Retire(c) \/ CommitAssignment(c) \/ AddCustom(c) \/ RemoveCustom(c) \/ Achieve(c)
    <2>1. UNCHANGED <<row, track, deleted>>
      BY <1>3
         DEF RemoveDepartment, ToggleDepartment, AddSkill, SaveSkill, Retire, CommitAssignment,
             AddCustom, RemoveCustom,
                  Achieve, structure
    <2> QED
      BY <1>1, <2>1
  <1>4. CASE InsertTrack(c)
    <2>1. UNCHANGED <<row, deleted>> /\ (track' = track \/ \E t \in Tracks : \E new : TrackAdded(c, t, new))
      BY <1>4, InsertTrackDoes
    <2>2. \A t \in Tracks : track[t] # None => track'[t] # None
      BY <2>1, CatalogueAssumption DEF TrackAdded
    <2> QED
      BY <1>1, <2>1, <2>2
  <1>5. CASE SaveTrack(c)
    <2>1. /\ UNCHANGED <<row, deleted>>
          /\ \/ track' = track
             \/ LET t == call[c].arg.track
                    new == Edited(track[t], call[c].arg.edit)
                IN /\ new \in TrackRow
                   /\ track' = [u \in Tracks |-> IF u = t THEN new ELSE track[u]]
      BY <1>5, SaveTrackDoes
    <2>2. \A t \in Tracks : track[t] # None => track'[t] # None
      BY <2>1, CatalogueAssumption
    <2> QED
      BY <1>1, <2>1, <2>2
  <1>6. CASE ToggleTrack(c)
    <2>1. PICK t \in Tracks : track[t] # None /\ track' = [track EXCEPT ![t].on = ~@]
      BY <1>6 DEF ToggleTrack
    <2>2. UNCHANGED <<row, deleted>>
      BY <1>6 DEF ToggleTrack
    <2>3. track'[t] \in TrackRow
      BY <1>0, <2>1, TrackIs DEF TablesSound, Tables, TrackRow
    <2>4. \A u \in Tracks : track[u] # None => track'[u] # None
      BY <1>0, <2>1, <2>3, CatalogueAssumption DEF TablesSound, Tables
    <2> QED
      BY <1>1, <2>2, <2>4
  <1>7. CASE ToggleLevel(c) \/ ToggleOutcome(c)
    <2>1. PICK r \in Rows : row[r] # None /\ row' = [row EXCEPT ![r].on = ~@]
      BY <1>7 DEF ToggleLevel, ToggleOutcome, ToggleRow, Rows
    <2>2. UNCHANGED <<track, deleted>>
      BY <1>7 DEF ToggleLevel, ToggleOutcome, ToggleRow
    <2>3. row'[r] \in ListRow /\ row'[r].of = row[r].of /\ row'[r].order = row[r].order
      BY <1>0, <2>1, RowIs DEF TablesSound, Tables, ListRow
    <2>4. \A q \in Rows : q # r => row'[q] = row[q]
      BY <1>0, <2>1 DEF TablesSound, Tables
    <2>5. \A q \in Rows : row[q] # None => row'[q] # None
      BY <2>3, <2>4, CatalogueAssumption
    <2> QED
      BY <2>1, <2>2, <2>3, <2>4, <2>5 DEF KnownStay, Known, There, OrdersStay, Parents, Rows
  <1>8. CASE RemoveRow(c)
    <2>1. PICK r : r = call[c].arg
      OBVIOUS
    <2>2. \/ UNCHANGED <<row, track, deleted>>
          \/ track' = track /\ row' = [row EXCEPT ![r] = None] /\ deleted' = deleted \cup {r}
      <3>1. PICK result : result = FirstOf(<<Problem(row[r] = None, "missing"), Problem(InUse(r), "referenced")>>)
        OBVIOUS
      <3>2. /\ row' = IF result = None THEN [row EXCEPT ![r] = None] ELSE row
            /\ deleted' = IF result = None THEN deleted \cup {r} ELSE deleted
            /\ track' = track
        BY <1>8, <2>1, <3>1 DEF RemoveRow
      <3> QED
        BY <3>2
    <2>3. r \in Rows
      BY <1>8, <2>1 DEF RemoveRow, At, CatalogueSound, CallTyped, Rows
    <2>4. CASE track' = track /\ row' = [row EXCEPT ![r] = None] /\ deleted' = deleted \cup {r}
      <3>1. \A q \in Rows : row'[q] = IF q = r THEN None ELSE row[q]
        BY <1>0, <2>3, <2>4 DEF TablesSound, Tables
      <3> QED
        BY <2>4, <3>1 DEF KnownStay, Known, There, OrdersStay, Parents, Rows
    <2> QED
      BY <1>1, <2>2, <2>4
  <1>9. CASE RemoveSkill(c)
    <2>1. PICK s : s = call[c].arg
      OBVIOUS
    <2>2. /\ deleted' = deleted \cup {s} /\ track' = track
          /\ row' = [r \in Rows |-> IF row[r] # None /\ row[r].skill = s THEN [row[r] EXCEPT !.skill = None] ELSE row[r]]
      BY <1>9, <2>1 DEF RemoveSkill
    <2>3. \A x \in ListRow : [x EXCEPT !.skill = None] \in ListRow /\ [x EXCEPT !.skill = None].of = x.of
                             /\ [x EXCEPT !.skill = None].order = x.order
      BY DEF ListRow
    <2>4. \A r \in Rows : (row[r] # None <=> row'[r] # None)
                          /\ (row'[r] # None => row'[r].of = row[r].of /\ row'[r].order = row[r].order)
      BY <1>0, <2>2, <2>3, RowIs, CatalogueAssumption
    <2> QED
      BY <2>2, <2>4 DEF KnownStay, Known, There, OrdersStay, Parents, Rows
  <1>10. CASE DeleteTree(c)
    <2>1. PICK t : t = call[c].arg
      OBVIOUS
    <2>2. UNCHANGED <<track, row, deleted>> \/ TreeGone(t)
      BY <1>10, <2>1, DeleteTreeDoes
    <2>3. CASE TreeGone(t)
      <3>1. \A r \in Rows :
              /\ row'[r] # None => row[r] # None /\ row'[r].of = row[r].of /\ row'[r].order = row[r].order
              /\ row[r] # None /\ row'[r] = None => r \in deleted'
        BY <2>3 DEF TreeGone
      <3>2. \A u \in Tracks : track[u] # None /\ track'[u] = None => u \in deleted'
        BY <2>3 DEF TreeGone
      <3>3. deleted \subseteq deleted'
        BY <2>3 DEF TreeGone
      <3> QED
        BY <3>1, <3>2, <3>3 DEF KnownStay, Known, There, OrdersStay, Parents, Rows
    <2> QED
      BY <1>1, <2>2, <2>3
  <1> QED
    BY <1>2, <1>3, <1>4, <1>5, <1>6, <1>7, <1>8, <1>9, <1>10 DEF Step

\* As many different orders as there are below a number, at least one is not below it.
LEMMA OrdersNeedRoom ==
  ASSUME TablesSound, NEW p, NEW s \in Seq(Rows), \A i, j \in DOMAIN s : s[i] = s[j] => i = j,
         \A i \in DOMAIN s : row[s[i]] # None /\ row[s[i]].of = p, NEW n \in Nat,
         \A i \in DOMAIN s : row[s[i]].order < n
  PROVE Len(s) <= n
  <1>1. SUFFICES ASSUME n < Len(s) PROVE FALSE
    OBVIOUS
  <1>2. \A i \in DOMAIN s : s[i] \in Rows /\ row[s[i]].order \in Nat
    BY RowIs
  <1>3. PICK f : f = [i \in 1 .. Len(s) |-> row[s[i]].order]
    OBVIOUS
  <1>4. f \in [1 .. Len(s) -> 0 .. n - 1]
    BY <1>2, <1>3
  <1>5. /\ IsFiniteSet(1 .. Len(s)) /\ Cardinality(1 .. Len(s)) = Len(s)
        /\ IsFiniteSet(0 .. n - 1) /\ Cardinality(0 .. n - 1) = n
    <2>1. Len(s) \in Nat /\ 0 \in Int /\ 1 \in Int /\ n - 1 \in Int
      OBVIOUS
    <2>2. IsFiniteSet(1 .. Len(s)) /\ Cardinality(1 .. Len(s)) = IF 1 > Len(s) THEN 0 ELSE Len(s) - 1 + 1
      BY <2>1, FS_Interval
    <2>3. IsFiniteSet(0 .. n - 1) /\ Cardinality(0 .. n - 1) = IF 0 > n - 1 THEN 0 ELSE n - 1 - 0 + 1
      BY <2>1, FS_Interval
    <2> QED
      BY <2>1, <2>2, <2>3
  <1>6. PICK i, j \in 1 .. Len(s) : i # j /\ f[i] = f[j]
    <2>1. PICK S, T : S = 1 .. Len(s) /\ T = 0 .. n - 1
      OBVIOUS
    <2>2. IsFiniteSet(S) /\ IsFiniteSet(T) /\ Cardinality(T) < Cardinality(S) /\ f \in [S -> T]
      BY <1>1, <1>4, <1>5, <2>1
    <2>3. \E i, j \in S : i # j /\ f[i] = f[j]
      BY <2>2, FS_PigeonHole
    <2> QED
      BY <2>1, <2>3
  <1>7. s[i] # s[j] /\ row[s[i]].order = row[s[j]].order
    BY <1>3, <1>6
  <1> QED
    BY <1>2, <1>6, <1>7 DEF TablesSound, OrdersDiffer

\* A call begins with what it has found.
LEMMA RaceBegins ==
  ASSUME CatalogueSound, RaceInv, NEW c \in Callers, NEW op, NEW arg, NEW seen, Begin(c, op, "write", arg, seen),
         NEW y, y = [op |-> op, pc |-> "write", arg |-> arg, seen |-> seen, result |-> None],
         RaceFits(y, {}), UNCHANGED <<row, track, deleted, assignment>>
  PROVE RaceInv'
  <1>1. call'[c] = y /\ crossed'[c] = {} /\ \A d \in Callers \ {c} : call'[d] = call[d]
        /\ crossed'[d] = crossed[d]
    BY BeginDoes DEF CatalogueSound, CallsSound
  <1>2. \A x, w : RaceFits(x, w) => RaceFits(x, w)'
    BY DEF RaceFits, Known, There, Siblings, Assigned
  <1>3. ASSUME NEW d \in Callers PROVE RaceFits(call[d], crossed[d])'
    <2>1. PICK x, w : x = call'[d] /\ w = crossed'[d]
      OBVIOUS
    <2>2. RaceFits(x, w)
      BY <1>1, <2>1 DEF RaceInv
    <2> QED
      BY <1>2, <2>1, <2>2
  <1> QED
    BY <1>3 DEF RaceInv

\* A row is added to a list.
LEMMA RaceInserts ==
  ASSUME CatalogueSound, RaceInv, NEW c \in Callers, InsertRow(c)
  PROVE RaceInv'
  <1>0. TablesSound
    BY DEF CatalogueSound
  <1>1. PICK arg, seen, p, written :
          /\ arg = call[c].arg /\ seen = call[c].seen /\ p = arg.of
          /\ written = {<<"insert", arg.of>>, <<"outcomes", arg.of>>}
                         \cup IF Stale(c, <<"insert", arg.of>>) THEN {<<"late", arg.of>>} ELSE {}
    OBVIOUS
  <1>2. /\ call[c].op \in Inserts /\ call[c].pc = "write" /\ p \in Parents /\ seen \in Nat
        /\ UNCHANGED <<case, deleted, department, track, skill, holdings, asked, raced>>
        /\ \/ \E result \in {"referenced", "clash"} : End(c, result, written) /\ UNCHANGED row
           \/ /\ End(c, None, written) /\ There(p)
              /\ \E r \in (IF call[c].op = "createLevel" THEN Levels ELSE Outcomes) : RowAdded(r, RowAt(arg, seen))
    <2>1. LET arg_1 == call[c].arg
              seen_1 == call[c].seen
              written_1 == {<<"insert", arg_1.of>>, <<"outcomes", arg_1.of>>}
                         \cup IF Stale(c, <<"insert", arg_1.of>>) THEN {<<"late", arg_1.of>>} ELSE {}
          IN /\ call[c].op \in Inserts /\ call[c].pc = "write"
             /\ arg_1.of \in (IF call[c].op = "createLevel" THEN Tracks ELSE Levels) /\ arg_1.on \in BOOLEAN /\ seen_1 \in Nat
             /\ UNCHANGED <<case, deleted, department, track, skill, holdings, asked, raced>>
             /\ \/ \E result \in {"referenced", "clash"} :
                     /\ End(c, result, written_1) /\ UNCHANGED row
                     /\ result = "clash" => seen_1 \in Used(arg_1.of)
                \/ /\ End(c, None, written_1) /\ There(arg_1.of) /\ seen_1 \notin Used(arg_1.of)
                   /\ arg_1.skill # None => arg_1.skill \in Skills /\ skill[arg_1.skill] # None
                   /\ \E r \in (IF call[c].op = "createLevel" THEN Levels ELSE Outcomes) : RowAdded(r, RowAt(arg_1, seen_1))
      BY InsertRowDoes
    <2> QED
      BY <1>1, <2>1 DEF Parents
  <1>3. ASSUME NEW result \in {"referenced", "clash"}, End(c, result, written), UNCHANGED row PROVE RaceInv'
    <2>1. call'[c].pc = "idle" /\ \A d \in Callers \ {c} : Sees(c, d, {})
      BY <1>3, EndDoes, CatalogueAssumption DEF CatalogueSound, CallsSound
    <2>2. KnownStay /\ \A q : OrdersStay(q)
      BY <1>2, <1>3 DEF KnownStay, Known, There, OrdersStay
    <2> QED
      BY <1>2, <2>1, <2>2, RaceKeeps DEF Sees, holdings
  <1>4. ASSUME End(c, None, written), There(p), NEW r \in Rows, RowAdded(r, RowAt(arg, seen)) PROVE RaceInv'
    <2>1. call'[c].pc = "idle" /\ \A d \in Callers \ {c} : Sees(c, d, written)
      BY <1>4, EndDoes DEF CatalogueSound, CallsSound
    <2>2. /\ r \notin deleted /\ row[r] = None /\ row'[r].of = p /\ row'[r].order = seen
          /\ row'[r] # None /\ \A q \in Rows \ {r} : row'[q] = row[q]
      BY <1>1, <1>4, CatalogueAssumption DEF RowAdded, RowAt
    <2>3. KnownStay
      BY <1>2, <2>2 DEF KnownStay, Known, There, Parents, Rows
    <2>4. ASSUME NEW d \in Callers \ {c}, call[d].op \in RaceOps, call[d].pc = "write" PROVE RaceFits(call[d], crossed[d])'
      <3>1. PICK x, w, m : x = call[d] /\ w = crossed[d] /\ m = crossed'[d]
        OBVIOUS
      <3>2. call'[d] = x /\ m = w \cup written /\ RaceFits(x, w) /\ CallTyped(x) /\ CallFits(x) /\ x.pc = "write"
        BY <2>1, <2>4, <3>1 DEF Sees, RaceInv, CatalogueSound
      <3>3. CASE x.op \in Inserts \cup {"reorder"} => x.arg.of # p
        <4>1. x.op \in Inserts \cup {"reorder"} => OrdersStay(x.arg.of)
          BY <2>2, <3>3 DEF OrdersStay
        <4>2. RaceFits(x, m)'
          BY <1>2, <2>3, <3>2, <4>1, StillRaces DEF holdings
        <4> QED
          BY <3>1, <3>2, <4>2
      <3>4. CASE x.op \in Inserts /\ x.arg.of = p
        <4>1. Known(p)' /\ <<"insert", p>> \in m
          BY <1>1, <1>2, <1>4, <2>3, <3>2 DEF KnownStay, Known
        <4>2. RaceFits(x, m)'
          BY <3>4, <4>1 DEF RaceFits, Inserts
        <4> QED
          BY <3>1, <3>2, <4>2
      <3>5. CASE x.op = "reorder" /\ x.arg.of = p
        <4>0. PICK s : s = x.arg.order
          OBVIOUS
        <4>1. Known(p)' /\ <<"insert", p>> \in m
          BY <1>1, <1>2, <1>4, <2>3, <3>2 DEF KnownStay, Known
        <4>2. r \notin ToSet(s)
          BY <2>2, <3>2, <3>5, <4>0 DEF CallFits, ToSet
        <4>3. ASSUME <<"late", p>> \notin m, <<"reorder", p>> \notin m,
                     NEW q \in Siblings(p)' \ ToSet(s), NEW u \in Siblings(p)' \cap ToSet(s)
              PROVE row'[u].order < row'[q].order
          <5>1. u \in Siblings(p) \cap ToSet(s) /\ row'[u] = row[u]
            BY <2>2, <4>2, <4>3 DEF Siblings
          <5>2. CASE q = r
            <6>1. ~Stale(c, <<"insert", p>>)
              BY <1>1, <3>2, <4>3
            <6>2. \A v \in Siblings(p) : row[v].order < seen
              BY <1>1, <1>2, <6>1 DEF RaceInv, RaceFits, Stale
            <6> QED
              BY <2>2, <5>1, <5>2, <6>2
          <5>3. CASE q # r
            <6>1. q \in Siblings(p) \ ToSet(s) /\ row'[q] = row[q]
              BY <2>2, <4>3, <5>3 DEF Siblings
            <6> QED
              BY <3>2, <3>5, <4>0, <4>3, <5>1, <6>1 DEF RaceFits
          <5> QED
            BY <5>2, <5>3
        <4>4. RaceFits(x, m)'
          <5>1. x.op \notin Inserts /\ x.op # "deleteTrack"
            BY <3>5 DEF Inserts
          <5> QED
            BY <3>5, <4>0, <4>1, <4>3, <5>1 DEF RaceFits
        <4> QED
          BY <3>1, <3>2, <4>4
      <3> QED
        BY <3>3, <3>4, <3>5
    <2>5. ASSUME NEW d \in Callers \ {c} PROVE RaceFits(call[d], crossed[d])'
      <3>1. CASE call[d].op \in RaceOps /\ call[d].pc = "write"
        BY <2>4, <3>1
      <3>2. CASE ~(call[d].op \in RaceOps /\ call[d].pc = "write")
        BY <2>1, <3>2 DEF RaceFits, RaceOps, Sees
      <3> QED
        BY <3>1, <3>2
    <2> QED
      BY <2>1, <2>5 DEF RaceInv, RaceFits
  <1> QED
    BY <1>2, <1>3, <1>4 DEF Rows

\* The rows of a list are moved.
LEMMA RaceMoves ==
  ASSUME CatalogueSound, RaceInv, NEW c \in Callers, MoveRows(c)
  PROVE RaceInv'
  <1>0. TablesSound
    BY DEF CatalogueSound
  <1>1. PICK p, s : p = call[c].arg.of /\ s = call[c].arg.order
    OBVIOUS
  <1>2. /\ call[c].op = "reorder" /\ call[c].pc = "write" /\ p \in Parents /\ s \in Seq(Rows)
        /\ \A i, j \in DOMAIN s : s[i] = s[j] => i = j
        /\ UNCHANGED <<case, deleted, department, track, skill, holdings, raced>>
        /\ \/ \E result \in {"missing", "clash"} : End(c, result, {<<"reorder", p>>}) /\ UNCHANGED <<row, asked>>
           \/ /\ End(c, None, {<<"reorder", p>>})
              /\ \A i \in DOMAIN s : row[s[i]] # None /\ row[s[i]].of = p
              /\ row' \in [Rows -> ListRow \cup {None}]
              /\ \A r \in Rows \ ToSet(s) : row'[r] = row[r]
              /\ \A i \in DOMAIN s : LET r == s[i] IN
                   row'[r] = [of |-> p, order |-> i - 1, on |-> row[r].on, skill |-> row[r].skill]
    BY <1>1, MoveRowsDoes
  <1>3. CASE \E result \in {"missing", "clash"} : End(c, result, {<<"reorder", p>>})
        /\ UNCHANGED <<row, asked>>
    <2>1. call'[c].pc = "idle" /\ \A d \in Callers \ {c} : Sees(c, d, {})
      BY <1>3, EndDoes, CatalogueAssumption DEF CatalogueSound, CallsSound
    <2>2. KnownStay /\ \A q : OrdersStay(q)
      BY <1>2, <1>3 DEF KnownStay, Known, There, OrdersStay
    <2> QED
      BY <1>2, <2>1, <2>2, RaceKeeps DEF Sees, holdings
  <1>4. CASE /\ End(c, None, {<<"reorder", p>>})
             /\ \A i \in DOMAIN s : row[s[i]] # None /\ row[s[i]].of = p
             /\ row' \in [Rows -> ListRow \cup {None}]
             /\ \A r \in Rows \ ToSet(s) : row'[r] = row[r]
             /\ \A i \in DOMAIN s : LET r == s[i] IN
                  row'[r] = [of |-> p, order |-> i - 1, on |-> row[r].on, skill |-> row[r].skill]
    <2>1. call'[c].pc = "idle" /\ \A d \in Callers \ {c} : Sees(c, d, {<<"reorder", p>>})
      BY <1>4, EndDoes DEF CatalogueSound, CallsSound
    <2>2. ASSUME NEW i \in DOMAIN s PROVE row'[s[i]].of = p /\ row'[s[i]].order = i - 1
      <3>1. row'[s[i]] = [of |-> p, order |-> i - 1, on |-> row[s[i]].on, skill |-> row[s[i]].skill]
        BY <1>4
      <3> QED
        BY <3>1
    <2>3. \A i \in DOMAIN s : row'[s[i]] # None
      <3>1. ASSUME NEW i \in DOMAIN s PROVE row'[s[i]] \in ListRow
        <4>1. row'[s[i]] = [of |-> p, order |-> i - 1, on |-> row[s[i]].on, skill |-> row[s[i]].skill]
          BY <1>4
        <4>2. s[i] \in Rows /\ row[s[i]] # None /\ i - 1 \in Nat
          BY <1>2, <1>4
        <4> QED
          BY <1>0, <1>2, <4>1, <4>2, RowIs DEF ListRow
      <3> QED
        BY <3>1, CatalogueAssumption
    <2>4. \A r \in Rows : /\ row'[r] # None <=> row[r] # None
                          /\ row'[r] # None => row'[r].of = row[r].of
      BY <1>4, <2>2, <2>3 DEF ToSet
    <2>5. KnownStay
      BY <1>2, <2>4 DEF KnownStay, Known, There, Parents, Rows
    <2>6. Siblings(p)' = Siblings(p)
      BY <2>4 DEF Siblings
    <2>7. ASSUME NEW d \in Callers \ {c}, call[d].op \in RaceOps, call[d].pc = "write" PROVE RaceFits(call[d], crossed[d])'
      <3>1. PICK x, w, m : x = call[d] /\ w = crossed[d] /\ m = crossed'[d]
        OBVIOUS
      <3>2. call'[d] = x /\ m = w \cup {<<"reorder", p>>} /\ RaceFits(x, w) /\ CallTyped(x) /\ x.pc = "write"
        BY <2>1, <2>7, <3>1 DEF Sees, RaceInv, CatalogueSound
      <3>3. CASE x.op \in Inserts \cup {"reorder"} => x.arg.of # p
        <4>1. x.op \in Inserts \cup {"reorder"} => OrdersStay(x.arg.of)
          BY <1>4, <2>2, <3>3 DEF OrdersStay, ToSet
        <4>2. RaceFits(x, m)'
          BY <1>2, <2>5, <3>2, <4>1, StillRaces DEF holdings
        <4> QED
          BY <3>1, <3>2, <4>2
      <3>4. CASE x.op \in Inserts /\ x.arg.of = p
        <4>1. Known(p)' /\ x.seen \in Nat
          BY <1>2, <2>5, <3>2, <3>4 DEF KnownStay, Known, RaceFits, CallTyped, Inserts
        <4>2. ASSUME <<"insert", p>> \notin m, NEW r \in Siblings(p)' PROVE row'[r].order < x.seen
          <5>1. \A q \in Siblings(p) : row[q].order < x.seen
            BY <3>2, <3>4, <4>2 DEF RaceFits
          <5>2. CASE r \notin ToSet(s)
            BY <1>4, <2>6, <4>2, <5>1, <5>2 DEF Siblings
          <5>3. CASE r \in ToSet(s)
            <6>1. PICK i \in DOMAIN s : r = s[i]
              BY <5>3 DEF ToSet
            <6>2. \A j \in DOMAIN s : row[s[j]].order < x.seen
              BY <1>2, <1>4, <5>1 DEF Siblings
            <6>3. Len(s) <= x.seen
              BY <1>0, <1>2, <1>4, <4>1, <6>2, OrdersNeedRoom
            <6>4. i \in 1 .. Len(s) /\ row'[r].order = i - 1
              BY <1>2, <2>2, <6>1
            <6> QED
              BY <1>2, <4>1, <6>3, <6>4
          <5> QED
            BY <5>2, <5>3
        <4>3. RaceFits(x, m)'
          <5>1. x.op # "reorder" /\ x.op # "deleteTrack"
            BY <3>4 DEF Inserts
          <5> QED
            BY <3>4, <4>1, <4>2, <5>1 DEF RaceFits
        <4> QED
          BY <3>1, <3>2, <4>3
      <3>5. CASE x.op = "reorder" /\ x.arg.of = p
        <4>1. Known(p)' /\ <<"reorder", p>> \in m
          BY <1>2, <2>5, <3>2, <3>5 DEF KnownStay, Known, RaceFits
        <4>2. <<"insert", p>> \notin m => Siblings(p)' \subseteq ToSet(x.arg.order)
          BY <2>6, <3>2, <3>5 DEF RaceFits
        <4>3. RaceFits(x, m)'
          <5>1. x.op \notin Inserts /\ x.op # "deleteTrack"
            BY <3>5 DEF Inserts
          <5> QED
            BY <3>5, <4>1, <4>2, <5>1 DEF RaceFits
        <4> QED
          BY <3>1, <3>2, <4>3
      <3> QED
        BY <3>3, <3>4, <3>5
    <2>8. ASSUME NEW d \in Callers \ {c} PROVE RaceFits(call[d], crossed[d])'
      <3>1. CASE call[d].op \in RaceOps /\ call[d].pc = "write"
        BY <2>7, <3>1
      <3>2. CASE ~(call[d].op \in RaceOps /\ call[d].pc = "write")
        BY <2>1, <3>2 DEF RaceFits, RaceOps, Sees
      <3> QED
        BY <3>1, <3>2
    <2> QED
      BY <2>1, <2>8 DEF RaceInv, RaceFits
  <1> QED
    BY <1>2, <1>3, <1>4

\* A call that will insert knows an order past its list; one that will move rows lists them all.
LEMMA RaceAsks ==
  ASSUME CatalogueSound, RaceInv, NEW c \in Callers,
         \/ CreateLevel(c) \/ CreateOutcome(c) \/ CopyOutcome(c) \/ AddOutcome(c) \/ AddSkill(c) \/ Reorder(c) \/ DeleteTrack(c)
  PROVE RaceInv'
  <1>0. TablesSound
    BY DEF CatalogueSound
  <1>1. ASSUME NEW op \in Inserts, NEW p, NEW on, NEW s, NEW seen \in {NextOrder(p), NextPlanOrder(p)}, There(p),
               Begin(c, op, "write", NewRow(p, on, s), seen), UNCHANGED <<row, track, deleted, assignment>>
        PROVE RaceInv'
    <2>1. PICK arg, y : arg = NewRow(p, on, s) /\ y = [op |-> op, pc |-> "write", arg |-> arg, seen |-> seen, result |-> None]
      OBVIOUS
    <2>2. arg.of = p
      BY <2>1 DEF NewRow
    <2>3. \A r \in Siblings(p) : row[r].order < seen
      BY <1>0, NextOrderIs
    <2>4. RaceFits(y, {})
      BY <1>1, <2>1, <2>2, <2>3 DEF RaceFits, Known, Inserts
    <2>5. Begin(c, op, "write", arg, seen)
      BY <1>1, <2>1
    <2> QED
      BY <1>1, <2>1, <2>4, <2>5, RaceBegins
  <1>2. CASE CreateLevel(c)
    <2>1. PICK t \in Tracks : track[t] # None /\ Begin(c, "createLevel", "write", NewRow(t, TRUE, None), NextOrder(t))
      BY <1>2 DEF CreateLevel
    <2>2. There(t)
      BY <2>1 DEF There
    <2> QED
      BY <1>1, <1>2, <2>1, <2>2 DEF CreateLevel, Inserts, structure, holdings
  <1>3. CASE CreateOutcome(c)
    <2>1. PICK l \in Levels, s \in AnySkill :
            row[l] # None /\ Begin(c, "createOutcome", "write", NewRow(l, TRUE, s), NextOrder(l))
      BY <1>3 DEF CreateOutcome
    <2>2. There(l)
      BY <2>1, CatalogueAssumption DEF There, Rows
    <2> QED
      BY <1>1, <1>3, <2>1, <2>2 DEF CreateOutcome, Inserts, structure, holdings
  <1>4. CASE CopyOutcome(c)
    <2>1. PICK o \in Outcomes :
            row[o] # None /\ Begin(c, "copyOutcome", "write", NewRow(row[o].of, FALSE, row[o].skill), NextOrder(row[o].of))
      BY <1>4 DEF CopyOutcome
    <2>2. PICK p : p = row[o].of
      OBVIOUS
    <2>3. There(p)
      BY <1>0, <2>1, <2>2, CatalogueAssumption DEF There, Rows, TablesSound, Linked
    <2>4. Begin(c, "copyOutcome", "write", NewRow(p, FALSE, row[o].skill), NextOrder(p))
      BY <2>1, <2>2
    <2> QED
      BY <1>1, <1>4, <2>3, <2>4 DEF CopyOutcome, Inserts, structure, holdings
  <1>5. \A a \in Assigned : There(assignment[a].level)
    BY <1>0, CatalogueAssumption
       DEF There, Rows, TablesSound, Linked, Tables, AssignmentRow, Assigned
  <1>6. CASE AddOutcome(c)
    <2>1. PICK a \in Assigned, s \in AnySkill :
            Begin(c, "addOutcome", "write", NewRow(assignment[a].level, FALSE, s), NextPlanOrder(assignment[a].level))
      BY <1>6 DEF AddOutcome
    <2>2. PICK p : p = assignment[a].level
      OBVIOUS
    <2>3. Begin(c, "addOutcome", "write", NewRow(p, FALSE, s), NextPlanOrder(p)) /\ There(p)
      BY <1>5, <2>1, <2>2
    <2> QED
      BY <1>1, <1>6, <2>3 DEF AddOutcome, Inserts, structure, holdings
  <1>7. CASE AddSkill(c)
    <2>0. PICK s : s = Fresh(skill, Skills, 1)[1]
      OBVIOUS
    <2>1. PICK a \in Assigned :
            Begin(c, "addSkill", "write", NewRow(assignment[a].level, FALSE, s), NextPlanOrder(assignment[a].level))
      BY <1>7, <2>0 DEF AddSkill
    <2>2. PICK p : p = assignment[a].level
      OBVIOUS
    <2>3. Begin(c, "addSkill", "write", NewRow(p, FALSE, s), NextPlanOrder(p)) /\ There(p)
      BY <1>5, <2>1, <2>2
    <2>4. UNCHANGED <<row, track, deleted, assignment>>
      BY <1>7 DEF AddSkill, holdings
    <2> QED
      BY <1>1, <2>3, <2>4 DEF Inserts
  <1>8. CASE Reorder(c)
    <2>1. PICK p \in Parents : There(p) /\ \E s \in Requests(p) : Exactly(p, s) /\ Begin(c, "reorder", "write", [of |-> p, order |-> s], None)
      BY <1>8 DEF Reorder
    <2>2. PICK s \in Requests(p) : Exactly(p, s) /\ Begin(c, "reorder", "write", [of |-> p, order |-> s], None)
      BY <2>1
    <2>3. Siblings(p) \subseteq ToSet(s)
      <3>1. PICK n \in Nat : s \in [1 .. n -> Siblings(p)] /\ IsInjective(s)
        <4>1. IsFiniteSet(Siblings(p)) /\ Cardinality(Siblings(p)) \in Nat
          BY SiblingsFinite, FS_CardinalityType
        <4> QED
          BY <4>1 DEF Requests
      <3>2. PICK S, T : S = 1 .. n /\ T = Siblings(p)
        OBVIOUS
      <3>3. s \in Injection(S, T) /\ IsFiniteSet(T)
        BY <3>1, <3>2, SiblingsFinite DEF Injection, IsInjective
      <3>4. Len(s) = n
        BY <3>1
      <3>5. Cardinality(S) = Cardinality(T)
        <4>1. Cardinality(1 .. n) = IF 1 > n THEN 0 ELSE n - 1 + 1
          BY <3>1, FS_Interval
        <4>2. Cardinality(1 .. n) = n
          BY <3>1, <4>1
        <4> QED
          BY <2>2, <3>2, <3>4, <4>2 DEF Exactly
      <3>6. s \in Surjection(S, T)
        BY <3>3, <3>5, FS_Injection
      <3>7. \A r \in T : \E i \in S : s[i] = r
        BY <3>6 DEF Surjection
      <3> QED
        BY <3>1, <3>2, <3>7 DEF ToSet
    <2>4. PICK arg, y : arg = [of |-> p, order |-> s] /\ y = [op |-> "reorder", pc |-> "write", arg |-> arg, seen |-> None, result |-> None]
      OBVIOUS
    <2>5. RaceFits(y, {})
      BY <2>1, <2>3, <2>4 DEF RaceFits, Known, Inserts
    <2>6. Begin(c, "reorder", "write", arg, None)
      BY <2>2, <2>4
    <2>7. UNCHANGED <<row, track, deleted, assignment>>
      BY <1>8 DEF Reorder, structure, holdings
    <2> QED
      BY <2>4, <2>5, <2>6, <2>7, RaceBegins
  <1>9. CASE DeleteTrack(c)
    <2>1. PICK t \in Tracks : ~HasLearnerPlan(t) /\ Begin(c, "deleteTrack", "write", t, None)
      BY <1>9 DEF DeleteTrack
    <2>2. PICK y : y = [op |-> "deleteTrack", pc |-> "write", arg |-> t, seen |-> None, result |-> None]
      OBVIOUS
    <2>3. RaceFits(y, {})
      BY <2>1, <2>2 DEF RaceFits, Inserts, HasLearnerPlan
    <2>4. UNCHANGED <<row, track, deleted, assignment>>
      BY <1>9 DEF DeleteTrack, structure, holdings
    <2> QED
      BY <2>1, <2>2, <2>3, <2>4, RaceBegins
  <1> QED
    BY <1>2, <1>3, <1>4, <1>6, <1>7, <1>8, <1>9

\* Whatever step the catalogue takes.
LEMMA RaceSteps ==
  ASSUME CatalogueSound, RaceInv, NEW c \in Callers, Step(c)
  PROVE RaceInv'
  <1>0. CallsSound /\ TablesSound /\ None \notin RaceOps
    BY OfficeAssumption DEF CatalogueSound, CatalogueCalls, RaceOps, Inserts
  <1>1. CASE \/ CreateLevel(c) \/ CreateOutcome(c) \/ CopyOutcome(c) \/ AddOutcome(c) \/ AddSkill(c) \/ Reorder(c)
             \/ DeleteTrack(c)
    BY <1>1, RaceAsks
  <1>2. CASE InsertRow(c)
    BY <1>2, RaceInserts
  <1>3. CASE MoveRows(c)
    BY <1>3, RaceMoves
  <1>4. CASE InsertFull(c) \/ InsertCopy(c)
    <2>1. UNCHANGED <<row, track, deleted>> \/ (Ages /\ RowsGrow /\ \E t \in Tracks : \E new : TrackAdded(c, t, new))
      <3>1. CASE InsertFull(c)
        BY <3>1, InsertFullDoes
      <3>2. CASE InsertCopy(c)
        BY <3>2, InsertCopyDoes
      <3> QED
        BY <1>4, <3>1, <3>2
    <2>2. Spares(RaceOps)
      BY <1>0, <1>4, StepSpares DEF RaceOps, Inserts
    <2>3. deleted' = deleted /\ assignment' = assignment
      BY <1>4 DEF InsertFull, InsertCopy, holdings
    <2>4. KnownStay
      <3>1. \A t \in Tracks : track[t] # None => track'[t] # None
        BY <2>1, CatalogueAssumption DEF TrackAdded
      <3>2. \A r \in Rows : row[r] # None => row'[r] # None
        BY <2>1 DEF RowsGrow
      <3> QED
        BY <2>3, <3>1, <3>2 DEF KnownStay, Known, There, Parents, Rows
    <2>5. \A p : Known(p) => OrdersStay(p)
      BY <2>1 DEF RowsGrow, Known, OrdersStay
    <2>6. ASSUME NEW d \in Callers, call'[d].op \in RaceOps, call'[d].pc = "write"
          PROVE /\ call'[d] = call[d] /\ crossed[d] \subseteq crossed'[d]
                /\ call[d].op \in Inserts \cup {"reorder"} => OrdersStay(call[d].arg.of)
      <3>1. call'[d] = call[d] /\ crossed[d] \subseteq crossed'[d]
        BY <2>2, <2>6 DEF Spares
      <3>2. call[d].op \in Inserts \cup {"reorder"} => Known(call[d].arg.of)
        BY <2>6, <3>1 DEF RaceInv, RaceFits
      <3> QED
        BY <2>5, <3>1, <3>2
    <2> QED
      BY <2>3, <2>4, <2>6, RaceKeeps
  <1>5. CASE CommitAssignment(c)
    <2>1. KnownStay /\ \A p : OrdersStay(p)
      BY <1>5 DEF CommitAssignment, structure, KnownStay, Known, There, OrdersStay
    <2>2. PICK arg, written :
            /\ arg = call[c].arg
            /\ written = {<<"assign", arg.learner>>}
                           \cup IF Stale(c, <<"achieve", arg.learner>>) THEN {<<"achieve", arg.learner>>} ELSE {}
      OBVIOUS
    <2>3. arg.learner \in Learners /\ call[c].op = "assign"
          /\ (assignment' = assignment \/ End(c, None, written))
      <3>1. LET arg_1 == call[c].arg
                written_1 == {<<"assign", arg_1.learner>>}
                               \cup IF Stale(c, <<"achieve", arg_1.learner>>) THEN {<<"achieve", arg_1.learner>>} ELSE {}
            IN /\ call[c].op = "assign" /\ call[c].pc = "write" /\ arg_1 \in AssignArg /\ call[c].seen \in AssignSeen
               /\ UNCHANGED <<case, deleted, structure, asked>>
               /\ \/ End(c, "referenced", written_1) /\ UNCHANGED <<holdings, raced>>
                  \/ End(c, None, written_1) /\ \E a \in Assignments : Assigns(c, a)
        BY <1>5, CommitDoes
      <3> QED
        BY <2>2, <3>1 DEF AssignArg, holdings
    <2>4. Spares(RaceOps)
      BY <1>0, <1>5, StepSpares DEF RaceOps, Inserts
    <2>5. ASSUME End(c, None, written), NEW d \in Callers, call'[d].op \in RaceOps, call'[d].pc = "write"
          PROVE <<"assign", arg.learner>> \in crossed'[d]
      <3>1. call'[c].pc = "idle" /\ \A e \in Callers \ {c} : Sees(c, e, written)
        BY <1>0, <2>5, EndDoes DEF CallsSound
      <3>2. d # c /\ call[d].pc # "idle"
        BY <2>5, <3>1 DEF Sees
      <3> QED
        BY <2>2, <3>1, <3>2 DEF Sees
    <2> QED
      BY <2>1, <2>3, <2>4, <2>5, RaceKeeps DEF Spares
  <1>6. CASE DeleteTree(c)
    <2>1. PICK result, written : End(c, result, written)
      BY <1>6 DEF DeleteTree
    <2>2. call'[c].pc = "idle" /\ \A d \in Callers \ {c} : call'[d] = call[d] /\ crossed[d] \subseteq crossed'[d]
      BY <1>0, <2>1, EndDoes DEF CallsSound, Sees
    <2>3. KnownStay /\ \A p : OrdersStay(p)
      <3>1. ~InsertRow(c) /\ ~MoveRows(c) /\ ~InsertFull(c) /\ ~InsertCopy(c)
        BY <1>6 DEF DeleteTree, InsertRow, MoveRows, InsertFull, InsertCopy, At, Inserts
      <3> QED
        BY <1>6, <3>1, Calm DEF Step
    <2>4. assignment' = assignment
      BY <1>6 DEF DeleteTree, holdings
    <2> QED
      BY <2>2, <2>3, <2>4, RaceKeeps
  <1>7. ASSUME ~InsertRow(c), ~MoveRows(c), ~InsertFull(c), ~InsertCopy(c), Spares(RaceOps), assignment' = assignment
        PROVE RaceInv'
    <2>1. KnownStay /\ \A p : OrdersStay(p)
      BY <1>7, Calm
    <2> QED
      BY <1>7, <2>1, RaceKeeps DEF Spares
  <1>8. ASSUME ~InsertRow(c), ~MoveRows(c), ~InsertFull(c), ~InsertCopy(c), ~CommitAssignment(c), ~DeleteTree(c),
               ~(\/ CreateLevel(c) \/ CreateOutcome(c) \/ CopyOutcome(c) \/ AddOutcome(c) \/ AddSkill(c) \/ Reorder(c)
                 \/ DeleteTrack(c))
        PROVE RaceInv'
    <2>1. Spares(RaceOps)
      BY <1>0, <1>8, StepSpares DEF RaceOps, Inserts, Step
    <2>2. CASE \/ InsertTrack(c) \/ SaveTrack(c) \/ ToggleTrack(c) \/ ToggleLevel(c) \/ ToggleOutcome(c) \/ RemoveRow(c)
               \/ SaveSkill(c) \/ RemoveSkill(c) \/ RemoveDepartment(c) \/ ToggleDepartment(c)
      BY <1>7, <1>8, <2>1, <2>2
         DEF InsertTrack, SaveTrack, ToggleTrack, ToggleLevel, ToggleOutcome, ToggleRow,
             RemoveRow,
                          SaveSkill, RemoveSkill, RemoveDepartment, ToggleDepartment, holdings
    <2>3. CASE \/ CreateTrack(c) \/ CreateFull(c) \/ UpdateTrack(c) \/ CopyTrack(c) \/ DeleteDepartment(c) \/ DeleteRow(c)
               \/ CreateSkill(c) \/ DeleteSkill(c) \/ Assign(c) \/ PatchOutcomes(c)
      BY <1>7, <1>8, <2>1, <2>3
         DEF CreateTrack, CreateFull, UpdateTrack, CopyTrack, DeleteDepartment, DeleteRow,
                          CreateSkill, DeleteSkill, Assign, PatchOutcomes, holdings
    <2>4. CASE Retire(c) \/ AddCustom(c) \/ RemoveCustom(c) \/ Achieve(c)
      BY <1>7, <1>8, <2>1, <2>4 DEF Retire, AddCustom, RemoveCustom, Achieve, holdings
    <2> QED
      BY <1>8, <2>2, <2>3, <2>4 DEF Step
  <1> QED
    BY <1>1, <1>2, <1>3, <1>4, <1>5, <1>6, <1>8

\* And whatever is done beside it.
LEMMA RaceBeside ==
  ASSUME CatalogueSound, RaceInv, UNCHANGED catalogueVars, Spares(CatalogueCalls)
  PROVE RaceInv'
  <1>1. KnownStay /\ \A p : OrdersStay(p)
    BY DEF catalogueVars, structure, KnownStay, Known, There, OrdersStay
  <1>2. Spares(RaceOps)
    BY DEF Spares, RaceOps, Inserts, CatalogueCalls
  <1> QED
    BY <1>1, <1>2, RaceKeeps DEF catalogueVars, holdings, Spares

\* A step of one call leaves the others as they are.
LEMMA OthersWait ==
  ASSUME CallsSound, NEW c \in Callers, Step(c)
  PROVE \A d \in Callers \ {c} : call'[d] = call[d]
  <1>0. CallsOK
    BY DEF CallsSound
  <1>1. ASSUME NEW op, NEW pc, NEW arg, NEW seen, Begin(c, op, pc, arg, seen) PROVE \A d \in Callers \ {c} : call'[d] = call[d]
    BY <1>0, <1>1, BeginDoes
  <1>2. ASSUME NEW pc, NEW seen, NEW written, Goto(c, pc, seen, written) PROVE \A d \in Callers \ {c} : call'[d] = call[d]
    BY <1>0, <1>2, GotoDoes DEF Sees
  <1>3. ASSUME NEW result, NEW written, End(c, result, written) PROVE \A d \in Callers \ {c} : call'[d] = call[d]
    BY <1>0, <1>3, EndDoes DEF Sees
  <1>4. ASSUME NEW op, NEW written, Atomically(c, op, written) PROVE \A d \in Callers \ {c} : call'[d] = call[d]
    BY <1>4 DEF Atomically
  <1>5. CASE \/ CreateTrack(c) \/ CreateFull(c) \/ UpdateTrack(c) \/ CopyTrack(c) \/ DeleteTrack(c) \/ DeleteDepartment(c)
             \/ CreateLevel(c) \/ CreateOutcome(c) \/ CopyOutcome(c) \/ AddOutcome(c) \/ AddSkill(c) \/ DeleteRow(c)
    BY <1>1, <1>5
       DEF CreateTrack, CreateFull, UpdateTrack, CopyTrack, DeleteTrack, DeleteDepartment,
           CreateLevel,
                      CreateOutcome, CopyOutcome, AddOutcome, AddSkill, DeleteRow
  <1>6. CASE Reorder(c) \/ CreateSkill(c) \/ DeleteSkill(c) \/ Assign(c) \/ PatchOutcomes(c)
    BY <1>1, <1>6 DEF Reorder, CreateSkill, DeleteSkill, Assign, PatchOutcomes
  <1>7. CASE ToggleDepartment(c) \/ ToggleTrack(c) \/ ToggleLevel(c) \/ ToggleOutcome(c) \/ Achieve(c)
    BY <1>4, <1>7 DEF ToggleDepartment, ToggleTrack, ToggleLevel, ToggleOutcome, ToggleRow, Achieve
  <1>8. CASE Retire(c)
    BY <1>2, <1>8 DEF Retire
  <1>9. CASE InsertTrack(c) \/ InsertFull(c) \/ SaveTrack(c) \/ InsertCopy(c) \/ DeleteTree(c) \/ RemoveDepartment(c)
    BY <1>3, <1>9 DEF InsertTrack, InsertFull, SaveTrack, InsertCopy, DeleteTree, RemoveDepartment
  <1>10. CASE InsertRow(c) \/ RemoveRow(c) \/ MoveRows(c) \/ SaveSkill(c) \/ RemoveSkill(c)
    BY <1>3, <1>10 DEF InsertRow, RemoveRow, MoveRows, SaveSkill, RemoveSkill
  <1>11. CASE CommitAssignment(c) \/ AddCustom(c) \/ RemoveCustom(c)
    BY <1>3, <1>11 DEF CommitAssignment, AddCustom, RemoveCustom
  <1> QED
    BY <1>5, <1>6, <1>7, <1>8, <1>9, <1>10, <1>11 DEF Step

\* A call that writes does what it has been called for.
LEMMA WritesOwn ==
  ASSUME NEW c \in Callers, Step(c), call[c].pc = "write"
  PROVE /\ call[c].op = "createFull" => InsertFull(c)
        /\ call[c].op \in Inserts => InsertRow(c)
        /\ call[c].op = "reorder" => MoveRows(c)
        /\ call[c].op = "deleteTrack" => DeleteTree(c)
        /\ call[c].op = "assign" => CommitAssignment(c)
  <1>1. ~(\/ CreateTrack(c) \/ CreateFull(c) \/ UpdateTrack(c) \/ CopyTrack(c) \/ DeleteTrack(c) \/ DeleteDepartment(c)
          \/ CreateLevel(c) \/ CreateOutcome(c) \/ CopyOutcome(c) \/ AddOutcome(c) \/ AddSkill(c) \/ DeleteRow(c))
    BY
       DEF CreateTrack, CreateFull, UpdateTrack, CopyTrack, DeleteTrack, DeleteDepartment,
           CreateLevel,
           CreateOutcome, CopyOutcome, AddOutcome, AddSkill, DeleteRow, Begin, Asked
  <1>2. ~(Reorder(c) \/ CreateSkill(c) \/ DeleteSkill(c) \/ Assign(c) \/ PatchOutcomes(c))
    BY DEF Reorder, CreateSkill, DeleteSkill, Assign, PatchOutcomes, Begin, Asked
  <1>3. ~(ToggleDepartment(c) \/ ToggleTrack(c) \/ ToggleLevel(c) \/ ToggleOutcome(c) \/ Achieve(c) \/ Retire(c))
    BY
       DEF ToggleDepartment, ToggleTrack, ToggleLevel, ToggleOutcome, ToggleRow, Achieve, Retire,
           Atomically, Asked, At
  <1>4. /\ InsertTrack(c) => call[c].op = "createTrack"
        /\ InsertFull(c) => call[c].op = "createFull"
        /\ SaveTrack(c) => call[c].op = "updateTrack"
        /\ InsertCopy(c) => call[c].op = "copyTrack"
        /\ DeleteTree(c) => call[c].op = "deleteTrack"
        /\ RemoveDepartment(c) => call[c].op = "deleteDepartment"
        /\ InsertRow(c) => call[c].op \in Inserts
    BY
       DEF InsertTrack, InsertFull, SaveTrack, InsertCopy, DeleteTree, RemoveDepartment,
           InsertRow, At
  <1>5. /\ RemoveRow(c) => call[c].op \in {"deleteLevel", "deleteOutcome"}
        /\ MoveRows(c) => call[c].op = "reorder"
        /\ SaveSkill(c) => call[c].op = "createSkill"
        /\ RemoveSkill(c) => call[c].op = "deleteSkill"
        /\ CommitAssignment(c) => call[c].op = "assign"
        /\ AddCustom(c) => call[c].op = "addCustom"
        /\ RemoveCustom(c) => call[c].op = "removeCustom"
    BY
       DEF RemoveRow, MoveRows, SaveSkill, RemoveSkill, CommitAssignment, AddCustom, RemoveCustom,
           At
  <1> QED
    BY <1>1, <1>2, <1>3, <1>4, <1>5 DEF Step, Inserts

\* An order is in use, or a track is held, only where somebody else has come between.
LEMMA RefusedInRaces ==
  ASSUME CatalogueSound, RaceInv, NEW c \in Callers, Step(c), call[c].pc = "write"
  PROVE OrdersMeetOnlyInRaces(c) /\ DeleteRefusedForAReason(c)
  <1>0. CallsSound /\ TablesSound /\ Idle.result = None
    BY DEF CatalogueSound, Idle
  <1>1. ASSUME NEW result, NEW written, End(c, result, written)
        PROVE  call'[c].result = result
    <2>1. /\ CallsOK' /\ left' = left
          /\ call'[c].pc = "idle" /\ call'[c].op \in {None, call[c].op}
          /\ result = None => call'[c] = Idle
          /\ result # None => call'[c] = [op |-> call[c].op, pc |-> "idle", arg |-> call[c].arg, seen |-> None, result |-> result]
          /\ crossed'[c] = crossed[c]
          /\ \A d \in Callers \ {c} : Sees(c, d, IF result = None THEN written ELSE {})
      BY <1>0, <1>1, EndDoes DEF CallsSound
    <2>2. CASE result = None
      BY <1>0, <2>1, <2>2
    <2>3. CASE result # None
      BY <2>1, <2>3
    <2> QED
      BY <2>2, <2>3
  <1>2. CASE call[c].op = "createFull"
    <2>1. LET arg == call[c].arg
          IN \/ \E result \in {"clash", "referenced"} :
                  /\ End(c, result, {Renaming})
                  /\ result = "clash" => KeyTaken(arg.key)
             \/ End(c, None, {Renaming})
      BY <1>2, WritesOwn, InsertFullDoes
    <2>2. call'[c].result = "clash" => KeyTaken(call[c].arg.key)
      BY <1>1, <2>1, CatalogueAssumption
    <2> QED
      BY <1>2, <2>2 DEF OrdersMeetOnlyInRaces, DeleteRefusedForAReason, Inserts, At
  <1>3. CASE call[c].op \in Inserts
    <2>1. LET arg == call[c].arg
              seen == call[c].seen
              written == {<<"insert", arg.of>>, <<"outcomes", arg.of>>}
                           \cup IF Stale(c, <<"insert", arg.of>>) THEN {<<"late", arg.of>>} ELSE {}
          IN /\ call[c].op \in Inserts /\ call[c].pc = "write"
             /\ arg.of \in (IF call[c].op = "createLevel" THEN Tracks ELSE Levels) /\ arg.on \in BOOLEAN /\ seen \in Nat
             /\ UNCHANGED <<case, deleted, department, track, skill, holdings, asked, raced>>
             /\ \/ \E result \in {"referenced", "clash"} :
                     /\ End(c, result, written) /\ UNCHANGED row
                     /\ result = "clash" => seen \in Used(arg.of)
                \/ /\ End(c, None, written) /\ There(arg.of) /\ seen \notin Used(arg.of)
                   /\ arg.skill # None => arg.skill \in Skills /\ skill[arg.skill] # None
                   /\ \E r \in (IF call[c].op = "createLevel" THEN Levels ELSE Outcomes) : RowAdded(r, RowAt(arg, seen))
      BY <1>3, WritesOwn, InsertRowDoes
    <2>2. PICK p, n : p = call[c].arg.of /\ n = call[c].seen
      OBVIOUS
    <2>3. call'[c].result = "clash" => n \in Used(p)
      BY <1>1, <2>1, <2>2, CatalogueAssumption
    <2>4. <<"insert", p>> \notin crossed[c] => n \notin Used(p)
      <3>1. SUFFICES ASSUME <<"insert", p>> \notin crossed[c], NEW r \in Siblings(p) PROVE row[r].order # n
        BY DEF Used
      <3>2. row[r].order < n /\ row[r].order \in Nat /\ n \in Nat
        BY <1>0, <1>3, <2>1, <2>2, <3>1, RowIs DEF RaceInv, RaceFits, Siblings
      <3> QED
        BY <3>2
    <2> QED
      BY <1>3, <2>2, <2>3, <2>4
         DEF OrdersMeetOnlyInRaces, DeleteRefusedForAReason, Inserts, At, Stale
  <1>4. CASE call[c].op = "reorder"
    <2>0. PICK p, s : p = call[c].arg.of /\ s = call[c].arg.order
      OBVIOUS
    <2>1. /\ s \in Seq(Rows) /\ \A i, j \in DOMAIN s : s[i] = s[j] => i = j
          /\ \/ \E result \in {"missing", "clash"} :
                  /\ End(c, result, {<<"reorder", p>>})
                  /\ result = "clash" => MeetsUnlisted(p, s) /\ \A i \in DOMAIN s : row[s[i]] # None
             \/ End(c, None, {<<"reorder", p>>})
      BY <1>4, <2>0, WritesOwn, MoveRowsDoes
    <2>2. SUFFICES ASSUME call'[c].result = "clash",
                          <<"late", p>> \notin crossed[c], <<"insert", p>> \notin crossed[c] \/ <<"reorder", p>> \notin crossed[c]
                   PROVE FALSE
      BY <1>4, <2>0 DEF OrdersMeetOnlyInRaces, DeleteRefusedForAReason, Inserts, At, Stale
    <2>3. MeetsUnlisted(p, s) /\ \A i \in DOMAIN s : row[s[i]] # None
      BY <1>1, <2>1, <2>2, CatalogueAssumption
    <2>4. PICK q \in Siblings(p) \ ToSet(s) : row[q].order < Len(s)
      BY <2>3 DEF MeetsUnlisted
    <2>5. \A i \in DOMAIN s : row[s[i]].of = p
      BY <1>4, <2>0, <2>3 DEF CatalogueSound, CallFits
    <2>6. /\ <<"insert", p>> \notin crossed[c] => Siblings(p) \subseteq ToSet(s)
          /\ <<"reorder", p>> \notin crossed[c] =>
               \A u \in Siblings(p) \ ToSet(s), r \in Siblings(p) \cap ToSet(s) : row[r].order < row[u].order
      BY <1>4, <2>0, <2>2 DEF RaceInv, RaceFits
    <2>7. \A i \in DOMAIN s : row[s[i]].order < row[q].order
      BY <2>1, <2>2, <2>3, <2>4, <2>5, <2>6 DEF Siblings, ToSet
    <2>8. row[q].order \in Nat
      BY <1>0, <2>4, RowIs DEF Siblings
    <2>9. Len(s) <= row[q].order
      BY <1>0, <2>1, <2>3, <2>5, <2>7, <2>8, OrdersNeedRoom
    <2> QED
      BY <2>1, <2>4, <2>8, <2>9
  <1>5. CASE call[c].op = "deleteTrack"
    <2>0. PICK t : t = call[c].arg
      OBVIOUS
    <2>1. /\ t \in Tracks
          /\ \/ \E result \in {"missing", "referenced"} :
                  /\ End(c, result, {})
                  /\ result = "referenced" => HeldByAssignment(t) \/ HeldByProgress(t)
             \/ End(c, None, {}) /\ TreeGone(t)
      BY <1>5, <2>0, WritesOwn, DeleteTreeDoes
    <2>2. SUFFICES ASSUME call'[c].result = "referenced", \A learner \in Learners : <<"assign", learner>> \notin crossed[c]
                   PROVE \E a \in Assigned, o \in OutcomesOf(t) : progress[a][o] # None /\ assignment[a].track # t
      BY <1>5, <2>0 DEF OrdersMeetOnlyInRaces, DeleteRefusedForAReason, Inserts, At, Stale
    <2>3. HeldByAssignment(t) \/ HeldByProgress(t)
      BY <1>1, <2>1, <2>2, CatalogueAssumption
    <2>4. \A a \in Assigned : assignment[a].track # t
      BY <1>5, <2>0, <2>2 DEF RaceInv, RaceFits
    <2>5. ~HeldByAssignment(t)
      BY <1>0, <2>4 DEF HeldByAssignment, LevelsOf, Assigned, TablesSound, Linked
    <2>6. PICK o \in OutcomesOf(t) : Holders(o) # {}
      BY <2>3, <2>5 DEF HeldByProgress
    <2>7. PICK a \in Assigned : progress[a][o] # None
      BY <2>6 DEF Holders
    <2> QED
      BY <2>4, <2>7
  <1>6. CASE call[c].op \notin Inserts \cup {"createFull", "reorder", "deleteTrack"}
    BY <1>6 DEF OrdersMeetOnlyInRaces, DeleteRefusedForAReason, At
  <1> QED
    BY <1>2, <1>3, <1>4, <1>5, <1>6

\* A call that is not stepped is not refused.
LEMMA NotRefused ==
  ASSUME CatalogueSound, NEW c \in Callers,
         call[c].op \in CatalogueCalls /\ call[c].pc # "idle" => call'[c] = call[c]
  PROVE OrdersMeetOnlyInRaces(c) /\ DeleteRefusedForAReason(c)
  <1>1. call[c].op \in CatalogueCalls /\ call[c].pc = "write" => call'[c].result = None
    BY DEF CatalogueSound, CallTyped
  <1>2. None # "clash" /\ None # "referenced"
    BY CatalogueAssumption
  <1>3. Inserts \cup {"createFull", "reorder", "deleteTrack"} \subseteq CatalogueCalls
    BY DEF Inserts, CatalogueCalls
  <1> QED
    BY <1>1, <1>2, <1>3 DEF OrdersMeetOnlyInRaces, DeleteRefusedForAReason, At

\* An insert, a reorder or the deletion of a track is refused only where it has been overtaken, or a learner
\* of another track holds on to it, whatever calls run together (outcome.service.ts, level.repository.ts, track.service.ts).
THEOREM RefusalsNeedARace == OfficeSpec => RefusedOnlyInRaces
  <1>1. OfficeInit => CatalogueSound /\ RaceInv
    BY CatalogueStartsSound, RaceStart DEF OfficeInit
  <1>2. CatalogueSound /\ RaceInv /\ [OfficeNext]_officeVars => CatalogueSound' /\ RaceInv'
    <2>1. SUFFICES ASSUME CatalogueSound, RaceInv, [OfficeNext]_officeVars
                   PROVE CatalogueSound' /\ RaceInv'
      OBVIOUS
    <2>2. CASE \E c \in Callers : Step(c)
      BY <2>1, <2>2, CatalogueStaysSound, RaceSteps
    <2>3. CASE UNCHANGED catalogueVars /\ Spares(CatalogueCalls)
      BY <2>1, <2>3, CatalogueStaysSound, RaceBeside
    <2> QED
      BY <2>1, <2>2, <2>3, CatalogueInOffice DEF CatalogueSound
  <1>3. CatalogueSound /\ RaceInv /\ [OfficeNext]_officeVars =>
          [\A c \in Callers : OrdersMeetOnlyInRaces(c) /\ DeleteRefusedForAReason(c)]_vars
    <2>1. SUFFICES ASSUME CatalogueSound, RaceInv, [OfficeNext]_officeVars, NEW d \in Callers
                   PROVE OrdersMeetOnlyInRaces(d) /\ DeleteRefusedForAReason(d)
      OBVIOUS
    <2>2. CASE \E c \in Callers : Step(c)
      <3>1. PICK c \in Callers : Step(c)
        BY <2>2
      <3>2. CASE d = c /\ call[c].pc = "write"
        BY <2>1, <3>1, <3>2, RefusedInRaces
      <3>3. CASE d # c
        BY <2>1, <3>1, <3>3, OthersWait, NotRefused DEF CatalogueSound
      <3>4. CASE call[d].pc # "write"
        BY <3>4 DEF OrdersMeetOnlyInRaces, DeleteRefusedForAReason, At
      <3> QED
        BY <3>2, <3>3, <3>4
    <2>3. CASE UNCHANGED catalogueVars /\ Spares(CatalogueCalls)
      BY <2>1, <2>3, NotRefused DEF Spares
    <2> QED
      BY <2>1, <2>2, <2>3, CatalogueInOffice DEF CatalogueSound
  <1> QED
    BY <1>1, <1>2, <1>3, PTL DEF OfficeSpec, RefusedOnlyInRaces

-----------------------------------------------------------------------------
(* What is carried forward: an assign under way knows the outcomes its     *)
(* level offers and what its learner has achieved, unless it has been told *)
(* of a change.                                                            *)

CarryFits(x, written) == x.op = "assign" /\ x.pc # "idle" =>
  /\ <<"outcomes", x.arg.level>> \notin written => Enabled(x.arg.level) = {o \in x.seen.enabled : row[o] # None}
  /\ <<"achieve", x.arg.learner>> \notin written => x.seen.achieved = AchievedEver(x.arg.learner)
CarryInv == \A d \in Callers : CarryFits(call[d], crossed[d])

\* What is deleted does not come back.
Settled == \A r \in Rows \cap deleted : row'[r] = None
\* A level offers what it has offered, as far as it is there.
OffersStay(l) == \A o \in Outcomes :
  (row'[o] # None /\ row'[o].of = l /\ row'[o].on) <=> (row'[o] # None /\ row[o] # None /\ row[o].of = l /\ row[o].on)
\* A learner has achieved what there was.
Achieves(as, pr, learner, o) ==
  \E a \in Assignments : as[a] # None /\ as[a].learner = learner /\ pr[a][o] # None /\ pr[a][o].status = "ACHIEVED"
AchievedStays(learner) == \A o \in Outcomes :
  Achieves(assignment', progress', learner, o) <=> Achieves(assignment, progress, learner, o)

\* At the start nobody has called.
LEMMA CarryStart ==
  ASSUME Init PROVE CarryInv
  <1>1. \A c \in Callers : call[c] = Idle
    BY CallsStart DEF Init
  <1>2. Idle.pc = "idle"
    BY DEF Idle
  <1> QED
    BY <1>1, <1>2 DEF CarryInv, CarryFits

\* An assign that still knows, or is told.
LEMMA StillCarries ==
  ASSUME NEW x, NEW w, NEW m, CallTyped(x), CallFits(x), CarryFits(x, w), w \subseteq m, Settled,
         x.op = "assign" /\ x.pc # "idle" =>
           /\ <<"outcomes", x.arg.level>> \in m \/ OffersStay(x.arg.level)
           /\ <<"achieve", x.arg.learner>> \in m \/ AchievedStays(x.arg.learner)
  PROVE CarryFits(x, m)'
  <1>1. SUFFICES ASSUME x.op = "assign", x.pc # "idle" PROVE CarryFits(x, m)'
    BY DEF CarryFits
  <1>2. PICK l, learner, enabled, achieved :
          l = x.arg.level /\ learner = x.arg.learner /\ enabled = x.seen.enabled /\ achieved = x.seen.achieved
    OBVIOUS
  <1>3. enabled \subseteq Outcomes /\ \A o \in enabled : row[o] # None \/ o \in deleted
    BY <1>1, <1>2 DEF CallTyped, CallFits, AssignSeen
  <1>4. ASSUME <<"outcomes", l>> \notin m PROVE Enabled(l)' = {o \in enabled : row'[o] # None}
    <2>1. Enabled(l) = {o \in enabled : row[o] # None} /\ OffersStay(l)
      BY <1>1, <1>2, <1>4 DEF CarryFits
    <2>2. \A o \in enabled : row'[o] # None => row[o] # None
      BY <1>3 DEF Settled, Rows
    <2> QED
      BY <1>3, <2>1, <2>2 DEF Enabled, OffersStay
  <1>5. ASSUME <<"achieve", learner>> \notin m PROVE achieved = AchievedEver(learner)'
    <2>1. achieved = AchievedEver(learner) /\ AchievedStays(learner)
      BY <1>1, <1>2, <1>5 DEF CarryFits
    <2> QED
      BY <2>1 DEF AchievedEver, AchievedStays, Achieves, Assigned
  <1> QED
    BY <1>2, <1>4, <1>5 DEF CarryFits

\* So a step keeps them all.
LEMMA CarryKeeps ==
  ASSUME CatalogueSound, CarryInv, Settled,
         \A d \in Callers : call'[d].op = "assign" /\ call'[d].pc # "idle" =>
           /\ call'[d] = call[d] /\ crossed[d] \subseteq crossed'[d]
           /\ <<"outcomes", call[d].arg.level>> \in crossed'[d] \/ OffersStay(call[d].arg.level)
           /\ <<"achieve", call[d].arg.learner>> \in crossed'[d] \/ AchievedStays(call[d].arg.learner)
  PROVE CarryInv'
  <1>1. SUFFICES ASSUME NEW d \in Callers PROVE CarryFits(call[d], crossed[d])'
    BY DEF CarryInv
  <1>2. PICK x, w, m : x = call'[d] /\ w = crossed[d] /\ m = crossed'[d]
    OBVIOUS
  <1>3. CASE x.op = "assign" /\ x.pc # "idle"
    <2>1. call[d] = x /\ w \subseteq m /\ CallTyped(x) /\ CallFits(x) /\ CarryFits(x, w)
      BY <1>2, <1>3 DEF CarryInv, CatalogueSound
    <2>2. /\ <<"outcomes", x.arg.level>> \in m \/ OffersStay(x.arg.level)
          /\ <<"achieve", x.arg.learner>> \in m \/ AchievedStays(x.arg.learner)
      BY <1>2, <1>3, <2>1
    <2>3. CarryFits(x, m)'
      BY <2>1, <2>2, StillCarries
    <2> QED
      BY <1>2, <2>3
  <1>4. CASE ~(x.op = "assign" /\ x.pc # "idle")
    BY <1>2, <1>4 DEF CarryFits
  <1> QED
    BY <1>3, <1>4

\* No outcome is added, moved or switched; some may go.
OutcomesShrink ==
  /\ \A r \in Rows : row'[r] # None => row[r] # None
  /\ \A o \in Outcomes : row'[o] # None => row'[o].of = row[o].of /\ row'[o].on = row[o].on

\* Then all levels offer what they have offered.
LEMMA ShrinkingOffers ==
  ASSUME TablesSound, OutcomesShrink
  PROVE Settled /\ \A l : OffersStay(l)
  <1>1. \A r \in Rows \cap deleted : row[r] = None
    BY DEF TablesSound, Present
  <1> QED
    BY <1>1 DEF OutcomesShrink, Settled, OffersStay, Rows

\* Most steps add, move and switch no outcome.
LEMMA MostShrink ==
  ASSUME CatalogueSound, NEW c \in Callers, Step(c), ~InsertRow(c), ~InsertFull(c), ~InsertCopy(c), ~ToggleOutcome(c)
  PROVE OutcomesShrink
  <1>0. TablesSound
    BY DEF CatalogueSound
  <1>1. CASE row' = row
    BY <1>1 DEF OutcomesShrink
  <1>2. CASE \/ CreateTrack(c) \/ CreateFull(c) \/ UpdateTrack(c) \/ CopyTrack(c) \/ DeleteTrack(c) \/ DeleteDepartment(c)
             \/ CreateLevel(c) \/ CreateOutcome(c) \/ CopyOutcome(c) \/ AddOutcome(c) \/ DeleteRow(c) \/ Reorder(c)
             \/ CreateSkill(c) \/ DeleteSkill(c) \/ Assign(c) \/ PatchOutcomes(c)
    <2>1. row' = row
      BY <1>2
         DEF CreateTrack, CreateFull, UpdateTrack, CopyTrack, DeleteTrack, DeleteDepartment,
             CreateLevel, CreateOutcome,
                  CopyOutcome, AddOutcome, DeleteRow, Reorder, CreateSkill, DeleteSkill, Assign, PatchOutcomes, structure
    <2> QED
      BY <1>1, <2>1
  <1>3. CASE \/ RemoveDepartment(c) \/ ToggleDepartment(c) \/ ToggleTrack(c) \/ AddSkill(c) \/ SaveSkill(c) \/ InsertTrack(c)
             \/ SaveTrack(c) \/ Retire(c) \/ CommitAssignment(c) \/ AddCustom(c) \/ RemoveCustom(c) \/ Achieve(c)
    <2>1. row' = row
      BY <1>3
         DEF RemoveDepartment, ToggleDepartment, ToggleTrack, AddSkill, SaveSkill, InsertTrack,
             SaveTrack, Retire,
                  CommitAssignment, AddCustom, RemoveCustom, Achieve, structure
    <2> QED
      BY <1>1, <2>1
  <1>4. CASE ToggleLevel(c)
    <2>1. PICK l \in Levels : row[l] # None /\ row' = [row EXCEPT ![l].on = ~@]
      BY <1>4 DEF ToggleLevel, ToggleRow
    <2>2. \A r \in Rows : r # l => row'[r] = row[r]
      BY <1>0, <2>1 DEF TablesSound, Tables
    <2> QED
      BY <2>1, <2>2, CatalogueAssumption DEF OutcomesShrink, Rows
  <1>5. CASE RemoveRow(c)
    <2>1. PICK r : r = call[c].arg
      OBVIOUS
    <2>2. row' = row \/ row' = [row EXCEPT ![r] = None]
      <3>1. PICK result : result = FirstOf(<<Problem(row[r] = None, "missing"), Problem(InUse(r), "referenced")>>)
        OBVIOUS
      <3>2. row' = IF result = None THEN [row EXCEPT ![r] = None] ELSE row
        BY <1>5, <2>1, <3>1 DEF RemoveRow
      <3> QED
        BY <3>2
    <2>3. r \in Rows
      BY <1>5, <2>1 DEF RemoveRow, At, CatalogueSound, CallTyped, Rows
    <2>4. \A q \in Rows : row'[q] = row[q] \/ row'[q] = None
      BY <1>0, <2>2, <2>3 DEF TablesSound, Tables
    <2> QED
      BY <2>4 DEF OutcomesShrink, Rows
  <1>6. CASE MoveRows(c)
    <2>1. PICK p, s : p = call[c].arg.of /\ s = call[c].arg.order
      OBVIOUS
    <2>2. \/ row' = row
          \/ /\ \A i \in DOMAIN s : row[s[i]] # None /\ row[s[i]].of = p
             /\ \A r \in Rows \ ToSet(s) : row'[r] = row[r]
             /\ \A i \in DOMAIN s : LET r == s[i] IN
                  row'[r] = [of |-> p, order |-> i - 1, on |-> row[r].on, skill |-> row[r].skill]
      BY <1>6, <2>1, MoveRowsDoes
    <2>3. ASSUME \A i \in DOMAIN s : row[s[i]] # None /\ row[s[i]].of = p,
                 \A r \in Rows \ ToSet(s) : row'[r] = row[r],
                 \A i \in DOMAIN s : LET r == s[i] IN
                   row'[r] = [of |-> p, order |-> i - 1, on |-> row[r].on, skill |-> row[r].skill]
          PROVE OutcomesShrink
      <3>1. ASSUME NEW i \in DOMAIN s
            PROVE  row[s[i]] # None /\ row'[s[i]].of = row[s[i]].of /\ row'[s[i]].on = row[s[i]].on
        <4>1. PICK r, old, new : r = s[i] /\ old = row[r] /\ new = row'[r]
          OBVIOUS
        <4>2. old # None /\ old.of = p /\ new = [of |-> p, order |-> i - 1, on |-> old.on, skill |-> old.skill]
          BY <2>3, <3>1, <4>1
        <4> QED
          BY <4>1, <4>2
      <3>2. \A r \in ToSet(s) : row[r] # None /\ row'[r].of = row[r].of /\ row'[r].on = row[r].on
        BY <3>1 DEF ToSet
      <3> QED
        BY <2>3, <3>2 DEF OutcomesShrink, Rows
    <2> QED
      BY <1>1, <2>2, <2>3
  <1>7. CASE RemoveSkill(c)
    <2>1. PICK s : s = call[c].arg
      OBVIOUS
    <2>2. row' = [r \in Rows |-> IF row[r] # None /\ row[r].skill = s THEN [row[r] EXCEPT !.skill = None] ELSE row[r]]
      BY <1>7, <2>1 DEF RemoveSkill
    <2>3. \A x \in ListRow : [x EXCEPT !.skill = None] \in ListRow /\ [x EXCEPT !.skill = None].of = x.of
                             /\ [x EXCEPT !.skill = None].on = x.on
      BY DEF ListRow
    <2>4. \A r \in Rows : row'[r] # None => row[r] # None /\ row'[r].of = row[r].of /\ row'[r].on = row[r].on
      BY <1>0, <2>2, <2>3, RowIs
    <2> QED
      BY <2>4 DEF OutcomesShrink, Rows
  <1>8. CASE DeleteTree(c)
    <2>1. PICK t : t = call[c].arg
      OBVIOUS
    <2>2. row' = row \/ TreeGone(t)
      BY <1>8, <2>1, DeleteTreeDoes
    <2>3. TreeGone(t) => OutcomesShrink
      BY DEF TreeGone, OutcomesShrink, Rows
    <2> QED
      BY <1>1, <2>2, <2>3
  <1> QED
    BY <1>2, <1>3, <1>4, <1>5, <1>6, <1>7, <1>8 DEF Step

\* A step that leaves all progress alone.
LEMMA SameAchieved ==
  ASSUME UNCHANGED holdings PROVE \A learner : AchievedStays(learner)
  BY DEF holdings, AchievedStays

\* An assign begins with what there is.
LEMMA CarryBegins ==
  ASSUME CatalogueSound, CarryInv, NEW c \in Callers, Assign(c)
  PROVE CarryInv'
  <1>1. PICK learner, l, arg, seen :
          /\ learner \in Learners /\ l \in Levels
          /\ arg = [learner |-> learner, track |-> row[l].of, level |-> l]
          /\ seen = [enabled |-> Enabled(l), achieved |-> AchievedEver(learner), retired |-> {}]
          /\ Begin(c, "assign", "retire", arg, seen)
    BY DEF Assign
  <1>2. UNCHANGED <<deleted, row, holdings>>
    BY DEF Assign, structure
  <1>3. /\ call'[c] = [op |-> "assign", pc |-> "retire", arg |-> arg, seen |-> seen, result |-> None]
        /\ crossed'[c] = {}
        /\ \A d \in Callers \ {c} : call'[d] = call[d] /\ crossed'[d] = crossed[d]
    <2>1. Begin(c, "assign", "retire", arg, seen) /\ CallsOK
      BY <1>1 DEF CatalogueSound, CallsSound
    <2> QED
      BY <2>1, BeginDoes
  <1>4. \A x, w : CarryFits(x, w) => CarryFits(x, w)'
    BY <1>2 DEF CarryFits, Enabled, AchievedEver, Assigned, holdings
  <1>5. PICK y : y = [op |-> "assign", pc |-> "retire", arg |-> arg, seen |-> seen, result |-> None]
    OBVIOUS
  <1>6. CarryFits(y, {})
    <2>1. Enabled(l) = {o \in Enabled(l) : row[o] # None}
      BY DEF Enabled
    <2>2. y.arg.level = l /\ y.arg.learner = learner /\ y.seen.enabled = Enabled(l) /\ y.seen.achieved = AchievedEver(learner)
      BY <1>1, <1>5
    <2> QED
      BY <2>1, <2>2 DEF CarryFits
  <1>7. CarryFits(call[c], crossed[c])'
    BY <1>3, <1>4, <1>5, <1>6
  <1>8. ASSUME NEW d \in Callers \ {c} PROVE CarryFits(call[d], crossed[d])'
    <2>1. PICK x, w : x = call[d] /\ w = crossed[d]
      OBVIOUS
    <2>2. CarryFits(x, w)'
      BY <1>4, <2>1 DEF CarryInv
    <2> QED
      BY <1>3, <2>1, <2>2
  <1> QED
    BY <1>7, <1>8 DEF CarryInv

\* And goes on with it.
LEMMA CarryGoesOn ==
  ASSUME CatalogueSound, CarryInv, NEW c \in Callers, Retire(c)
  PROVE CarryInv'
  <1>1. PICK x, w, old, seen : /\ x = call[c] /\ w = crossed[c] /\ old = call[c].seen
                               /\ seen = [old EXCEPT !.retired = Active(call[c].arg.learner)]
    OBVIOUS
  <1>2. Goto(c, "write", seen, {}) /\ x.op = "assign" /\ x.pc = "retire"
    BY <1>1 DEF Retire, At
  <1>3. UNCHANGED <<row, holdings>>
    BY DEF Retire, structure
  <1>4. seen.enabled = old.enabled /\ seen.achieved = old.achieved
    <2>1. old \in AssignSeen
      BY <1>1, <1>2 DEF CatalogueSound, CallTyped
    <2> QED
      BY <1>1, <2>1 DEF AssignSeen
  <1>5. /\ call'[c] = [op |-> call[c].op, pc |-> "write", arg |-> call[c].arg, seen |-> seen, result |-> call[c].result]
        /\ crossed'[c] = crossed[c]
        /\ \A d \in Callers \ {c} : Sees(c, d, {})
    BY <1>2, GotoDoes DEF CatalogueSound, CallsSound
  <1>6. \A y, m : CarryFits(y, m) => CarryFits(y, m)'
    BY <1>3 DEF CarryFits, Enabled, AchievedEver, Assigned, holdings
  <1>7. PICK y : y = [op |-> x.op, pc |-> "write", arg |-> x.arg, seen |-> seen, result |-> x.result]
    OBVIOUS
  <1>8. CarryFits(y, w)
    <2>1. CarryFits(x, w)
      BY <1>1 DEF CarryInv
    <2>2. y.op = x.op /\ y.arg = x.arg /\ y.seen = seen
      BY <1>7
    <2>3. x.op = "assign" /\ x.pc # "idle" /\ x.seen = old
      BY <1>1, <1>2
    <2> QED
      BY <1>4, <2>1, <2>2, <2>3 DEF CarryFits
  <1>9. CarryFits(call[c], crossed[c])'
    BY <1>1, <1>5, <1>6, <1>7, <1>8
  <1>10. ASSUME NEW d \in Callers \ {c} PROVE CarryFits(call[d], crossed[d])'
    <2>1. PICK z, m : z = call[d] /\ m = crossed[d]
      OBVIOUS
    <2>2. CarryFits(z, m)'
      BY <1>6, <2>1 DEF CarryInv
    <2>3. call'[d] = z /\ crossed'[d] = m
      BY <1>5, <2>1 DEF Sees
    <2> QED
      BY <2>2, <2>3
  <1> QED
    BY <1>9, <1>10 DEF CarryInv

\* An outcome is inserted or switched: those on its level are told.
LEMMA OutcomesChange ==
  ASSUME CatalogueSound, CarryInv, NEW c \in Callers, InsertRow(c) \/ ToggleOutcome(c)
  PROVE CarryInv'
  <1>0. TablesSound /\ CallsSound /\ None \notin {"assign"}
    BY OfficeAssumption DEF CatalogueSound, CatalogueCalls
  <1>1. Spares({"assign"})
    <2>1. CASE InsertRow(c)
      BY <1>0, <2>1, StepSpares DEF Inserts
    <2>2. CASE ToggleOutcome(c)
      BY <1>0, <2>2, StepSpares
    <2> QED
      BY <2>1, <2>2
  <1>2. holdings' = holdings /\ deleted' = deleted
    BY DEF InsertRow, ToggleOutcome, ToggleRow, holdings
  <1>3. ASSUME row' = row PROVE CarryInv'
    <2>1. OutcomesShrink
      BY <1>3 DEF OutcomesShrink
    <2> QED
      BY <1>0, <1>1, <1>2, <2>1, ShrinkingOffers, SameAchieved, CarryKeeps DEF Spares
  <1>4. ASSUME NEW p, NEW written, <<"outcomes", p>> \in written, Settled, \A l \in Levels : l # p => OffersStay(l),
               \A d \in Callers \ {c} : Sees(c, d, written), call'[c].pc = "idle"
        PROVE CarryInv'
    <2>1. ASSUME NEW d \in Callers, call'[d].op = "assign", call'[d].pc # "idle"
          PROVE  <<"outcomes", call[d].arg.level>> \in crossed'[d] \/ OffersStay(call[d].arg.level)
      <3>1. d # c /\ call'[d] = call[d] /\ crossed'[d] = crossed[d] \cup written
        BY <1>4, <2>1 DEF Sees
      <3>2. call[d].arg.level \in Levels
        BY <2>1, <3>1 DEF CatalogueSound, CallTyped, AssignArg
      <3> QED
        BY <1>4, <3>1, <3>2
    <2> QED
      BY <1>1, <1>2, <1>4, <2>1, SameAchieved, CarryKeeps DEF Spares
  <1>5. CASE InsertRow(c)
    <2>1. PICK arg, seen, written :
            /\ arg = call[c].arg /\ seen = call[c].seen
            /\ written = {<<"insert", arg.of>>, <<"outcomes", arg.of>>}
                           \cup IF Stale(c, <<"insert", arg.of>>) THEN {<<"late", arg.of>>} ELSE {}
      OBVIOUS
    <2>2. row' = row \/ (End(c, None, written) /\ \E r \in Rows : RowAdded(r, RowAt(arg, seen)))
      <3>1. LET arg_1 == call[c].arg
                seen_1 == call[c].seen
                written_1 == {<<"insert", arg_1.of>>, <<"outcomes", arg_1.of>>}
                               \cup IF Stale(c, <<"insert", arg_1.of>>) THEN {<<"late", arg_1.of>>} ELSE {}
            IN \/ UNCHANGED row
               \/ /\ End(c, None, written_1)
                  /\ \E r \in (IF call[c].op = "createLevel" THEN Levels ELSE Outcomes) : RowAdded(r, RowAt(arg_1, seen_1))
        BY <1>5, InsertRowDoes
      <3> QED
        BY <2>1, <3>1 DEF Rows
    <2>3. ASSUME End(c, None, written), NEW r \in Rows, RowAdded(r, RowAt(arg, seen))
          PROVE CarryInv'
      <3>1. call'[c].pc = "idle" /\ \A d \in Callers \ {c} : Sees(c, d, written)
        BY <1>0, <2>3, EndDoes DEF CallsSound
      <3>2. PICK new : new = RowAt(arg, seen)
        OBVIOUS
      <3>3. new.of = arg.of
        BY <3>2 DEF RowAt
      <3>4. r \notin deleted /\ row[r] = None /\ \A q \in Rows : row'[q] = IF q = r THEN new ELSE row[q]
        BY <2>3, <3>2 DEF RowAdded
      <3>5. \A q \in Rows \cap deleted : row[q] = None
        BY <1>0 DEF TablesSound, Present
      <3>6. Settled
        BY <3>4, <3>5 DEF Settled
      <3>7. \A l \in Levels : l # arg.of => OffersStay(l)
        BY <3>3, <3>4 DEF OffersStay, Rows
      <3>8. <<"outcomes", arg.of>> \in written
        BY <2>1
      <3> QED
        BY <1>4, <3>1, <3>6, <3>7, <3>8
    <2> QED
      BY <1>3, <2>2, <2>3
  <1>6. CASE ToggleOutcome(c)
    <2>1. PICK r \in Outcomes : row[r] # None /\ row' = [row EXCEPT ![r].on = ~@]
                                /\ Atomically(c, "toggle", {<<"outcomes", row[r].of>>})
      BY <1>6 DEF ToggleOutcome, ToggleRow
    <2>2. r \in Rows
      BY DEF Rows
    <2>3. row'[r] \in ListRow /\ row'[r].of = row[r].of
      BY <1>0, <2>1, <2>2, RowIs DEF TablesSound, Tables, ListRow
    <2>4. \A q \in Rows : q # r => row'[q] = row[q]
      BY <1>0, <2>1 DEF TablesSound, Tables
    <2>5. \A q \in Rows \cap deleted : row[q] = None
      BY <1>0 DEF TablesSound, Present
    <2>6. Settled
      BY <2>1, <2>4, <2>5 DEF Settled
    <2>7. \A l \in Levels : l # row[r].of => OffersStay(l)
      BY <2>1, <2>3, <2>4 DEF OffersStay, Rows
    <2>8. call'[c].pc = "idle" /\ \A d \in Callers \ {c} : Sees(c, d, {<<"outcomes", row[r].of>>})
      <3>1. call[c].pc = "idle"
        BY <2>1 DEF Atomically, Asked
      <3> QED
        BY <1>0, <2>1, <3>1, AtomicallyDoes DEF CallsSound
    <2> QED
      BY <1>4, <2>6, <2>7, <2>8
  <1> QED
    BY <1>5, <1>6

\* A tree of rows is added on levels that are new.
LEMMA TreesCarry ==
  ASSUME CatalogueSound, CarryInv, NEW c \in Callers, InsertFull(c) \/ InsertCopy(c)
  PROVE CarryInv'
  <1>0. TablesSound /\ CallsSound /\ None \notin {"assign"}
    BY OfficeAssumption DEF CatalogueSound, CatalogueCalls
  <1>1. Spares({"assign"})
    <2>1. CASE InsertFull(c)
      BY <1>0, <2>1, StepSpares
    <2>2. CASE InsertCopy(c)
      BY <1>0, <2>2, StepSpares
    <2> QED
      BY <2>1, <2>2
  <1>2. holdings' = holdings
    BY DEF InsertFull, InsertCopy, holdings
  <1>3. row' = row \/ (Ages /\ RowsGrow)
    <2>1. CASE InsertFull(c)
      BY <2>1, InsertFullDoes
    <2>2. CASE InsertCopy(c)
      BY <2>2, InsertCopyDoes
    <2> QED
      BY <2>1, <2>2
  <1>4. CASE row' = row
    <2>1. OutcomesShrink
      BY <1>4 DEF OutcomesShrink
    <2> QED
      BY <1>0, <1>1, <1>2, <2>1, ShrinkingOffers, SameAchieved, CarryKeeps DEF Spares
  <1>5. CASE Ages /\ RowsGrow
    <2>1. \A q \in Rows \cap deleted : row[q] = None
      BY <1>0 DEF TablesSound, Present
    <2>2. Settled
      BY <1>5, <2>1 DEF Settled, Ages
    <2>3. ASSUME NEW l \in Levels, row[l] # None \/ l \in deleted PROVE OffersStay(l)
      <3>1. \A o \in Outcomes : row[o] = None /\ row'[o] # None => row'[o].of # l
        BY <1>5, <2>3, CatalogueAssumption DEF RowsGrow, There, Rows
      <3> QED
        BY <1>5, <3>1 DEF OffersStay, RowsGrow, Rows
    <2>4. ASSUME NEW d \in Callers, call'[d].op = "assign", call'[d].pc # "idle"
          PROVE  OffersStay(call[d].arg.level)
      <3>1. call'[d] = call[d]
        BY <1>1, <2>4 DEF Spares
      <3>2. call[d].arg.level \in Levels /\ (row[call[d].arg.level] # None \/ call[d].arg.level \in deleted)
        BY <2>4, <3>1 DEF CatalogueSound, CallTyped, CallFits, AssignArg
      <3> QED
        BY <2>3, <3>2
    <2> QED
      BY <1>1, <1>2, <2>2, <2>4, SameAchieved, CarryKeeps DEF Spares
  <1> QED
    BY <1>3, <1>4, <1>5

\* What one learner has achieved changes: those who assign to it are told.
LEMMA OneLearnerAchieves ==
  ASSUME CatalogueSound, CarryInv, row' = row, NEW c \in Callers, NEW learner, NEW written,
         <<"achieve", learner>> \in written \/ AchievedStays(learner), \A l \in Learners : l # learner => AchievedStays(l),
         call'[c].pc = "idle", \A d \in Callers \ {c} : Sees(c, d, written)
  PROVE CarryInv'
  <1>1. Settled /\ \A l : OffersStay(l)
    <2>1. OutcomesShrink
      BY DEF OutcomesShrink
    <2> QED
      BY <2>1, ShrinkingOffers DEF CatalogueSound
  <1>2. ASSUME NEW d \in Callers, call'[d].op = "assign", call'[d].pc # "idle"
        PROVE  /\ call'[d] = call[d] /\ crossed[d] \subseteq crossed'[d]
               /\ <<"achieve", call[d].arg.learner>> \in crossed'[d] \/ AchievedStays(call[d].arg.learner)
    <2>1. d # c /\ call'[d] = call[d] /\ crossed'[d] = crossed[d] \cup written
      BY <1>2 DEF Sees
    <2>2. call[d].arg.learner \in Learners
      BY <1>2, <2>1 DEF CatalogueSound, CallTyped, AssignArg
    <2>3. CASE call[d].arg.learner = learner
      BY <2>1, <2>3
    <2>4. CASE call[d].arg.learner # learner
      BY <2>1, <2>2, <2>4 DEF AchievedStays
    <2> QED
      BY <2>1, <2>3, <2>4
  <1> QED
    BY <1>1, <1>2, CarryKeeps

\* An outcome of a learner is judged, or taken back.
LEMMA VerdictsCarry ==
  ASSUME CatalogueSound, CarryInv, NEW c \in Callers, Achieve(c) \/ RemoveCustom(c)
  PROVE CarryInv'
  <1>0. TablesSound /\ CallsSound
        /\ progress \in [Assignments -> [Outcomes -> ProgressRow \cup {None}]]
    BY DEF CatalogueSound, TablesSound, Tables
  <1>1. UNCHANGED <<row, assignment>>
    BY DEF Achieve, RemoveCustom, structure
  <1>2. ASSUME NEW a \in Assignments, \A b \in Assignments \ {a} : progress'[b] = progress[b]
        PROVE  \A l \in Learners : l # assignment[a].learner => AchievedStays(l)
    BY <1>1, <1>2 DEF AchievedStays, Achieves
  <1>3. CASE Achieve(c)
    <2>1. PICK a \in Assigned, o \in Outcomes, status \in {"ACHIEVED", "IN_PROGRESS"} :
            /\ progress' = [progress EXCEPT ![a][o].status = status]
            /\ Atomically(c, "achieve", {<<"achieve", assignment[a].learner>>})
      BY <1>3 DEF Achieve
    <2>2. PICK learner, written : learner = assignment[a].learner /\ written = {<<"achieve", assignment[a].learner>>}
      OBVIOUS
    <2>3. \A b \in Assignments \ {a} : progress'[b] = progress[b]
      BY <1>0, <2>1
    <2>4. call[c].pc = "idle"
      BY <2>1 DEF Atomically, Asked
    <2>5. call'[c].pc = "idle" /\ \A d \in Callers \ {c} : Sees(c, d, written)
      BY <1>0, <2>1, <2>2, <2>4, AtomicallyDoes DEF CallsSound
    <2>6. \A l \in Learners : l # learner => AchievedStays(l)
      BY <1>2, <2>2, <2>3 DEF Assigned
    <2> QED
      BY <1>1, <2>2, <2>5, <2>6, OneLearnerAchieves
  <1>4. CASE RemoveCustom(c)
    <2>1. PICK a, o, result, written :
            /\ a = call[c].arg.assignment /\ o = call[c].arg.outcome
            /\ result = Problem(progress[a][o] = None, "missing") /\ written = {<<"achieve", assignment[a].learner>>}
      OBVIOUS
    <2>2. End(c, result, written) /\ progress' = [progress EXCEPT ![a][o] = None]
      BY <1>4, <2>1 DEF RemoveCustom
    <2>3. a \in Assignments /\ o \in Outcomes
      BY <1>4, <2>1 DEF RemoveCustom, At, CatalogueSound, CallTyped
    <2>4. \A b \in Assignments \ {a} : progress'[b] = progress[b]
      BY <1>0, <2>2, <2>3
    <2>5. PICK learner : learner = assignment[a].learner
      OBVIOUS
    <2>6. \A l \in Learners : l # learner => AchievedStays(l)
      BY <1>2, <2>3, <2>4, <2>5
    <2>7. CallsOK
      BY <1>0 DEF CallsSound
    <2>8. call'[c].pc = "idle" /\ \A d \in Callers \ {c} : Sees(c, d, IF result = None THEN written ELSE {})
      BY <2>2, <2>7, EndDoes
    <2>9. CASE result = None
      BY <1>1, <2>1, <2>5, <2>6, <2>8, <2>9, OneLearnerAchieves
    <2>10. CASE result # None
      <3>1. progress[a][o] = None
        BY <2>1, <2>10 DEF Problem
      <3>2. \A b \in Assignments, q \in Outcomes : progress'[b][q] = progress[b][q]
        BY <1>0, <2>2, <2>3, <3>1
      <3>3. AchievedStays(learner)
        BY <1>1, <3>2 DEF AchievedStays, Achieves
      <3> QED
        BY <1>1, <2>6, <2>8, <2>10, <3>3, OneLearnerAchieves
    <2> QED
      BY <2>9, <2>10
  <1> QED
    BY <1>3, <1>4

\* An outcome that is added is not achieved.
LEMMA AdditionsCarry ==
  ASSUME CatalogueSound, CarryInv, NEW c \in Callers, AddCustom(c)
  PROVE CarryInv'
  <1>0. TablesSound /\ CallsSound
        /\ progress \in [Assignments -> [Outcomes -> ProgressRow \cup {None}]]
    BY DEF CatalogueSound, TablesSound, Tables
  <1>1. UNCHANGED <<row, assignment>>
    BY DEF AddCustom, structure
  <1>2. PICK a, o, A, B, result, new :
          /\ a = call[c].arg.assignment /\ o = call[c].arg.outcome /\ A = (row[o] = None) /\ B = (progress[a][o] # None)
          /\ result = FirstOf(<<Problem(A, "referenced"), Problem(B, "clash")>>)
          /\ new = [status |-> "NOT_STARTED", custom |-> TRUE]
    OBVIOUS
  <1>3. End(c, result, {})
        /\ progress' = IF result = None THEN [progress EXCEPT ![a][o] = new] ELSE progress
    BY <1>2 DEF AddCustom
  <1>4. a \in Assignments /\ o \in Outcomes
    BY <1>2 DEF AddCustom, At, CatalogueSound, CallTyped
  <1>5. result = None => ~B
    <2>1. A \in BOOLEAN /\ B \in BOOLEAN /\ None # "clash" /\ None # "referenced"
      BY <1>2, CatalogueAssumption
    <2>2. FirstOf(<<Problem(A, "referenced"), Problem(B, "clash")>>) = None => ~B
      BY <2>1, TwoProblems
    <2> QED
      BY <1>2, <2>2
  <1>6. \A b \in Assignments, q \in Outcomes :
          progress'[b][q] = progress[b][q] \/ (progress[b][q] = None /\ progress'[b][q] = new)
    BY <1>0, <1>2, <1>3, <1>4, <1>5
  <1>7. new.status # "ACHIEVED"
    BY <1>2
  <1>8. \A l : AchievedStays(l)
    BY <1>1, <1>6, <1>7 DEF AchievedStays, Achieves
  <1>9. call'[c].pc = "idle" /\ \A d \in Callers \ {c} : Sees(c, d, {})
    <2>1. CallsOK
      BY <1>0 DEF CallsSound
    <2>2. call'[c].pc = "idle" /\ \A d \in Callers \ {c} : Sees(c, d, IF result = None THEN {} ELSE {})
      BY <1>3, <2>1, EndDoes
    <2> QED
      BY <2>2
  <1> QED
    BY <1>1, <1>8, <1>9, OneLearnerAchieves

\* What is committed has been achieved before, unless the assign has been told of a change, and tells others.
LEMMA CommitsCarry ==
  ASSUME CatalogueSound, CarryInv, NEW c \in Callers, CommitAssignment(c)
  PROVE CarryInv'
  <1>0. CallsSound
    BY DEF CatalogueSound
  <1>1. PICK arg, seen, written :
          arg = call[c].arg /\ seen = call[c].seen
            /\ written = {<<"assign", arg.learner>>}
                           \cup IF Stale(c, <<"achieve", arg.learner>>) THEN {<<"achieve", arg.learner>>} ELSE {}
    OBVIOUS
  <1>2. /\ call[c].op = "assign" /\ call[c].pc = "write" /\ arg \in AssignArg /\ seen \in AssignSeen
        /\ UNCHANGED <<case, deleted, structure, asked>>
        /\ \/ End(c, "referenced", written) /\ UNCHANGED <<holdings, raced>>
           \/ End(c, None, written) /\ \E a \in Assignments : Assigns(c, a)
    <2>1. LET arg_1 == call[c].arg
              written_1 == {<<"assign", arg_1.learner>>}
                             \cup IF Stale(c, <<"achieve", arg_1.learner>>) THEN {<<"achieve", arg_1.learner>>} ELSE {}
          IN /\ call[c].op = "assign" /\ call[c].pc = "write" /\ arg_1 \in AssignArg /\ call[c].seen \in AssignSeen
             /\ UNCHANGED <<case, deleted, structure, asked>>
             /\ \/ End(c, "referenced", written_1) /\ UNCHANGED <<holdings, raced>>
                \/ End(c, None, written_1) /\ \E a \in Assignments : Assigns(c, a)
      BY CommitDoes
    <2> QED
      BY <1>1, <2>1
  <1>3. row' = row
    BY <1>2 DEF structure
  <1>4. CASE End(c, "referenced", written) /\ UNCHANGED <<holdings, raced>>
    <2>1. call'[c].pc = "idle" /\ \A d \in Callers \ {c} : Sees(c, d, {})
      BY <1>0, <1>4, EndDoes, CatalogueAssumption DEF CallsSound
    <2> QED
      BY <1>3, <1>4, <2>1, SameAchieved, OneLearnerAchieves
  <1>5. ASSUME End(c, None, written), NEW a \in Assignments, Assigns(c, a)
        PROVE CarryInv'
    <2>1. call'[c].pc = "idle" /\ \A d \in Callers \ {c} : Sees(c, d, written)
      BY <1>0, <1>5, EndDoes DEF CallsSound
    <2>2. PICK learner : learner = arg.learner
      OBVIOUS
    <2>3. /\ assignment[a] = None /\ assignment'[a] # None /\ assignment'[a].learner = learner
          /\ \A o \in Outcomes : progress'[a][o] # None /\ progress'[a][o].status = "ACHIEVED" =>
               o \in seen.enabled /\ o \in seen.achieved
      <3>1. PICK mine : mine = [learner |-> arg.learner, track |-> arg.track, level |-> arg.level, active |-> TRUE]
        OBVIOUS
      <3>2. assignment[a] = None /\ assignment'[a] = mine
        BY <1>1, <1>5, <3>1 DEF Assigns
      <3>3. mine \in AssignmentRow
        BY <1>2, <3>1 DEF AssignArg, AssignmentRow
      <3>4. ASSUME NEW o \in Outcomes, progress'[a][o] # None, progress'[a][o].status = "ACHIEVED"
            PROVE  o \in seen.enabled /\ o \in seen.achieved
        <4>1. progress'[a][o] =
                IF o \in seen.enabled
                THEN [status |-> IF o \in seen.achieved THEN "ACHIEVED" ELSE "NOT_STARTED", custom |-> FALSE]
                ELSE None
          BY <1>1, <1>5 DEF Assigns
        <4>2. o \in seen.enabled
          BY <3>4, <4>1
        <4>3. progress'[a][o] = [status |-> IF o \in seen.achieved THEN "ACHIEVED" ELSE "NOT_STARTED", custom |-> FALSE]
          BY <4>1, <4>2
        <4>4. progress'[a][o].status = IF o \in seen.achieved THEN "ACHIEVED" ELSE "NOT_STARTED"
          BY <4>3
        <4> QED
          BY <3>4, <4>2, <4>4
      <3>5. mine.learner = learner /\ mine # None
        BY <2>2, <3>1, <3>3, CatalogueAssumption
      <3> QED
        BY <3>2, <3>4, <3>5
    <2>4. \A b \in Assignments \ {a} :
            /\ assignment'[b] # None <=> assignment[b] # None
            /\ assignment[b] # None => assignment'[b].learner = assignment[b].learner
            /\ progress'[b] = progress[b]
      <3>1. ASSUME NEW b \in Assignments \ {a}
            PROVE  /\ assignment'[b] # None <=> assignment[b] # None
                   /\ assignment[b] # None => assignment'[b].learner = assignment[b].learner
                   /\ progress'[b] = progress[b]
        <4>1. /\ IF b \in seen.retired
                 THEN /\ assignment[b] # None
                      /\ assignment'[b] = [learner |-> assignment[b].learner, track |-> assignment[b].track,
                                           level |-> assignment[b].level, active |-> FALSE]
                 ELSE assignment'[b] = assignment[b]
              /\ progress'[b] = progress[b]
          BY <1>1, <1>5, <3>1 DEF Assigns
        <4>2. CASE b \in seen.retired
          <5>1. PICK new : new = [learner |-> assignment[b].learner, track |-> assignment[b].track,
                                  level |-> assignment[b].level, active |-> FALSE]
            OBVIOUS
          <5>2. new \in AssignmentRow /\ new.learner = assignment[b].learner
            <6>1. assignment[b] \in AssignmentRow
              BY <4>1, <4>2 DEF CatalogueSound, TablesSound, Tables
            <6> QED
              BY <5>1, <6>1 DEF AssignmentRow
          <5> QED
            BY <4>1, <4>2, <5>1, <5>2, CatalogueAssumption
        <4>3. CASE b \notin seen.retired
          BY <4>1, <4>3
        <4> QED
          BY <4>2, <4>3
      <3> QED
        BY <3>1
    <2>5. \A l \in Learners : l # learner => AchievedStays(l)
      BY <2>3, <2>4 DEF AchievedStays, Achieves
    <2>6. ASSUME ~Stale(c, <<"achieve", learner>>) PROVE AchievedStays(learner)
      <3>1. seen.achieved = AchievedEver(learner)
        BY <1>1, <1>2, <2>2, <2>6 DEF CarryInv, CarryFits, Stale
      <3>2. \A o \in Outcomes : o \in seen.achieved => Achieves(assignment, progress, learner, o)
        BY <3>1 DEF AchievedEver, Achieves, Assigned
      <3> QED
        BY <2>3, <2>4, <3>2 DEF AchievedStays, Achieves
    <2>7. <<"achieve", learner>> \in written \/ AchievedStays(learner)
      BY <1>1, <2>2, <2>6
    <2> QED
      BY <1>3, <2>1, <2>5, <2>7, OneLearnerAchieves
  <1> QED
    BY <1>2, <1>4, <1>5

\* Whatever step the catalogue takes.
LEMMA CarrySteps ==
  ASSUME CatalogueSound, CarryInv, NEW c \in Callers, Step(c)
  PROVE CarryInv'
  <1>0. TablesSound /\ CallsSound /\ None \notin {"assign"}
    BY OfficeAssumption DEF CatalogueSound, CatalogueCalls
  <1>1. CASE Assign(c)
    BY <1>1, CarryBegins
  <1>2. CASE Retire(c)
    BY <1>2, CarryGoesOn
  <1>3. CASE CommitAssignment(c)
    BY <1>3, CommitsCarry
  <1>4. CASE InsertRow(c) \/ ToggleOutcome(c)
    BY <1>4, OutcomesChange
  <1>5. CASE InsertFull(c) \/ InsertCopy(c)
    BY <1>5, TreesCarry
  <1>6. CASE Achieve(c) \/ RemoveCustom(c)
    BY <1>6, VerdictsCarry
  <1>7. CASE AddCustom(c)
    BY <1>7, AdditionsCarry
  <1>8. ASSUME ~InsertRow(c), ~InsertFull(c), ~InsertCopy(c), ~ToggleOutcome(c), UNCHANGED holdings, Spares({"assign"})
        PROVE  CarryInv'
    BY <1>0, <1>8, MostShrink, ShrinkingOffers, SameAchieved, CarryKeeps DEF Spares
  <1>9. ASSUME ~Assign(c), ~Retire(c), ~CommitAssignment(c), ~InsertRow(c), ~ToggleOutcome(c), ~InsertFull(c), ~InsertCopy(c),
               ~Achieve(c), ~RemoveCustom(c), ~AddCustom(c)
        PROVE  CarryInv'
    <2>1. Spares({"assign"})
      BY <1>0, <1>9, StepSpares DEF Step
    <2>2. CASE \/ CreateTrack(c) \/ CreateFull(c) \/ UpdateTrack(c) \/ CopyTrack(c) \/ DeleteTrack(c) \/ DeleteDepartment(c)
               \/ RemoveDepartment(c) \/ ToggleDepartment(c) \/ ToggleTrack(c) \/ ToggleLevel(c)
               \/ InsertTrack(c) \/ SaveTrack(c) \/ DeleteTree(c)
      BY <1>8, <1>9, <2>1, <2>2
         DEF CreateTrack, CreateFull, UpdateTrack, CopyTrack, DeleteTrack, DeleteDepartment,
             RemoveDepartment, ToggleDepartment, ToggleTrack, ToggleLevel, ToggleRow, InsertTrack, SaveTrack, DeleteTree
    <2>3. CASE \/ CreateLevel(c) \/ CreateOutcome(c) \/ CopyOutcome(c) \/ AddOutcome(c) \/ AddSkill(c)
               \/ DeleteRow(c) \/ RemoveRow(c) \/ Reorder(c) \/ MoveRows(c)
               \/ CreateSkill(c) \/ SaveSkill(c) \/ DeleteSkill(c) \/ RemoveSkill(c) \/ PatchOutcomes(c)
      BY <1>8, <1>9, <2>1, <2>3
         DEF CreateLevel, CreateOutcome, CopyOutcome, AddOutcome, AddSkill, DeleteRow, RemoveRow,
             Reorder, MoveRows, CreateSkill, SaveSkill, DeleteSkill, RemoveSkill, PatchOutcomes
    <2> QED
      BY <1>9, <2>2, <2>3 DEF Step
  <1> QED
    BY <1>1, <1>2, <1>3, <1>4, <1>5, <1>6, <1>7, <1>9

\* And whatever is done beside it.
LEMMA CarryBeside ==
  ASSUME CatalogueSound, CarryInv, UNCHANGED catalogueVars, Spares(CatalogueCalls)
  PROVE CarryInv'
  <1>1. OutcomesShrink /\ UNCHANGED holdings
    BY DEF OutcomesShrink, catalogueVars, structure
  <1>2. Spares({"assign"})
    BY DEF Spares, CatalogueCalls
  <1> QED
    BY <1>1, <1>2, ShrinkingOffers, SameAchieved, CarryKeeps DEF Spares, CatalogueSound

\* A committed assignment has what it is to have.
LEMMA CommitCarries ==
  ASSUME CatalogueSound, CarryInv, NEW c \in Callers, CommitAssignment(c)
  PROVE Carried(c)
  <1>1. PICK arg, seen, written :
          arg = call[c].arg /\ seen = call[c].seen
            /\ written = {<<"assign", arg.learner>>}
                           \cup IF Stale(c, <<"achieve", arg.learner>>) THEN {<<"achieve", arg.learner>>} ELSE {}
    OBVIOUS
  <1>2. /\ call[c].op = "assign" /\ call[c].pc = "write" /\ arg \in AssignArg /\ seen \in AssignSeen
        /\ End(c, "referenced", written) \/ \E a \in Assignments : Assigns(c, a)
    <2>1. LET arg_1 == call[c].arg
              written_1 == {<<"assign", arg_1.learner>>}
                             \cup IF Stale(c, <<"achieve", arg_1.learner>>) THEN {<<"achieve", arg_1.learner>>} ELSE {}
          IN /\ call[c].op = "assign" /\ call[c].pc = "write" /\ arg_1 \in AssignArg /\ call[c].seen \in AssignSeen
             /\ UNCHANGED <<case, deleted, structure, asked>>
             /\ \/ End(c, "referenced", written_1) /\ UNCHANGED <<holdings, raced>>
                \/ End(c, None, written_1) /\ \E a \in Assignments : Assigns(c, a)
      BY CommitDoes
    <2> QED
      BY <1>1, <2>1
  <1>3. ASSUME End(c, "referenced", written) PROVE call'[c] # Idle
    <2>1. None # "referenced" /\ Idle.result = None /\ CallsOK
      BY CatalogueAssumption DEF Idle, CatalogueSound, CallsSound
    <2>2. call'[c] = [op |-> call[c].op, pc |-> "idle", arg |-> call[c].arg, seen |-> None, result |-> "referenced"]
      BY <1>3, <2>1, EndDoes
    <2> QED
      BY <2>1, <2>2
  <1>4. ASSUME NEW a \in Assignments, Assigns(c, a),
               ~Stale(c, <<"outcomes", arg.level>>), ~Stale(c, <<"achieve", arg.learner>>)
        PROVE  /\ a \in Assignments \ Assigned /\ assignment'[a] # None
               /\ \A o \in Outcomes : progress'[a][o] # None <=> row[o] # None /\ row[o].of = arg.level /\ row[o].on
               /\ \A o \in Outcomes : progress'[a][o] # None =>
                    (progress'[a][o].status = "ACHIEVED" <=>
                       \E b \in Assigned : /\ assignment[b].learner = arg.learner
                                           /\ progress[b][o] # None /\ progress[b][o].status = "ACHIEVED")
    <2>1. /\ assignment[a] = None
          /\ assignment'[a] = [learner |-> arg.learner, track |-> arg.track, level |-> arg.level, active |-> TRUE]
          /\ \A o \in seen.enabled : row[o] # None
          /\ \A o \in Outcomes : progress'[a][o] =
               IF o \in seen.enabled THEN [status |-> IF o \in seen.achieved THEN "ACHIEVED" ELSE "NOT_STARTED", custom |-> FALSE]
               ELSE None
      BY <1>1, <1>4 DEF Assigns
    <2>2. seen.enabled = Enabled(arg.level) /\ seen.achieved = AchievedEver(arg.learner)
      <3>1. Enabled(arg.level) = {o \in seen.enabled : row[o] # None} /\ seen.achieved = AchievedEver(arg.learner)
        BY <1>1, <1>2, <1>4 DEF CarryInv, CarryFits, Stale
      <3> QED
        BY <2>1, <3>1
    <2>3. assignment'[a] # None
      <3>1. [learner |-> arg.learner, track |-> arg.track, level |-> arg.level, active |-> TRUE] \in AssignmentRow
        BY <1>2 DEF AssignArg, AssignmentRow
      <3> QED
        BY <2>1, <3>1, CatalogueAssumption
    <2>4. ASSUME NEW o \in Outcomes
          PROVE  /\ progress'[a][o] # None <=> o \in seen.enabled
                 /\ o \in seen.enabled => (progress'[a][o].status = "ACHIEVED" <=> o \in seen.achieved)
      <3>1. PICK new : new = [status |-> IF o \in seen.achieved THEN "ACHIEVED" ELSE "NOT_STARTED", custom |-> FALSE]
        OBVIOUS
      <3>2. new.status = IF o \in seen.achieved THEN "ACHIEVED" ELSE "NOT_STARTED"
        BY <3>1
      <3>3. new \in ProgressRow
        BY <3>1 DEF ProgressRow, Statuses
      <3>4. progress'[a][o] = IF o \in seen.enabled THEN new ELSE None
        BY <2>1, <3>1
      <3> QED
        BY <3>2, <3>3, <3>4, CatalogueAssumption
    <2>5. a \in Assignments \ Assigned
      BY <2>1 DEF Assigned
    <2>6. \A o \in Outcomes : o \in seen.enabled <=> row[o] # None /\ row[o].of = arg.level /\ row[o].on
      BY <2>2 DEF Enabled
    <2>7. \A o \in Outcomes : o \in seen.achieved <=>
            \E b \in Assigned : /\ assignment[b].learner = arg.learner
                                /\ progress[b][o] # None /\ progress[b][o].status = "ACHIEVED"
      BY <2>2 DEF AchievedEver
    <2> QED
      BY <2>3, <2>4, <2>5, <2>6, <2>7
  <1> QED
    BY <1>1, <1>2, <1>3, <1>4 DEF Carried

\* A new assignment has a row for each outcome its level offers, achieved if the learner has ever achieved it,
\* whatever else is done meanwhile that leaves the level's outcomes and the learner's progress alone
\* (learner-assignment.service.ts, assignWithOutcomes).
THEOREM AssignmentsCarryForward == OfficeSpec => CarriedForward
  <1>1. OfficeInit => CatalogueSound /\ CarryInv
    BY CatalogueStartsSound, CarryStart DEF OfficeInit
  <1>2. CatalogueSound /\ CarryInv /\ [OfficeNext]_officeVars => CatalogueSound' /\ CarryInv'
    <2>1. SUFFICES ASSUME CatalogueSound, CarryInv, [OfficeNext]_officeVars
                   PROVE CatalogueSound' /\ CarryInv'
      OBVIOUS
    <2>2. CASE \E c \in Callers : Step(c)
      BY <2>1, <2>2, CatalogueStaysSound, CarrySteps
    <2>3. CASE UNCHANGED catalogueVars /\ Spares(CatalogueCalls)
      BY <2>1, <2>3, CatalogueStaysSound, CarryBeside
    <2> QED
      BY <2>1, <2>2, <2>3, CatalogueInOffice DEF CatalogueSound
  <1>3. CatalogueSound /\ CarryInv
        /\ [OfficeNext]_officeVars => [\A c \in Callers : Carried(c)]_vars
    <2>1. SUFFICES ASSUME CatalogueSound, CarryInv, [OfficeNext]_officeVars, NEW d \in Callers PROVE Carried(d)
      OBVIOUS
    <2>2. ASSUME call'[d] = call[d] PROVE Carried(d)
      <3>1. Idle.pc = "idle"
        BY DEF Idle
      <3> QED
        BY <2>2, <3>1 DEF Carried, At
    <2>3. CASE \E c \in Callers : Step(c)
      <3>1. PICK c \in Callers : Step(c)
        BY <2>3
      <3>2. CASE d = c /\ At(d, "assign", "write")
        BY <2>1, <3>1, <3>2, WritesOwn, CommitCarries DEF At
      <3>3. CASE d # c
        BY <2>1, <2>2, <3>1, <3>3, OthersWait DEF CatalogueSound
      <3>4. CASE ~At(d, "assign", "write")
        BY <3>4 DEF Carried
      <3> QED
        BY <3>2, <3>3, <3>4
    <2>4. CASE UNCHANGED catalogueVars /\ Spares(CatalogueCalls)
      <3>1. At(d, "assign", "write") => call'[d] = call[d]
        BY <2>4 DEF At, Spares, CatalogueCalls
      <3> QED
        BY <2>2, <3>1 DEF Carried
    <2> QED
      BY <2>1, <2>3, <2>4, CatalogueInOffice DEF CatalogueSound
  <1> QED
    BY <1>1, <1>2, <1>3, PTL DEF OfficeSpec, CarriedForward
=============================================================================
