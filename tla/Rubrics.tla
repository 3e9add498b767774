-------------------------------- MODULE Rubrics --------------------------------
(***************************************************************************)
(* The questions and the rubric of one outcome, which are replaced as a    *)
(* whole: cleared, and filled again, each a write of its own.  An agent    *)
(* that joins a session reads them, one read after the other.              *)
(*                                                                         *)
(* Abstracted: texts, one outcome and one language; the answers, which     *)
(* lose their question when it is deleted; the rest of what an agent reads.*)
(***************************************************************************)
EXTENDS Calls, FiniteSets, FiniteSetsExt

VARIABLES
  bank,        \* there is a question bank
  questions,   \* [put, order], put: what call brought it
  rubrics,     \* rubrics[n]: the call that saved its name and threshold last
  criteria,    \* [rubric, put, order, weight]
  puts,        \* calls that have brought rows
  mingled,     \* two replacements overlapped, or one was cut short
  handed       \* the last context that an agent was given, or None

rubricVars == <<bank, questions, rubrics, criteria, puts, mingled, handed>>

RubricInit ==
  /\ bank = FALSE /\ questions = {} /\ rubrics = <<>> /\ criteria = {}
  /\ puts = 0 /\ mingled = {} /\ handed = None

Replacing(what) == \E c \in Callers : call[c].op = what /\ call[c].pc # "idle"
\* What a call that replaces one of the two has come across.
Mingle(c, what) == mingled' = IF Stale(c, what) THEN mingled \cup {what} ELSE mingled
\* upsertRubricSchema: the weights of a call add up to 100.
Weightings == {<<100>>, <<60, 40>>}

-----------------------------------------------------------------------------
(* Questions.                                                              *)

PutBank(c) ==
  /\ \E n \in 1 .. 2 : Begin(c, "putBank", IF bank THEN "clear" ELSE "create", n, None)
  /\ mingled' = IF Replacing("putBank") \/ Replacing("addQuestion") THEN mingled \cup {"bank"} ELSE mingled
  /\ UNCHANGED <<bank, questions, rubrics, criteria, puts, handed>>
\* One bank for each outcome and language.
CreateBank(c) ==
  /\ At(c, "putBank", "create")
  /\ IF bank THEN End(c, "clash", {}) ELSE Goto(c, "clear", None, {"bank"})
  /\ bank' = TRUE
  /\ UNCHANGED <<questions, rubrics, criteria, puts, mingled, handed>>
ClearBank(c) ==
  /\ At(c, "putBank", "clear")
  /\ questions' = {}
  /\ Goto(c, "fill", None, {"bank"})
  /\ Mingle(c, "bank")
  /\ UNCHANGED <<bank, rubrics, criteria, puts, handed>>
FillBank(c) ==
  /\ At(c, "putBank", "fill")
  /\ puts' = puts + 1
  /\ questions' = questions \cup {[put |-> puts', order |-> n - 1] : n \in 1 .. call[c].arg}
  /\ End(c, None, {"bank"})
  /\ Mingle(c, "bank")
  /\ UNCHANGED <<bank, rubrics, criteria, handed>>
\* After as many as there are: an order may come twice once one was deleted.
AddQuestion(c) ==
  /\ bank /\ Begin(c, "addQuestion", "insert", None, Cardinality(questions))
  /\ mingled' = IF Replacing("putBank") THEN mingled \cup {"bank"} ELSE mingled
  /\ UNCHANGED <<bank, questions, rubrics, criteria, puts, handed>>
InsertQuestion(c) ==
  /\ At(c, "addQuestion", "insert")
  /\ puts' = puts + 1
  /\ questions' = questions \cup {[put |-> puts', order |-> call[c].seen]}
  /\ End(c, None, {"bank"})
  /\ Mingle(c, "bank")
  /\ UNCHANGED <<bank, rubrics, criteria, handed>>
DeleteQuestion(c) ==
  /\ \E q \in questions : Begin(c, "deleteQuestion", "delete", q, None)
  /\ UNCHANGED rubricVars
\* One that is gone is an error.
RemoveQuestion(c) ==
  /\ At(c, "deleteQuestion", "delete")
  /\ questions' = questions \ {call[c].arg}
  /\ IF call[c].arg \in questions THEN End(c, None, {"bank"}) ELSE End(c, "missing", {})
  /\ UNCHANGED <<bank, rubrics, criteria, puts, mingled, handed>>

-----------------------------------------------------------------------------
(* The rubric.                                                             *)

PutRubric(c) ==
  /\ \E weights \in Weightings, n \in (IF rubrics = <<>> THEN {0} ELSE 1 .. Len(rubrics)) :
       Begin(c, "putRubric", "save", weights, n)
  /\ mingled' = IF Replacing("putRubric") THEN mingled \cup {"rubric"} ELSE mingled
  /\ UNCHANGED <<bank, questions, rubrics, criteria, puts, handed>>
SaveRubric(c) ==
  /\ At(c, "putRubric", "save")
  /\ puts' = puts + 1
  /\ LET n == call[c].seen
     IN /\ rubrics' = IF n = 0 THEN Append(rubrics, puts') ELSE [rubrics EXCEPT ![n] = puts']
        /\ Goto(c, "clear", IF n = 0 THEN Len(rubrics) + 1 ELSE n, {"rubric"})
  /\ Mingle(c, "rubric")
  /\ UNCHANGED <<bank, questions, criteria, handed>>
\* Mutant: the criteria are only added to.
KeptCriteria(n) == criteria
OtherCriteria(n) == {k \in criteria : k.rubric # n}
ClearCriteria(c) ==
  /\ At(c, "putRubric", "clear")
  /\ criteria' = OtherCriteria(call[c].seen)
  /\ Goto(c, "fill", call[c].seen, {"rubric"})
  /\ Mingle(c, "rubric")
  /\ UNCHANGED <<bank, questions, rubrics, puts, handed>>
FillCriteria(c) ==
  /\ At(c, "putRubric", "fill")
  /\ puts' = puts + 1
  /\ criteria' = criteria \cup {[rubric |-> call[c].seen, put |-> puts', order |-> n - 1, weight |-> call[c].arg[n]] :
                                 n \in 1 .. Len(call[c].arg)}
  /\ End(c, None, {"rubric"})
  /\ Mingle(c, "rubric")
  /\ UNCHANGED <<bank, questions, rubrics, handed>>
CrashPut(c) ==
  /\ call[c].op \in {"putBank", "putRubric"} /\ call[c].pc \in {"clear", "fill"}
  /\ "crashPut" \in DOMAIN left /\ left["crashPut"] > 0
  /\ left' = [left EXCEPT !["crashPut"] = @ - 1]
  /\ call' = [call EXCEPT ![c] = Idle]
  /\ mingled' = mingled \cup {IF call[c].op = "putBank" THEN "bank" ELSE "rubric"}
  /\ UNCHANGED <<crossed, bank, questions, rubrics, criteria, puts, handed>>

-----------------------------------------------------------------------------
(* What an agent is given.                                                 *)

Criteria(n) == {k \in criteria : k.rubric = n}
Weight(ofCriteria) == MapThenSumSet(LAMBDA k : k.weight, ofCriteria)
Context(c) ==
  /\ Begin(c, "context", "rubric", Replacing("putRubric") \/ Replacing("putBank"), questions)
  /\ UNCHANGED rubricVars
\* Any active rubric.
ReadRubric(c) ==
  /\ At(c, "context", "rubric")
  /\ \E n \in (IF rubrics = <<>> THEN {0} ELSE 1 .. Len(rubrics)) :
       Goto(c, "criteria", [questions |-> call[c].seen, rubric |-> n], {})
  /\ UNCHANGED rubricVars
ReadCriteria(c) ==
  /\ At(c, "context", "criteria")
  /\ LET seen == call[c].seen
     IN handed' = [questions |-> seen.questions, rubric |-> seen.rubric, weight |-> Weight(Criteria(seen.rubric)),
                   torn |-> call[c].arg \/ Stale(c, "rubric") \/ Stale(c, "bank")]
  /\ End(c, None, {})
  /\ UNCHANGED <<bank, questions, rubrics, criteria, puts, mingled>>

RubricStep(c) ==
  \/ PutBank(c) \/ CreateBank(c) \/ ClearBank(c) \/ FillBank(c) \/ AddQuestion(c) \/ InsertQuestion(c)
  \/ DeleteQuestion(c) \/ RemoveQuestion(c)
  \/ PutRubric(c) \/ SaveRubric(c) \/ ClearCriteria(c) \/ FillCriteria(c) \/ CrashPut(c)
  \/ Context(c) \/ ReadRubric(c) \/ ReadCriteria(c)

-----------------------------------------------------------------------------
(* Properties.                                                             *)

\* Criteria and questions have what they belong to.
RubricTypeOK == (questions # {} => bank) /\ \A k \in criteria : k.rubric \in 1 .. Len(rubrics)

\* assessment.validators.ts:50: while nobody replaces it, the one rubric has criteria of one
\* call that weigh 100, unless two calls overlapped or one was cut short; and an agent gets
\* such a rubric, when nothing was replaced while he read.
RubricsWeigh ==
  "rubric" \notin mingled =>
    /\ Len(rubrics) <= 1
    /\ ~Replacing("putRubric") /\ rubrics # <<>> =>
         Weight(Criteria(1)) = 100 /\ Cardinality({k.put : k \in Criteria(1)}) = 1
    /\ handed # None /\ ~handed.torn /\ handed.rubric # 0 => handed.weight = 100
=============================================================================
