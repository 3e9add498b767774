------------------------ MODULE TrainingPlansProofs ------------------------
(***************************************************************************)
(* TrainingPlans, proved for all values of its constants: its types, that  *)
(* a confirmed plan's sessions meet, and that sessions belong to the one   *)
(* plan of an active learner, each up to the overlaps its property names.  *)
(***************************************************************************)
EXTENDS TrainingPlans, WellFoundedInduction, FiniteSetTheorems, TLAPS

-----------------------------------------------------------------------------
(* The inductive invariant.                                                *)

\* Where a call of each operation can be.
Cancelling == {"create", "cancel", "withdraw"}
WhereItCanBe(x) ==
  \/ x.op = None /\ x.pc = "idle" /\ x = Idle
  \/ x.op = "create" /\ x.pc \in {"cancel", "sessions"}
  \/ x.op = "cancel" /\ x.pc \in {"cancel", "sessions"}
  \/ x.op = "suggest" /\ x.pc \in {"list", "sessions", "replace"}
  \/ x.op = "confirm" /\ x.pc \in {"list", "write"}
  \/ x.op = "remove" /\ x.pc \in {"list", "sessions", "delete"}
  \/ x.op = "reschedule" /\ x.pc = "move"
  \/ x.op = "withdraw" /\ x.pc \in {"withdraw", "cancel", "sessions", "sweep"}

\* What a call holds, and what the two kinds of rows are.
Holds == {"op", "pc", "plan", "seen", "todo", "proposal", "plans", "failed", "session", "day"}
CallOK(x) ==
  /\ WhereItCanBe(x)
  /\ DOMAIN x = Holds
  /\ x.todo \subseteq Ids /\ x.plans \subseteq Plans /\ x.failed \in BOOLEAN
  /\ x.pc = "cancel" \/ x.op \in {"suggest", "confirm", "remove"} => x.plan \in Plans
CallsOK == DOMAIN call = Callers /\ \A c \in Callers : CallOK(call[c])

PlansOK ==
  /\ DOMAIN plan = Plans
  /\ \A p \in Plans : /\ DOMAIN plan[p] = {"status", "days", "start", "tree"}
                      /\ plan[p].status \in PlanStatus \cup {"none", "deleted"}
SessionOK(s) ==
  /\ DOMAIN s = {"id", "plan", "seq", "day", "outcomes", "status", "graph"}
  /\ s.id \in Ids /\ s.plan \in Plans /\ s.graph \in BOOLEAN
  /\ s.status \in {"LIVE", "COMPLETED", "CANCELLED"}
SessionsOK ==
  /\ \A s \in sessions : SessionOK(s) /\ Exists(s.plan)
  /\ \A s, t \in sessions : s.id = t.id => s = t
RestOK ==
  /\ case \in Cases /\ assigned \in BOOLEAN /\ active \in BOOLEAN /\ jobs \subseteq Ids
  /\ \A i \in DOMAIN rows : /\ "status" \in DOMAIN rows[i]
                            /\ rows[i].status \in {"NOT_STARTED", "IN_PROGRESS", "ACHIEVED"}
Shapes == CallsOK /\ PlansOK /\ SessionsOK /\ RestOK

\* Calls that are in flight together have been noted.
Noted == \A c, d \in Callers :
  c # d /\ call[c].pc # "idle" /\ call[d].pc # "idle" => {call[c].op, call[d].op} \in crossed

\* The overlaps that the properties name.
Confirmed == Crossed({"suggest"}, {"confirm"})
Revived == Crossed({"suggest", "confirm"}, Cancelling)
Doubled == Crossed({"create"}, {"create"})
EndedUnder == Crossed(Cancelling, {"end"})
Outlived == Crossed({"create"}, {"withdraw"})

Live(s) == s.status = "LIVE"
NoneLive(p) == \A s \in OfPlan(p) : ~Live(s)

\* A confirm that writes has listed the live sessions of its plan.  A suggest that
\* finds the plan confirmed will reopen it; once it has listed the live sessions,
\* those it has not cancelled yet are on its list, or came since without a meeting.
ConfirmAt(c) ==
  At(c, "confirm", "write") =>
    \/ \A s \in OfPlan(call[c].plan) : Live(s) => s.id \in call[c].todo
    \/ Confirmed
SuggestAt(c) ==
  call[c].op = "suggest" =>
    /\ plan[call[c].plan].status = "CONFIRMED" =>
         \/ call[c].pc # "replace" /\ call[c].seen.status # "DRAFT"
         \/ Confirmed
    /\ call[c].pc \in {"sessions", "replace"} =>
         \/ \A s \in OfPlan(call[c].plan) :
              Live(s) => s.id \in call[c].todo \/ (~s.graph /\ s.id \notin jobs)
         \/ Confirmed
    /\ call[c].pc = "replace" => call[c].todo = {}
ProposalsInv == (\A c \in Callers : ConfirmAt(c) /\ SuggestAt(c)) /\ OneProposal /\ ConfirmedMeets

\* At most one plan is open, and a create has none beside the one it cancels.
OnlyOpen(S) == \A p \in Plans : Open(p) => p \in S
CreateAt(c) ==
  call[c].op = "create" => OnlyOpen(IF call[c].pc = "cancel" THEN {call[c].plan} ELSE {}) \/ Doubled \/ Revived
\* A plan that is suggested or confirmed is open, unless it is removed.
WorksAt(c) ==
  call[c].op \in {"suggest", "confirm"} => Open(call[c].plan) \/ ~Exists(call[c].plan) \/ Revived
OpenInv ==
  /\ \A c \in Callers : CreateAt(c) /\ WorksAt(c)
  /\ (\A p, q \in Plans : Open(p) /\ Open(q) => p = q) \/ Doubled \/ Revived

\* A call that is to cancel s, whichever of the two loops it is in.
ToCancel(c, s) ==
  /\ call[c].op \in Cancelling /\ s.id \in call[c].todo
  /\ call[c].pc = "sweep" \/ (call[c].pc = "sessions" /\ call[c].plan = s.plan)
\* The loop over a plan's sessions throws only at one that ended, or when all are gone.
LoopAt(c) ==
  call[c].op \in Cancelling /\ call[c].pc = "sessions" =>
    \A id \in call[c].todo :
      \/ \E s \in sessions : s.id = id /\ s.plan = call[c].plan /\ s.status # "COMPLETED"
      \/ NoneLive(call[c].plan) \/ Revived \/ EndedUnder
\* A withdrawal that has not failed yet knows the open plans, and in the end there
\* are none, nor live sessions but those it still has on its list.
WithdrawAt(c) ==
  call[c].op = "withdraw" /\ ~call[c].failed =>
    /\ \/ OnlyOpen(IF call[c].pc = "sweep" THEN {}
                   ELSE IF call[c].pc = "cancel" THEN call[c].plans \cup {call[c].plan}
                   ELSE call[c].plans)
       \/ Revived \/ Outlived
    /\ call[c].pc = "sweep" =>
         ~assigned /\ ((\A s \in sessions : Live(s) => s.id \in call[c].todo) \/ Revived)
BelongInv ==
  /\ \A c \in Callers : LoopAt(c) /\ WithdrawAt(c)
  /\ \A s \in sessions : Live(s) =>
       Open(s.plan) \/ (\E c \in Callers : ToCancel(c, s)) \/ Revived \/ EndedUnder
  /\ ~active => /\ ~assigned
                /\ OnlyOpen({}) \/ Revived \/ Outlived
                /\ (\A s \in sessions : ~Live(s)) \/ Revived \/ Outlived

IInv == Shapes /\ Noted /\ ProposalsInv /\ OpenInv /\ BelongInv

\* The invariant gives the properties that are checked.
LEMMA InvariantGives == IInv => TypeOK /\ ConfirmedMeets /\ SessionsBelong
<1>1. SUFFICES ASSUME IInv PROVE TypeOK /\ OneActivePlan /\ LiveSessionsBelong
  BY DEF IInv, ProposalsInv, SessionsBelong
<1> USE DEF IInv
<1>2. TypeOK
  <2>1. \A c \in Callers : call[c].todo \subseteq Ids /\ (call[c].pc = "idle" <=> call[c] = Idle)
    <3>1. SUFFICES ASSUME NEW c \in Callers
                   PROVE  call[c].todo \subseteq Ids /\ (call[c].pc = "idle" <=> call[c] = Idle)
      OBVIOUS
    <3>2. CallOK(call[c])
      BY <1>1 DEF Shapes, CallsOK
    <3>3. Idle.pc = "idle"
      BY DEF Idle
    <3> QED
      BY <3>2, <3>3 DEF CallOK, WhereItCanBe
  <2> QED
    BY <1>1, <2>1 DEF TypeOK, Shapes, PlansOK, SessionsOK, SessionOK, RestOK
<1>3. OneActivePlan
  <2>1. CASE Doubled \/ Revived
    BY <2>1 DEF OneActivePlan, Doubled, Revived, Cancelling
  <2>2. CASE \A p, q \in Plans : Open(p) /\ Open(q) => p = q
    <3> DEFINE S == {p \in Plans : Open(p)}
    <3>1. Cardinality(S) <= 1
      <4>1. CASE S = {}
        BY <4>1, FS_EmptySet
      <4>2. CASE S # {}
        <5>1. PICK p \in S : TRUE
          BY <4>2
        <5>2. S = {p}
          BY <2>2, <5>1
        <5>3. Cardinality({p}) = 1
          BY FS_Singleton
        <5> QED
          BY <5>2, <5>3
      <4> QED
        BY <4>1, <4>2
    <3> QED
      BY <3>1 DEF OneActivePlan
  <2> QED
    BY <1>1, <2>1, <2>2 DEF OpenInv
<1>4. LiveSessionsBelong
  <2>1. SUFFICES ASSUME NEW s \in sessions, s.status = "LIVE",
                        ~Revived, ~EndedUnder, ~Outlived
                 PROVE  (Open(s.plan) /\ active) \/ \E c \in Callers : s.id \in call[c].todo
    BY DEF LiveSessionsBelong, Revived, EndedUnder, Outlived, Cancelling
  <2>2. active
    BY <1>1, <2>1 DEF BelongInv, Live
  <2> QED
    BY <1>1, <2>1, <2>2 DEF BelongInv, Live, ToCancel
<1> QED
  BY <1>2, <1>3, <1>4

\* It holds when nothing has been called yet.
LEMMA InitHolds == ASSUME PlansAssumption, CasesAssumption, Init PROVE IInv
<1> USE DEF Init
<1>1. \A c \in Callers : call[c] = Idle
  OBVIOUS
<1>2. None \notin {"create", "cancel", "suggest", "confirm", "remove", "reschedule", "withdraw"}
  BY DEF PlansAssumption, Operations
<1>3. Idle.op = None /\ Idle.pc = "idle" /\ Idle.todo = {} /\ CallOK(Idle)
  BY <1>2 DEF Idle, CallOK, WhereItCanBe, Holds
<1>4. Shapes
  <2>1. CallsOK
    BY <1>1, <1>3 DEF CallsOK
  <2>2. PlansOK
    BY DEF PlansOK, PlanStatus
  <2>3. SessionsOK
    BY DEF SessionsOK
  <2>4. RestOK
    BY DEF RestOK, CasesAssumption
  <2> QED
    BY <2>1, <2>2, <2>3, <2>4 DEF Shapes
<1>5. Noted
  BY <1>1, <1>3 DEF Noted
<1>6. \A c \in Callers : call[c].op = None /\ call[c].pc = "idle"
  BY <1>1, <1>3
<1>7. ProposalsInv
  BY <1>2, <1>6 DEF ProposalsInv, ConfirmAt, SuggestAt, OneProposal, ConfirmedMeets, At
<1>8. \A p, q \in Plans : Open(p) /\ Open(q) => p = q
  BY DEF Open, Editable
<1>9. OpenInv
  BY <1>2, <1>6, <1>8 DEF OpenInv, CreateAt, WorksAt
<1>10. BelongInv
  BY <1>2, <1>6 DEF BelongInv, LoopAt, WithdrawAt, Cancelling
<1> QED
  BY <1>4, <1>5, <1>7, <1>9, <1>10 DEF IInv

-----------------------------------------------------------------------------
(* What a step may do to the learner's rows, whoever takes it.             *)

\* Session t, a step later: it does not come to life, and gets a meeting by its job.
From(t, s) ==
  /\ t.id = s.id /\ t.plan = s.plan /\ t.seq = s.seq
  /\ Live(s) => Live(t)
  /\ t.graph => s.graph
  /\ s.graph => t.graph \/ t.id \in jobs
Replacing(c) == At(c, "suggest", "replace") /\ Exists(call[c].plan)
New(c, s) == s.plan = call[c].plan /\ ~s.graph /\ s.id \notin jobs

\* Only a suggest makes sessions, of its plan, and leaves only those with a meeting.
SessionsCome ==
  \/ \A s \in sessions' : \E t \in sessions : From(t, s)
  \/ \E c \in Callers :
       /\ Replacing(c)
       /\ \A s \in sessions' :
            New(c, s) \/ \E t \in sessions : From(t, s) /\ (t.plan = call[c].plan => s.graph)
       /\ \A s, t \in sessions' : New(c, s) /\ New(c, t) /\ s.seq = t.seq => s = t
\* A session goes with its plan's others; one that ends is noted with who would cancel it.
SessionsGo ==
  \A t \in sessions :
    \/ \E s \in sessions' :
         /\ s.id = t.id /\ s.plan = t.plan
         /\ s.status = "COMPLETED" =>
              \/ t.status = "COMPLETED"
              \/ \A c \in Callers : t.id \in call[c].todo => {call[c].op, "end"} \in crossed'
    \/ \A s \in sessions' : s.plan # t.plan
    \/ \E c \in Callers : Replacing(c) /\ t.plan = call[c].plan
JobsMove ==
  /\ \A id \in jobs' : id \in jobs \/ \E c \in Callers : At(c, "confirm", "write")
  /\ \A s \in sessions' : s.id \in jobs /\ Live(s) => s.id \in jobs' \/ s.graph

\* How the status of plan p can change, by a step of c.
Moves(c, p) ==
  \/ At(c, "create", "sessions") /\ assigned /\ call'[c] = Idle /\ plan'[p].status = "DRAFT"
  \/ /\ call[c].pc = "cancel" /\ call[c].plan = p /\ plan'[p].status = "CANCELLED"
     /\ call'[c].op = call[c].op /\ call'[c].pc = "sessions" /\ call'[c].plan = p
     /\ \A s \in sessions' : s.plan = p /\ Live(s) => s.id \in call'[c].todo
  \/ /\ At(c, "suggest", "sessions") /\ call[c].plan = p /\ Exists(p)
     /\ plan'[p].status = "DRAFT"
  \/ /\ At(c, "confirm", "write") /\ call[c].plan = p /\ Exists(p)
     /\ plan'[p].status = "CONFIRMED" /\ call[c].todo \subseteq jobs'
  \/ plan'[p].status = "deleted" /\ OfPlan(p) = {}
PlansMove ==
  \/ \A p \in Plans : plan'[p].status = plan[p].status
  \/ /\ sessions' = sessions
     /\ \E p \in Plans, c \in Callers :
          Moves(c, p) /\ \A q \in Plans \ {p} : plan'[q].status = plan[q].status
PeopleMove ==
  /\ assigned' => assigned
  /\ active' => active
  /\ active /\ ~active' => \E c \in Callers :
       /\ At(c, "withdraw", "sweep") /\ call[c].todo = {} /\ ~call[c].failed
       /\ UNCHANGED <<assigned, plan, sessions>>
World ==
  /\ crossed \subseteq crossed'
  /\ SessionsCome /\ SessionsGo /\ JobsMove /\ PlansMove /\ PeopleMove

\* A call moves, and the others do not.
LEMMA CallMoves ==
  ASSUME CallsOK, NEW c \in Callers, NEW state, call' = [call EXCEPT ![c] = state]
  PROVE  /\ call'[c] = state
         /\ \A d \in Callers \ {c} : call'[d] = call[d]
         /\ CallOK(state) => CallsOK'
  BY DEF CallsOK

\* Where sessions stay as they are, the first two parts of World say nothing.
LEMMA SessionsStill == ASSUME UNCHANGED sessions PROVE SessionsCome /\ SessionsGo
  BY DEF SessionsCome, SessionsGo, From

\* A step that changes no status, no session and no job.
LEMMA Quiet ==
  ASSUME Shapes, CallsOK', PlansOK', UNCHANGED <<case, people, sessions, jobs>>,
         crossed \subseteq crossed', \A p \in Plans : plan'[p].status = plan[p].status
  PROVE  Shapes' /\ World
<1>1. \A p \in Plans : Exists(p)' <=> Exists(p)
  BY DEF Exists
<1>2. SessionsOK'
  BY <1>1 DEF Shapes, SessionsOK, SessionOK
<1>3. RestOK'
  BY DEF Shapes, RestOK, people
<1>4. JobsMove
  BY DEF JobsMove
<1>5. PlansMove
  BY DEF PlansMove
<1>6. PeopleMove
  BY DEF PeopleMove, people
<1> QED
  BY <1>2, <1>3, <1>4, <1>5, <1>6, SessionsStill DEF Shapes, World

\* Some plans have a first and a last one.
LEMMA FirstAndLast ==
  ASSUME PlansAssumption, NEW S \in SUBSET Plans, S # {}
  PROVE  (\E p \in S : \A q \in S : p <= q) /\ (\E p \in S : \A q \in S : q <= p)
<1>1. \A T \in SUBSET Nat : T # {} => \E x \in T : \A y \in T : x <= y
  <2>1. SUFFICES ASSUME NEW T \in SUBSET Nat, T # {} PROVE \E x \in T : \A y \in T : x <= y
    OBVIOUS
  <2>2. PICK x \in T : \A y \in T : ~(<<y, x>> \in OpToRel(<, Nat))
    BY <2>1, NatLessThanWellFounded, WFMin
  <2>3. \A y \in T : y \in Nat /\ x \in Nat /\ ~(y < x)
    BY <2>1, <2>2 DEF OpToRel
  <2>4. \A y \in T : x <= y
    BY <2>3
  <2> QED
    BY <2>2, <2>4
<1>2. PICK n \in Nat : Plans = 1 .. n
  BY FS_CardinalityType DEF PlansAssumption
<1>3. \E p \in S : \A q \in S : p <= q
  BY <1>1, <1>2
<1>4. \E p \in S : \A q \in S : q <= p
  <2> DEFINE T == {n - p : p \in S}
  <2>1. T \subseteq Nat /\ T # {}
    BY <1>2
  <2>2. PICK x \in T : \A y \in T : x <= y
    BY <1>1, <2>1
  <2>3. PICK p \in S : x = n - p
    BY <2>2
  <2>4. \A q \in S : n - p <= n - q
    BY <2>2, <2>3
  <2>5. \A q \in S : p \in Nat /\ q \in Nat
    BY <1>2
  <2> QED
    BY <2>4, <2>5, <1>2
<1> QED
  BY <1>3, <1>4

\* A call that begins is noted with those in flight.
LEMMA BeginMoves ==
  ASSUME CallsOK, NEW c \in Callers, NEW op, NEW state, Begin(c, op, state),
         CallOK([state EXCEPT !.op = op])
  PROVE  /\ CallsOK' /\ crossed \subseteq crossed'
         /\ call[c].pc = "idle" /\ call'[c] = [state EXCEPT !.op = op]
         /\ \A d \in Callers \ {c} : call'[d] = call[d]
         /\ \A d \in Callers : call[d].pc # "idle" => {op, call[d].op} \in crossed'
<1> DEFINE new == [state EXCEPT !.op = op]
<1>1. call' = [call EXCEPT ![c] = new]
  BY DEF Begin
<1>2. /\ call[c].pc = "idle"
      /\ crossed' = crossed \cup {{op, call[d].op} : d \in {e \in Callers : call[e].pc # "idle"}}
  BY DEF Begin, Asked
<1>3. CallOK(new)
  OBVIOUS
<1> HIDE DEF new
<1>4. CallsOK' /\ call'[c] = new /\ \A d \in Callers \ {c} : call'[d] = call[d]
  BY <1>1, <1>3, CallMoves
<1> QED
  BY <1>2, <1>4 DEF new

\* A call that moves on.
LEMMA GotoMoves ==
  ASSUME CallsOK, NEW c \in Callers, NEW state, Goto(c, state), CallOK(state)
  PROVE  /\ CallsOK' /\ crossed' = crossed /\ call'[c] = state
         /\ \A d \in Callers \ {c} : call'[d] = call[d]
  BY CallMoves DEF Goto

\* A call that ends.
LEMMA EndMoves ==
  ASSUME PlansAssumption, CallsOK, NEW c \in Callers, End(c)
  PROVE  /\ CallsOK' /\ crossed' = crossed /\ call'[c] = Idle
         /\ \A d \in Callers \ {c} : call'[d] = call[d]
<1>1. None \notin {"suggest", "confirm", "remove"}
  BY DEF PlansAssumption, Operations
<1>2. CallOK(Idle)
  BY <1>1 DEF CallOK, WhereItCanBe, Idle, Holds
<1> QED
  BY <1>2, GotoMoves DEF End

-----------------------------------------------------------------------------
(* Every step keeps the shapes, and does to the rows what World says.      *)

\* A call that begins only reads.
LEMMA BeginQuiet ==
  ASSUME Shapes, NEW c \in Callers, NEW op, NEW state, Begin(c, op, state),
         CallOK([state EXCEPT !.op = op]), UNCHANGED <<case, data>>
  PROVE  Shapes' /\ World
<1>1. CallsOK /\ PlansOK
  BY DEF Shapes
<1>2. UNCHANGED <<case, people, plan, sessions, jobs>>
  BY DEF data
<1>3. PlansOK'
  BY <1>1, <1>2 DEF PlansOK
<1>4. CallsOK' /\ crossed \subseteq crossed'
  BY <1>1, BeginMoves
<1> QED
  BY <1>2, <1>3, <1>4, Quiet

\* The calls that begin: they read.
LEMMA BeginsQuietly ==
  ASSUME PlansAssumption, Shapes, NEW c \in Callers,
         Create(c) \/ Cancel(c) \/ SuggestPlan(c) \/ Confirm(c) \/ RemovePlan(c)
           \/ Reschedule(c) \/ Withdraw(c)
  PROVE  Shapes' /\ World
<1>1. UNCHANGED <<case, data>>
  BY DEF Create, Cancel, SuggestPlan, Confirm, RemovePlan, Reschedule, Withdraw
<1>2. None \notin Operations
  BY DEF PlansAssumption
<1>3. CASE Create(c)
  <2> DEFINE open == {p \in Plans : Open(p)}
             last == CHOOSE p \in open : \A q \in open : q <= p
  <2>1. open # {} => last \in Plans
    BY FirstAndLast
  <2>2. CASE open = {}
    <3>1. Begin(c, "create", [Idle EXCEPT !.pc = "sessions"])
      BY <1>3, <2>2 DEF Create
    <3>2. CallOK([[Idle EXCEPT !.pc = "sessions"] EXCEPT !.op = "create"])
      BY <1>2 DEF Idle, CallOK, WhereItCanBe, Holds
    <3> QED
      BY <1>1, <3>1, <3>2, BeginQuiet
  <2>3. CASE open # {}
    <3>1. Begin(c, "create", [Idle EXCEPT !.pc = "cancel", !.plan = last])
      BY <1>3, <2>3 DEF Create
    <3> HIDE DEF last
    <3>2. CallOK([[Idle EXCEPT !.pc = "cancel", !.plan = last] EXCEPT !.op = "create"])
      BY <1>2, <2>1, <2>3 DEF Idle, CallOK, WhereItCanBe, Holds
    <3> QED
      BY <1>1, <3>1, <3>2, BeginQuiet
  <2> QED
    BY <2>2, <2>3
<1>4. CASE Cancel(c)
  <2>1. PICK p \in Plans : Begin(c, "cancel", [Idle EXCEPT !.pc = "cancel", !.plan = p])
    BY <1>4 DEF Cancel
  <2>2. CallOK([[Idle EXCEPT !.pc = "cancel", !.plan = p] EXCEPT !.op = "cancel"])
    BY DEF Idle, CallOK, WhereItCanBe, Holds
  <2> QED
    BY <1>1, <2>1, <2>2, BeginQuiet
<1>5. CASE SuggestPlan(c)
  <2>1. PICK p \in Plans :
          Begin(c, "suggest", [Idle EXCEPT !.pc = "list", !.plan = p, !.seen = plan[p]])
    BY <1>5 DEF SuggestPlan
  <2>2. CallOK([[Idle EXCEPT !.pc = "list", !.plan = p, !.seen = plan[p]] EXCEPT !.op = "suggest"])
    BY DEF Idle, CallOK, WhereItCanBe, Holds
  <2> QED
    BY <1>1, <2>1, <2>2, BeginQuiet
<1>6. CASE Confirm(c)
  <2>1. PICK p \in Plans : Begin(c, "confirm", [Idle EXCEPT !.pc = "list", !.plan = p])
    BY <1>6 DEF Confirm
  <2>2. CallOK([[Idle EXCEPT !.pc = "list", !.plan = p] EXCEPT !.op = "confirm"])
    BY DEF Idle, CallOK, WhereItCanBe, Holds
  <2> QED
    BY <1>1, <2>1, <2>2, BeginQuiet
<1>7. CASE RemovePlan(c)
  <2>1. PICK p \in Plans : Begin(c, "remove", [Idle EXCEPT !.pc = "list", !.plan = p])
    BY <1>7 DEF RemovePlan
  <2>2. CallOK([[Idle EXCEPT !.pc = "list", !.plan = p] EXCEPT !.op = "remove"])
    BY DEF Idle, CallOK, WhereItCanBe, Holds
  <2> QED
    BY <1>1, <2>1, <2>2, BeginQuiet
<1>8. CASE Reschedule(c)
  <2>1. PICK id, day :
          Begin(c, "reschedule", [Idle EXCEPT !.pc = "move", !.session = id, !.day = day])
    BY <1>8 DEF Reschedule
  <2>2. CallOK([[Idle EXCEPT !.pc = "move", !.session = id, !.day = day] EXCEPT !.op = "reschedule"])
    BY DEF Idle, CallOK, WhereItCanBe, Holds
  <2> QED
    BY <1>1, <2>1, <2>2, BeginQuiet
<1>9. CASE Withdraw(c)
  <2> DEFINE open == {p \in Plans : Open(p)}
  <2>1. Begin(c, "withdraw", [Idle EXCEPT !.pc = "withdraw", !.plans = open])
    BY <1>9 DEF Withdraw
  <2>2. open \subseteq Plans
    OBVIOUS
  <2> HIDE DEF open
  <2>3. CallOK([[Idle EXCEPT !.pc = "withdraw", !.plans = open] EXCEPT !.op = "withdraw"])
    BY <2>2 DEF Idle, CallOK, WhereItCanBe, Holds
  <2> QED
    BY <1>1, <2>1, <2>3, BeginQuiet
<1> QED
  BY <1>3, <1>4, <1>5, <1>6, <1>7, <1>8, <1>9

\* A call that moves on without a write.
LEMMA GotoQuiet ==
  ASSUME Shapes, NEW c \in Callers, NEW state, Goto(c, state), CallOK(state),
         UNCHANGED <<case, data>>
  PROVE  Shapes' /\ World
<1>1. CallsOK /\ PlansOK
  BY DEF Shapes
<1>2. UNCHANGED <<case, people, plan, sessions, jobs>>
  BY DEF data
<1>3. PlansOK'
  BY <1>1, <1>2 DEF PlansOK
<1>4. CallsOK' /\ crossed' = crossed
  BY <1>1, GotoMoves
<1> QED
  BY <1>2, <1>3, <1>4, Quiet

\* A write of one plan's status.
LEMMA StatusWritten ==
  ASSUME Shapes, CallsOK', PlansOK', UNCHANGED <<case, people, sessions, crossed>>,
         NEW p \in Plans, NEW c \in Callers, Moves(c, p),
         \A q \in Plans \ {p} : plan'[q].status = plan[q].status,
         plan'[p].status \in PlanStatus \/ OfPlan(p) = {}, jobs' \subseteq Ids, JobsMove
  PROVE  Shapes' /\ World
<1>1. \A s \in sessions : Exists(s.plan)'
  BY DEF Shapes, SessionsOK, SessionOK, Exists, OfPlan
<1>2. SessionsOK'
  BY <1>1 DEF Shapes, SessionsOK, SessionOK
<1>3. RestOK'
  BY DEF Shapes, RestOK, people
<1>4. PlansMove
  BY DEF PlansMove
<1>5. PeopleMove
  BY DEF PeopleMove, people
<1> QED
  BY <1>2, <1>3, <1>4, <1>5, SessionsStill DEF Shapes, World

\* A write of sessions.
LEMMA SessionsWritten ==
  ASSUME Shapes, CallsOK', SessionsOK', UNCHANGED <<case, people, plan>>, jobs' \subseteq Ids,
         crossed \subseteq crossed', SessionsCome, SessionsGo, JobsMove
  PROVE  Shapes' /\ World
<1>1. PlansOK'
  BY DEF Shapes, PlansOK
<1>2. RestOK'
  BY DEF Shapes, RestOK, people
<1>3. PlansMove
  BY DEF PlansMove
<1>4. PeopleMove
  BY DEF PeopleMove, people
<1> QED
  BY <1>1, <1>2, <1>3, <1>4 DEF Shapes, World

\* create's insertion: a new row, or none without an assignment.
LEMMA InsertPlanKeeps ==
  ASSUME PlansAssumption, Shapes, NEW c \in Callers, InsertPlan(c) PROVE Shapes' /\ World
<1>1. CallsOK /\ PlansOK
  BY DEF Shapes
<1>2. UNCHANGED <<case, people, sessions, jobs>> /\ End(c) /\ At(c, "create", "sessions")
  BY DEF InsertPlan
<1>3. CallsOK' /\ crossed' = crossed /\ call'[c] = Idle
  BY <1>1, <1>2, EndMoves
<1> DEFINE p == CHOOSE q \in Plans : /\ plan[q].status = "none"
                                     /\ \A r \in Plans : r < q => plan[r].status # "none"
<1>4. CASE plan' = plan \/ p \notin Plans
  <2>1. \A q \in Plans : plan'[q] = plan[q]
    BY <1>1, <1>4 DEF InsertPlan, PlansOK
  <2>2. DOMAIN plan' = Plans
    BY <1>1, <1>4 DEF InsertPlan, PlansOK
  <2>3. PlansOK'
    BY <1>1, <2>1, <2>2 DEF PlansOK
  <2> QED
    BY <1>2, <1>3, <2>1, <2>3, Quiet
<1>5. CASE plan' # plan /\ p \in Plans
  <2>1. /\ assigned
        /\ \E d \in DOMAIN case.days :
             plan' = [plan EXCEPT ![p] = [@ EXCEPT !.status = "DRAFT", !.days = case.days[d]]]
    BY <1>5 DEF InsertPlan
  <2> HIDE DEF p
  <2>2. /\ PlansOK' /\ plan'[p].status = "DRAFT"
        /\ \A q \in Plans \ {p} : plan'[q].status = plan[q].status
    BY <1>1, <1>5, <2>1 DEF PlansOK, PlanStatus
  <2>3. Moves(c, p)
    BY <1>2, <1>3, <2>1, <2>2 DEF Moves
  <2>4. plan'[p].status \in PlanStatus
    BY <2>2 DEF PlanStatus
  <2>5. jobs' \subseteq Ids /\ JobsMove
    BY <1>2 DEF JobsMove, Shapes, RestOK
  <2> QED
    BY <1>2, <1>3, <1>5, <2>2, <2>3, <2>4, <2>5, StatusWritten
<1> QED
  BY <1>4, <1>5

\* A failure ends the call, or is noted by the withdrawal.
LEMMA FailMoves ==
  ASSUME PlansAssumption, CallsOK, NEW c \in Callers, Fail(c)
  PROVE  /\ CallsOK' /\ crossed' = crossed
         /\ \A d \in Callers \ {c} : call'[d] = call[d]
         /\ IF call[c].op = "withdraw"
            THEN call'[c] = [call[c] EXCEPT !.pc = "withdraw", !.failed = TRUE, !.todo = {}]
            ELSE call'[c] = Idle
<1>1. CASE call[c].op = "withdraw"
  <2> DEFINE state == [call[c] EXCEPT !.pc = "withdraw", !.failed = TRUE, !.todo = {}]
  <2>1. Goto(c, state)
    BY <1>1 DEF Fail
  <2>2. CallOK(state)
    BY <1>1 DEF CallsOK, CallOK, WhereItCanBe, Holds
  <2> HIDE DEF state
  <2>3. CallsOK' /\ crossed' = crossed /\ call'[c] = state /\ \A d \in Callers \ {c} : call'[d] = call[d]
    BY <2>1, <2>2, GotoMoves
  <2> QED
    BY <1>1, <2>3 DEF state
<1>2. CASE call[c].op # "withdraw"
  <2>1. End(c)
    BY <1>2 DEF Fail, End
  <2> QED
    BY <1>2, <2>1, EndMoves
<1> QED
  BY <1>1, <1>2

\* cancel's first write: the row, and the list of live sessions.
LEMMA CancelPlanKeeps ==
  ASSUME PlansAssumption, Shapes, NEW c \in Callers, CancelPlan(c) PROVE Shapes' /\ World
<1>1. CallsOK /\ PlansOK /\ SessionsOK
  BY DEF Shapes
<1> DEFINE p == call[c].plan
           todo == Cancellable(OfPlan(p))
           state == [call[c] EXCEPT !.pc = "sessions", !.todo = todo]
<1>2. call[c].pc = "cancel" /\ UNCHANGED <<case, people, sessions, jobs>>
  BY DEF CancelPlan
<1>3. p \in Plans /\ call[c].op \in Cancelling
  BY <1>1, <1>2 DEF CallsOK, CallOK, WhereItCanBe, Cancelling
<1>4. todo \subseteq Ids
  BY <1>1 DEF Cancellable, OfPlan, SessionsOK, SessionOK
<1>5. CASE Open(p)
  <2>1. Goto(c, state) /\ plan' = [plan EXCEPT ![p].status = "CANCELLED"]
    BY <1>5 DEF CancelPlan
  <2> HIDE DEF todo
  <2>2. /\ CallOK(state)
        /\ state.op = call[c].op /\ state.pc = "sessions" /\ state.plan = p /\ state.todo = todo
    BY <1>1, <1>2, <1>3, <1>4 DEF CallsOK, CallOK, WhereItCanBe, Holds, Cancelling
  <2>3. CallsOK' /\ crossed' = crossed /\ call'[c] = state
    BY <1>1, <2>1, <2>2, GotoMoves
  <2>4. /\ PlansOK' /\ plan'[p].status = "CANCELLED"
        /\ \A q \in Plans \ {p} : plan'[q].status = plan[q].status
    BY <1>1, <1>3, <2>1 DEF PlansOK, PlanStatus
  <2>5. \A s \in sessions' : s.plan = p /\ Live(s) => s.id \in todo
    BY <1>2 DEF todo, Cancellable, OfPlan, Live
  <2> HIDE DEF p, state
  <2>6. Moves(c, p)
    BY <1>2, <2>2, <2>3, <2>4, <2>5 DEF Moves, p
  <2>7. plan'[p].status \in PlanStatus
    BY <2>4 DEF PlanStatus
  <2>8. jobs' \subseteq Ids /\ JobsMove
    BY <1>2 DEF JobsMove, Shapes, RestOK
  <2> QED
    BY <1>2, <1>3, <2>3, <2>4, <2>6, <2>7, <2>8, StatusWritten
<1>6. CASE ~Open(p)
  <2>1. Fail(c) /\ UNCHANGED plan
    BY <1>6 DEF CancelPlan
  <2>2. CallsOK' /\ crossed' = crossed
    BY <1>1, <2>1, FailMoves
  <2>3. PlansOK'
    BY <1>1, <2>1 DEF PlansOK
  <2> QED
    BY <1>2, <2>1, <2>2, <2>3, Quiet
<1> QED
  BY <1>5, <1>6

\* A status written to one session.
LEMMA SetStatusSessions ==
  ASSUME SessionsOK, UNCHANGED plan, NEW id, NEW status \in {"COMPLETED", "CANCELLED"},
         sessions' = SetStatus(id, status)
  PROVE  /\ SessionsOK' /\ SessionsCome
         /\ \A s \in sessions' : s.id = id => s.status = status
         /\ \A t \in sessions : \E s \in sessions' :
              s.id = t.id /\ s.plan = t.plan /\ (t.id # id => s.status = t.status)
<1> DEFINE Of(t) == IF t.id = id THEN [t EXCEPT !.status = status] ELSE t
<1>1. \A t \in sessions :
        /\ SessionOK(Of(t)) /\ From(t, Of(t))
        /\ t.id = id => Of(t).status = status
        /\ t.id # id => Of(t).status = t.status
  BY DEF SessionsOK, SessionOK, From, Live
<1>2. \A t \in sessions : Of(t) \in sessions'
  BY DEF SetStatus
<1>3. \A s \in sessions' : \E t \in sessions : s = Of(t)
  BY DEF SetStatus
<1>4. \A t, u \in sessions : Of(t).id = Of(u).id => t = u
  BY <1>1 DEF SessionsOK, From
<1> HIDE DEF Of
<1>5. \A t \in sessions : Exists(t.plan)'
  BY DEF SessionsOK, Exists
<1>6. \A s \in sessions' : SessionOK(s) /\ Exists(s.plan)'
  <2>1. SUFFICES ASSUME NEW s \in sessions' PROVE SessionOK(s) /\ plan'[s.plan].status \in PlanStatus
    BY DEF Exists
  <2>2. PICK t \in sessions : s = Of(t)
    BY <1>3
  <2>3. s.plan = t.plan
    BY <1>1, <2>2 DEF From
  <2> QED
    BY <1>1, <1>5, <2>2, <2>3 DEF Exists
<1>7. SessionsOK'
  BY <1>3, <1>4, <1>6 DEF SessionsOK, SessionOK
<1>8. SessionsCome
  BY <1>1, <1>3 DEF SessionsCome
<1>9. \A s \in sessions' : s.id = id => s.status = status
  BY <1>1, <1>3 DEF From
<1>10. \A t \in sessions : \E s \in sessions' :
         s.id = t.id /\ s.plan = t.plan /\ (t.id # id => s.status = t.status)
  BY <1>1, <1>2 DEF From
<1> QED
  BY <1>7, <1>8, <1>9, <1>10

\* One session of a call's list: cancelled with its job, or an error.
LEMMA CancelSessionKeeps ==
  ASSUME PlansAssumption, Shapes, NEW c \in Callers, CancelSession(c) PROVE Shapes' /\ World
<1>1. CallsOK /\ SessionsOK /\ CallOK(call[c])
  BY DEF Shapes, CallsOK
<1>2. UNCHANGED <<case, people, plan>> /\ call[c].pc \in {"sessions", "sweep"}
  BY DEF CancelSession
<1>3. PICK id \in call[c].todo :
        IF IsStatus(id, "LIVE") \/ IsStatus(id, "CANCELLED")
        THEN /\ sessions' = SetStatus(id, "CANCELLED")
             /\ jobs' = jobs \ {id}
             /\ Goto(c, [call[c] EXCEPT !.todo = @ \ {id}])
        ELSE /\ IF call[c].pc = "sweep"
                THEN Goto(c, [call[c] EXCEPT !.todo = @ \ {id}, !.failed = TRUE])
                ELSE Fail(c)
             /\ UNCHANGED <<sessions, jobs>>
  BY DEF CancelSession
<1>4. CASE IsStatus(id, "LIVE") \/ IsStatus(id, "CANCELLED")
  <2> DEFINE state == [call[c] EXCEPT !.todo = @ \ {id}]
  <2>1. CallOK(state)
    BY <1>1, <1>2 DEF CallOK, WhereItCanBe, Holds, Idle
  <2>2. Goto(c, state)
    BY <1>3, <1>4
  <2> HIDE DEF state
  <2>3. CallsOK' /\ crossed' = crossed
    BY <1>1, <2>1, <2>2, GotoMoves
  <2>4. sessions' = SetStatus(id, "CANCELLED") /\ jobs' = jobs \ {id}
    BY <1>3, <1>4
  <2>5. /\ SessionsOK' /\ SessionsCome
        /\ \A s \in sessions' : s.id = id => s.status = "CANCELLED"
        /\ \A t \in sessions : \E s \in sessions' :
             s.id = t.id /\ s.plan = t.plan /\ (t.id # id => s.status = t.status)
    BY <1>1, <1>2, <2>4, SetStatusSessions
  <2>6. SessionsGo
    BY <2>5 DEF SessionsGo
  <2>7. jobs' \subseteq Ids /\ JobsMove
    BY <2>4, <2>5 DEF JobsMove, Live, Shapes, RestOK
  <2> QED
    BY <1>2, <2>3, <2>5, <2>6, <2>7, SessionsWritten
<1>5. CASE ~(IsStatus(id, "LIVE") \/ IsStatus(id, "CANCELLED")) /\ call[c].pc = "sweep"
  <2> DEFINE state == [call[c] EXCEPT !.todo = @ \ {id}, !.failed = TRUE]
  <2>1. CallOK(state)
    BY <1>1, <1>5 DEF CallOK, WhereItCanBe, Holds, Idle
  <2>2. Goto(c, state) /\ UNCHANGED <<case, data>>
    BY <1>2, <1>3, <1>5 DEF data
  <2> QED
    BY <2>1, <2>2, GotoQuiet
<1>6. CASE ~(IsStatus(id, "LIVE") \/ IsStatus(id, "CANCELLED")) /\ call[c].pc # "sweep"
  <2>1. Fail(c) /\ UNCHANGED <<sessions, jobs>>
    BY <1>3, <1>6
  <2>2. CallsOK' /\ crossed' = crossed
    BY <1>1, <2>1, FailMoves
  <2>3. PlansOK'
    BY <1>2 DEF Shapes, PlansOK
  <2> QED
    BY <1>2, <2>1, <2>2, <2>3, Quiet
<1> QED
  BY <1>4, <1>5, <1>6

\* The ends and the reads without a write.
LEMMA CancelDoneKeeps ==
  ASSUME PlansAssumption, Shapes, NEW c \in Callers, CancelDone(c) PROVE Shapes' /\ World
<1>1. CallOK(Idle)
  BY DEF CallOK, WhereItCanBe, Idle, Holds, PlansAssumption, Operations
<1> QED
  BY <1>1, GotoQuiet DEF CancelDone, End

\* The reading of a plan's sessions.
LEMMA ListKeeps ==
  ASSUME PlansAssumption, Shapes, NEW c \in Callers, List(c) PROVE Shapes' /\ World
<1> DEFINE shown == Shown(call[c].plan)
           wanted == IF call[c].op = "confirm" THEN {s.id : s \in shown} ELSE Cancellable(shown)
           state == [call[c] EXCEPT !.todo = wanted,
                                    !.pc = IF call[c].op = "confirm" THEN "write" ELSE "sessions"]
<1>1. CallOK(call[c]) /\ SessionsOK
  BY DEF Shapes, CallsOK
<1>2. call[c].pc = "list" /\ (End(c) \/ Goto(c, state)) /\ UNCHANGED <<case, data>>
  BY DEF List
<1>3. wanted \subseteq Ids
  BY <1>1 DEF Shown, OfPlan, Cancellable, SessionsOK, SessionOK
<1> HIDE DEF wanted
<1>4. CallOK(state)
  BY <1>1, <1>2, <1>3 DEF CallOK, WhereItCanBe, Holds, Idle
<1>5. CallOK(Idle)
  BY DEF CallOK, WhereItCanBe, Idle, Holds, PlansAssumption, Operations
<1> HIDE DEF state
<1> QED
  BY <1>2, <1>4, <1>5, GotoQuiet DEF End

\* suggest's second part: the plan is reopened, and the sessions are proposed.
LEMMA BuildKeeps ==
  ASSUME PlansAssumption, Shapes, NEW c \in Callers, Build(c) PROVE Shapes' /\ World
<1>1. CallsOK /\ PlansOK /\ CallOK(call[c])
  BY DEF Shapes, CallsOK
<1>2. At(c, "suggest", "sessions") /\ UNCHANGED <<case, people, sessions, jobs>>
  BY DEF Build
<1>3. PICK p \in Plans : p = call[c].plan
  BY <1>1, <1>2 DEF CallOK, At
<1> DEFINE proposal == Proposal(call[c].plan, call[c].seen.days).sessions
           state == [call[c] EXCEPT !.pc = "replace", !.proposal = proposal]
<1>4. /\ End(c) \/ Goto(c, state)
      /\ plan' = plan \/ (plan' = [plan EXCEPT ![p].status = "DRAFT"] /\ Exists(p))
  <2> DEFINE reopen == call[c].seen.status # "DRAFT"
  <2>1. CASE reopen /\ ~Exists(p)
    BY <1>3, <2>1 DEF Build
  <2>2. CASE ~(reopen /\ ~Exists(p))
    <3>1. plan' = IF reopen THEN [plan EXCEPT ![p].status = "DRAFT"] ELSE plan
      BY <1>3, <2>2 DEF Build
    <3>2. End(c) \/ Goto(c, state)
      BY <1>3, <2>2 DEF Build
    <3> QED
      BY <2>2, <3>1, <3>2
  <2> QED
    BY <2>1, <2>2
<1> HIDE DEF proposal
<1>5. CallOK(state)
  BY <1>1, <1>2 DEF CallOK, WhereItCanBe, Holds, At
<1> HIDE DEF state
<1>6. CallsOK' /\ crossed' = crossed
  BY <1>1, <1>4, <1>5, EndMoves, GotoMoves
<1>7. CASE plan' = plan
  <2>1. PlansOK'
    BY <1>1, <1>7 DEF PlansOK
  <2> QED
    BY <1>2, <1>6, <1>7, <2>1, Quiet
<1>8. CASE plan' = [plan EXCEPT ![p].status = "DRAFT"] /\ Exists(p)
  <2>1. /\ PlansOK' /\ plan'[p].status = "DRAFT"
        /\ \A q \in Plans \ {p} : plan'[q].status = plan[q].status
    BY <1>1, <1>3, <1>8 DEF PlansOK, PlanStatus
  <2>2. Moves(c, p)
    BY <1>2, <1>3, <1>8, <2>1 DEF Moves
  <2>3. plan'[p].status \in PlanStatus
    BY <2>1 DEF PlanStatus
  <2>4. jobs' \subseteq Ids /\ JobsMove
    BY <1>2 DEF JobsMove, Shapes, RestOK
  <2> QED
    BY <1>2, <1>6, <2>1, <2>2, <2>3, <2>4, StatusWritten
<1> QED
  BY <1>4, <1>7, <1>8

\* replaceSessionsForPlan: the new sessions have ids that nothing refers to.
LEMMA ReplaceKeeps ==
  ASSUME PlansAssumption, Shapes, NEW c \in Callers, Replace(c) PROVE Shapes' /\ World
<1>1. CallsOK /\ PlansOK /\ SessionsOK /\ CallOK(call[c])
  BY DEF Shapes, CallsOK
<1>2. At(c, "suggest", "replace") /\ UNCHANGED <<case, people, plan, jobs>> /\ End(c)
  BY DEF Replace
<1>3. PICK p \in Plans : p = call[c].plan
  BY <1>1, <1>2 DEF CallOK, At
<1>4. CallsOK' /\ crossed' = crossed
  BY <1>1, <1>2, EndMoves
<1>5. CASE ~Exists(p)
  <2>1. UNCHANGED sessions
    BY <1>3, <1>5 DEF Replace
  <2>2. PlansOK'
    BY <1>1, <1>2 DEF PlansOK
  <2> QED
    BY <1>2, <1>4, <2>1, <2>2, Quiet
<1>6. CASE Exists(p)
  <2> DEFINE proposed == call[c].proposal
             ids == {f \in [DOMAIN proposed -> Free] : IsInjective(f)}
             new == CHOOSE f \in ids : TRUE
             Session(n) == [id |-> new[n], plan |-> p, seq |-> n, day |-> call[c].seen.start + n - 1,
                            outcomes |-> ToSet(proposed[n].outcomes), status |-> "LIVE",
                            graph |-> FALSE]
  <2>1. ids # {} /\ sessions' = Kept(p) \cup {Session(n) : n \in DOMAIN proposed}
    BY <1>3, <1>6 DEF Replace
  <2>2. new \in [DOMAIN proposed -> Free] /\ IsInjective(new)
    BY <2>1
  <2>3. Free \subseteq Ids /\ Free \cap jobs = {} /\ \A s \in sessions : s.id \notin Free
    BY DEF Free, Referenced
  <2>4. \A m, n \in DOMAIN proposed : new[m] = new[n] => m = n
    BY <2>2 DEF IsInjective
  <2> HIDE DEF new, ids
  <2>5. \A n \in DOMAIN proposed :
          /\ SessionOK(Session(n)) /\ New(c, Session(n))
          /\ Session(n).id = new[n] /\ Session(n).seq = n /\ Session(n).plan = p
          /\ Session(n).id \in Free
    BY <1>3, <2>2, <2>3 DEF SessionOK, New
  <2> HIDE DEF Session, proposed
  <2>6. \A s \in Kept(p) : s \in sessions /\ (s.plan = p => s.graph)
    BY DEF Kept
  <2>7. SessionsOK'
    <3>1. \A s \in sessions' : SessionOK(s) /\ Exists(s.plan)'
      BY <1>1, <1>2, <1>6, <2>1, <2>5, <2>6 DEF SessionsOK, Exists
    <3>2. \A s, t \in sessions' : s.id = t.id => s = t
      BY <1>1, <2>1, <2>3, <2>4, <2>5, <2>6 DEF SessionsOK
    <3> QED
      BY <3>1, <3>2 DEF SessionsOK
  <2>8. SessionsCome
    <3>1. Replacing(c)
      BY <1>2, <1>3, <1>6 DEF Replacing
    <3>2. \A s \in sessions :  From(s, s)
      BY DEF From
    <3>3. \A s \in sessions' : \/ New(c, s)
                               \/ \E t \in sessions : From(t, s) /\ (t.plan = call[c].plan => s.graph)
      BY <1>3, <2>1, <2>5, <2>6, <3>2
    <3>4. \A s \in sessions' : New(c, s) => \E n \in DOMAIN proposed : s = Session(n)
      BY <1>3, <2>1, <2>6 DEF New
    <3>5. \A s, t \in sessions' : New(c, s) /\ New(c, t) /\ s.seq = t.seq => s = t
      BY <2>5, <3>4
    <3> QED
      BY <3>1, <3>3, <3>5 DEF SessionsCome
  <2>9. SessionsGo
    BY <1>2, <1>3, <1>6, <2>1 DEF SessionsGo, Replacing, Kept
  <2>10. jobs' \subseteq Ids /\ JobsMove
    BY <1>2 DEF JobsMove, Shapes, RestOK
  <2> QED
    BY <1>2, <1>4, <2>7, <2>8, <2>9, <2>10, SessionsWritten
<1> QED
  BY <1>5, <1>6

\* confirm's write: the status, and the jobs of what it listed.
LEMMA ConfirmWritesKeeps ==
  ASSUME PlansAssumption, Shapes, NEW c \in Callers, ConfirmWrites(c) PROVE Shapes' /\ World
<1>1. CallsOK /\ PlansOK /\ CallOK(call[c])
  BY DEF Shapes, CallsOK
<1>2. At(c, "confirm", "write") /\ UNCHANGED <<case, people, sessions>> /\ End(c)
  BY DEF ConfirmWrites
<1>3. PICK p \in Plans : p = call[c].plan
  BY <1>1, <1>2 DEF CallOK, At
<1>4. CallsOK' /\ crossed' = crossed
  BY <1>1, <1>2, EndMoves
<1>5. CASE ~Exists(p)
  <2>1. UNCHANGED <<plan, jobs>>
    BY <1>3, <1>5 DEF ConfirmWrites
  <2>2. PlansOK'
    BY <1>1, <2>1 DEF PlansOK
  <2> QED
    BY <1>2, <1>4, <2>1, <2>2, Quiet
<1>6. CASE Exists(p)
  <2>1. plan' = [plan EXCEPT ![p].status = "CONFIRMED"] /\ jobs' = jobs \cup call[c].todo
    BY <1>3, <1>6 DEF ConfirmWrites
  <2>2. /\ PlansOK' /\ plan'[p].status = "CONFIRMED"
        /\ \A q \in Plans \ {p} : plan'[q].status = plan[q].status
    BY <1>1, <1>3, <2>1 DEF PlansOK, PlanStatus
  <2>3. Moves(c, p)
    BY <1>2, <1>3, <1>6, <2>1, <2>2 DEF Moves
  <2>4. plan'[p].status \in PlanStatus
    BY <2>2 DEF PlanStatus
  <2>5. jobs' \subseteq Ids /\ JobsMove
    BY <1>1, <1>2, <2>1 DEF JobsMove, Shapes, RestOK, CallOK
  <2> QED
    BY <1>2, <1>4, <2>2, <2>3, <2>4, <2>5, StatusWritten
<1> QED
  BY <1>5, <1>6

\* remove's first write: the sessions of the plan.
LEMMA DeleteSessionsKeeps ==
  ASSUME PlansAssumption, Shapes, NEW c \in Callers, DeleteSessions(c) PROVE Shapes' /\ World
<1>1. CallsOK /\ SessionsOK /\ CallOK(call[c])
  BY DEF Shapes, CallsOK
<1> DEFINE state == [call[c] EXCEPT !.pc = "delete"]
<1>2. /\ At(c, "remove", "sessions") /\ UNCHANGED <<case, people, plan, jobs>> /\ Goto(c, state)
      /\ sessions' = sessions \ OfPlan(call[c].plan)
  BY DEF DeleteSessions
<1>3. CallOK(state)
  BY <1>1, <1>2 DEF CallOK, WhereItCanBe, Holds, Idle, At
<1> HIDE DEF state
<1>4. CallsOK' /\ crossed' = crossed
  BY <1>1, <1>2, <1>3, GotoMoves
<1>5. SessionsOK'
  BY <1>1, <1>2 DEF SessionsOK, Exists
<1>6. SessionsCome
  BY <1>2 DEF SessionsCome, From
<1>7. SessionsGo
  BY <1>2 DEF SessionsGo, OfPlan
<1>8. jobs' \subseteq Ids /\ JobsMove
  BY <1>2 DEF JobsMove, Shapes, RestOK
<1> QED
  BY <1>2, <1>4, <1>5, <1>6, <1>7, <1>8, SessionsWritten

\* remove's second write: the plan, unless sessions of it hold it.
LEMMA DeletePlanKeeps ==
  ASSUME PlansAssumption, Shapes, NEW c \in Callers, DeletePlan(c) PROVE Shapes' /\ World
<1>1. CallsOK /\ PlansOK /\ CallOK(call[c])
  BY DEF Shapes, CallsOK
<1>2. At(c, "remove", "delete") /\ UNCHANGED <<case, people, sessions, jobs>> /\ End(c)
  BY DEF DeletePlan
<1>3. PICK p \in Plans : p = call[c].plan
  BY <1>1, <1>2 DEF CallOK, At
<1>4. CallsOK' /\ crossed' = crossed
  BY <1>1, <1>2, EndMoves
<1>5. CASE plan' = plan
  <2>1. PlansOK'
    BY <1>1, <1>5 DEF PlansOK
  <2> QED
    BY <1>2, <1>4, <1>5, <2>1, Quiet
<1>6. CASE plan' # plan
  <2>1. OfPlan(p) = {} /\ plan' = [plan EXCEPT ![p].status = "deleted", ![p].tree = None]
    BY <1>3, <1>6 DEF DeletePlan
  <2>2. /\ PlansOK' /\ plan'[p].status = "deleted"
        /\ \A q \in Plans \ {p} : plan'[q].status = plan[q].status
    BY <1>1, <1>3, <2>1 DEF PlansOK
  <2>3. Moves(c, p)
    BY <2>1, <2>2 DEF Moves
  <2>4. jobs' \subseteq Ids /\ JobsMove
    BY <1>2 DEF JobsMove, Shapes, RestOK
  <2> QED
    BY <1>2, <1>4, <2>1, <2>2, <2>3, <2>4, StatusWritten
<1> QED
  BY <1>5, <1>6

\* reschedule's write, of the day.
LEMMA MoveKeeps ==
  ASSUME PlansAssumption, Shapes, NEW c \in Callers, Move(c) PROVE Shapes' /\ World
<1>1. CallsOK /\ SessionsOK
  BY DEF Shapes
<1>2. UNCHANGED <<case, people, plan, jobs>> /\ End(c)
  BY DEF Move
<1>3. CallsOK' /\ crossed' = crossed
  BY <1>1, <1>2, EndMoves
<1> DEFINE Of(t) == IF t.id = call[c].session THEN [t EXCEPT !.day = call[c].day] ELSE t
<1>4. sessions' = {Of(t) : t \in sessions}
  BY DEF Move
<1>5. \A t \in sessions : SessionOK(Of(t)) /\ From(t, Of(t)) /\ Of(t).status = t.status
  BY <1>1 DEF SessionsOK, SessionOK, From, Live
<1> HIDE DEF Of
<1>6. SessionsOK'
  <2>1. \A s \in sessions' : SessionOK(s) /\ Exists(s.plan)'
    <3>1. SUFFICES ASSUME NEW t \in sessions PROVE SessionOK(Of(t)) /\ plan'[Of(t).plan].status \in PlanStatus
      BY <1>4 DEF Exists
    <3>2. Of(t).plan = t.plan
      BY <1>5 DEF From
    <3> QED
      BY <1>1, <1>2, <1>5, <3>2 DEF SessionsOK, Exists
  <2>2. \A s, t \in sessions' : s.id = t.id => s = t
    BY <1>1, <1>4, <1>5 DEF SessionsOK, From
  <2> QED
    BY <2>1, <2>2 DEF SessionsOK
<1>7. SessionsCome
  BY <1>4, <1>5 DEF SessionsCome
<1>8. SessionsGo
  BY <1>4, <1>5 DEF SessionsGo, From
<1>9. jobs' \subseteq Ids /\ JobsMove
  BY <1>2 DEF JobsMove, Shapes, RestOK
<1> QED
  BY <1>2, <1>3, <1>6, <1>7, <1>8, <1>9, SessionsWritten

\* A withdrawal goes on to its next plan, or retires the assignment and sweeps.
LEMMA NextPlanKeeps ==
  ASSUME PlansAssumption, Shapes, NEW c \in Callers, NextPlan(c) PROVE Shapes' /\ World
<1>1. CallsOK /\ SessionsOK /\ PlansOK /\ CallOK(call[c])
  BY DEF Shapes, CallsOK
<1>2. call[c].op = "withdraw" /\ UNCHANGED <<case, rows, active, plan, sessions, jobs>>
  BY DEF NextPlan, At
<1> DEFINE open == call[c].plans
           p == CHOOSE q \in open : \A r \in open : q <= r
<1>3. CASE open # {}
  <2>1. p \in Plans
    BY <1>1, <1>3, FirstAndLast DEF CallOK
  <2> HIDE DEF p
  <2> DEFINE state == [call[c] EXCEPT !.pc = "cancel", !.plan = p, !.plans = open \ {p}]
  <2>2. Goto(c, state) /\ UNCHANGED <<case, data>>
    BY <1>2, <1>3 DEF NextPlan, data, people, p
  <2>3. CallOK(state)
    BY <1>1, <1>2, <2>1 DEF CallOK, WhereItCanBe, Holds, Idle
  <2> QED
    BY <2>2, <2>3, GotoQuiet
<1>4. CASE open = {}
  <2> DEFINE todo == Cancellable(sessions)
             state == [call[c] EXCEPT !.pc = "sweep", !.todo = todo]
  <2>1. Goto(c, state) /\ assigned' = (assigned /\ call[c].failed)
    BY <1>4 DEF NextPlan
  <2>2. todo \subseteq Ids
    BY <1>1 DEF Cancellable, SessionsOK, SessionOK
  <2> HIDE DEF todo
  <2>3. CallOK(state)
    BY <1>1, <1>2, <2>2 DEF CallOK, WhereItCanBe, Holds, Idle
  <2> HIDE DEF state
  <2>4. CallsOK' /\ crossed' = crossed
    BY <1>1, <2>1, <2>3, GotoMoves
  <2>5. PlansOK' /\ SessionsOK'
    BY <1>1, <1>2 DEF PlansOK, SessionsOK, Exists
  <2>6. assigned \in BOOLEAN /\ call[c].failed \in BOOLEAN
    BY <1>1 DEF Shapes, RestOK, CallOK
  <2>7. RestOK'
    BY <1>2, <2>1, <2>6 DEF Shapes, RestOK
  <2>8. PeopleMove
    BY <1>2, <2>1, <2>6 DEF PeopleMove
  <2>9. JobsMove /\ PlansMove
    BY <1>2 DEF JobsMove, PlansMove
  <2> QED
    BY <1>2, <2>4, <2>5, <2>7, <2>8, <2>9, SessionsStill DEF Shapes, World
<1> QED
  BY <1>3, <1>4

\* The end of a withdrawal.
LEMMA DeactivateKeeps ==
  ASSUME PlansAssumption, Shapes, NEW c \in Callers, Deactivate(c) PROVE Shapes' /\ World
<1>1. CallsOK /\ SessionsOK /\ PlansOK /\ CallOK(call[c])
  BY DEF Shapes, CallsOK
<1>2. /\ At(c, "withdraw", "sweep") /\ call[c].todo = {} /\ active' = (active /\ call[c].failed)
      /\ End(c) /\ UNCHANGED <<case, rows, assigned, plan, sessions, jobs>>
  BY DEF Deactivate
<1>3. CallsOK' /\ crossed' = crossed
  BY <1>1, <1>2, EndMoves
<1>4. PlansOK' /\ SessionsOK'
  BY <1>1, <1>2 DEF PlansOK, SessionsOK, Exists
<1>5. active \in BOOLEAN /\ call[c].failed \in BOOLEAN
  BY <1>1 DEF Shapes, RestOK, CallOK
<1>6. RestOK'
  BY <1>2, <1>5 DEF Shapes, RestOK
<1>7. PeopleMove
  BY <1>2, <1>5 DEF PeopleMove
<1>8. JobsMove /\ PlansMove
  BY <1>2 DEF JobsMove, PlansMove
<1> QED
  BY <1>2, <1>3, <1>4, <1>6, <1>7, <1>8, SessionsStill DEF Shapes, World

\* The calls of one write, of a plan's other columns.
LEMMA AtomicKeeps ==
  ASSUME Shapes, NEW c \in Callers, Update(c) \/ CopyTrack(c) \/ RemoveSkill(c)
  PROVE  Shapes' /\ World
<1>1. UNCHANGED <<case, people, sessions, jobs, call, crossed>>
  BY DEF Update, CopyTrack, RemoveSkill, Atomically
<1>2. PlansOK /\ CallsOK
  BY DEF Shapes
<1>3. PlansOK' /\ \A p \in Plans : plan'[p].status = plan[p].status
  <2>1. CASE Update(c)
    <3>1. PICK p \in Plans, d \in DOMAIN case.days, start \in 1 .. 2 :
            plan' = [plan EXCEPT ![p].days = case.days[d], ![p].start = start]
      BY <2>1 DEF Update
    <3> QED
      BY <1>2, <3>1 DEF PlansOK
  <2>2. CASE CopyTrack(c)
    <3>1. PICK p \in Plans : plan' = [plan EXCEPT ![p].tree = case.track]
      BY <2>2 DEF CopyTrack
    <3> QED
      BY <1>2, <3>1 DEF PlansOK
  <2>3. CASE RemoveSkill(c)
    <3>1. PICK p, k : p \in Plans /\ plan' = [plan EXCEPT ![p].tree[k].removed = TRUE]
      BY <2>3 DEF RemoveSkill
    <3> QED
      BY <1>2, <3>1 DEF PlansOK
  <2> QED
    BY <2>1, <2>2, <2>3
<1>4. CallsOK'
  BY <1>1, <1>2 DEF CallsOK
<1> QED
  BY <1>1, <1>3, <1>4, Quiet

\* A job that creates a session's meeting.
LEMMA MeetingCreatedKeeps ==
  ASSUME Shapes, NEW id \in Ids, MeetingCreated(id) PROVE Shapes' /\ World
<1>1. CallsOK /\ SessionsOK
  BY DEF Shapes
<1>2. id \in jobs /\ jobs' = jobs \ {id} /\ UNCHANGED <<case, people, plan, call, crossed>>
  BY DEF MeetingCreated
<1> DEFINE Of(t) == IF t.id = id /\ t.status = "LIVE" THEN [t EXCEPT !.graph = TRUE] ELSE t
<1>3. sessions' = {Of(t) : t \in sessions}
  BY DEF MeetingCreated
<1>4. \A t \in sessions : /\ SessionOK(Of(t)) /\ From(t, Of(t)) /\ Of(t).status = t.status
                          /\ t.id = id /\ Live(t) => Of(t).graph
  BY <1>1, <1>2 DEF SessionsOK, SessionOK, From, Live
<1> HIDE DEF Of
<1>5. SessionsOK'
  <2>1. \A s \in sessions' : SessionOK(s) /\ Exists(s.plan)'
    <3>1. SUFFICES ASSUME NEW t \in sessions PROVE SessionOK(Of(t)) /\ plan'[Of(t).plan].status \in PlanStatus
      BY <1>3 DEF Exists
    <3>2. Of(t).plan = t.plan
      BY <1>4 DEF From
    <3> QED
      BY <1>1, <1>2, <1>4, <3>2 DEF SessionsOK, Exists
  <2>2. \A s, t \in sessions' : s.id = t.id => s = t
    BY <1>1, <1>3, <1>4 DEF SessionsOK, From
  <2> QED
    BY <2>1, <2>2 DEF SessionsOK
<1>6. SessionsCome
  BY <1>3, <1>4 DEF SessionsCome
<1>7. SessionsGo
  BY <1>3, <1>4 DEF SessionsGo, From
<1>8. jobs' \subseteq Ids /\ JobsMove
  <2>1. \A s \in sessions' : s.id = id /\ Live(s) => s.graph
    BY <1>3, <1>4 DEF From
  <2> QED
    BY <1>2, <2>1 DEF JobsMove, Shapes, RestOK
<1>9. CallsOK'
  BY <1>1, <1>2 DEF CallsOK
<1> QED
  BY <1>2, <1>5, <1>6, <1>7, <1>8, <1>9, SessionsWritten

\* A session ends; a call that has it on its list is noted.
LEMMA SessionEndsKeeps ==
  ASSUME Shapes, NEW t \in sessions, NEW achieved \in BOOLEAN, SessionEnds(t, achieved)
  PROVE  Shapes' /\ World
<1>1. CallsOK /\ PlansOK /\ SessionsOK
  BY DEF Shapes
<1>2. /\ sessions' = SetStatus(t.id, "COMPLETED")
      /\ crossed' = crossed \cup {{call[c].op, "end"} : c \in {d \in Callers : t.id \in call[d].todo}}
      /\ UNCHANGED <<case, assigned, active, plan, jobs, call>>
  BY DEF SessionEnds
<1>3. /\ SessionsOK' /\ SessionsCome
      /\ \A u \in sessions : \E s \in sessions' :
           s.id = u.id /\ s.plan = u.plan /\ (u.id # t.id => s.status = u.status)
  BY <1>1, <1>2, SetStatusSessions
<1>4. SessionsGo
  <2>1. \A c \in Callers : t.id \in call[c].todo => {call[c].op, "end"} \in crossed'
    BY <1>2
  <2> QED
    BY <1>3, <2>1 DEF SessionsGo
<1>5. RestOK'
  <2>1. /\ DOMAIN rows' = DOMAIN rows
        /\ \A i \in DOMAIN rows : /\ "status" \in DOMAIN rows'[i]
                                  /\ \/ rows'[i].status = rows[i].status
                                     \/ rows'[i].status \in {"ACHIEVED", "IN_PROGRESS"}
    BY DEF SessionEnds, Shapes, RestOK
  <2> QED
    BY <1>2, <2>1 DEF Shapes, RestOK
<1>6. CallsOK' /\ PlansOK'
  BY <1>1, <1>2 DEF CallsOK, PlansOK
<1>7. JobsMove /\ PlansMove
  BY <1>2 DEF JobsMove, PlansMove
<1>8. PeopleMove
  BY <1>2 DEF PeopleMove
<1>9. crossed \subseteq crossed'
  BY <1>2
<1> QED
  BY <1>3, <1>4, <1>5, <1>6, <1>7, <1>8, <1>9 DEF Shapes, World

\* All of them.
LEMMA ShapesStep == ASSUME PlansAssumption, Shapes, [Next]_vars PROVE Shapes' /\ World
<1>1. CASE UNCHANGED vars
  <2>1. UNCHANGED <<case, people, plan, sessions, jobs, call, crossed>>
    BY <1>1 DEF vars, people
  <2>2. PlansOK' /\ CallsOK'
    BY <2>1 DEF Shapes, PlansOK, CallsOK
  <2> QED
    BY <2>1, <2>2, Quiet
<1>2. ASSUME NEW c \in Callers,
             Create(c) \/ Cancel(c) \/ SuggestPlan(c) \/ Confirm(c) \/ RemovePlan(c)
               \/ Reschedule(c) \/ Withdraw(c)
      PROVE  Shapes' /\ World
  BY <1>2, BeginsQuietly
<1>3. ASSUME NEW c \in Callers,
             InsertPlan(c) \/ CancelPlan(c) \/ CancelSession(c) \/ CancelDone(c) \/ List(c)
               \/ Build(c) \/ Replace(c)
      PROVE  Shapes' /\ World
  BY <1>3, InsertPlanKeeps, CancelPlanKeeps, CancelSessionKeeps, CancelDoneKeeps, ListKeeps,
     BuildKeeps, ReplaceKeeps
<1>4. ASSUME NEW c \in Callers,
             ConfirmWrites(c) \/ DeleteSessions(c) \/ DeletePlan(c) \/ Move(c) \/ NextPlan(c)
               \/ Deactivate(c)
      PROVE  Shapes' /\ World
  BY <1>4, ConfirmWritesKeeps, DeleteSessionsKeeps, DeletePlanKeeps, MoveKeeps, NextPlanKeeps,
     DeactivateKeeps
<1>5. ASSUME NEW c \in Callers, Update(c) \/ CopyTrack(c) \/ RemoveSkill(c) PROVE Shapes' /\ World
  BY <1>5, AtomicKeeps
<1>6. ASSUME NEW id \in Ids, MeetingCreated(id) PROVE Shapes' /\ World
  BY <1>6, MeetingCreatedKeeps
<1>7. ASSUME NEW t \in sessions, NEW achieved \in BOOLEAN, SessionEnds(t, achieved)
      PROVE  Shapes' /\ World
  BY <1>7, SessionEndsKeeps
<1> QED
  BY <1>1, <1>2, <1>3, <1>4, <1>5, <1>6, <1>7 DEF Next

-----------------------------------------------------------------------------
(* Whose call moves, and which calls have been noted together.             *)

Begins(c) == Create(c) \/ Cancel(c) \/ SuggestPlan(c) \/ Confirm(c) \/ RemovePlan(c)
               \/ Reschedule(c) \/ Withdraw(c)
GoesOn(c) == InsertPlan(c) \/ CancelPlan(c) \/ CancelSession(c) \/ CancelDone(c) \/ List(c)
               \/ Build(c) \/ Replace(c) \/ ConfirmWrites(c) \/ DeleteSessions(c) \/ DeletePlan(c)
               \/ Move(c) \/ NextPlan(c) \/ Deactivate(c)

\* A step of a call leaves the others.
LEMMA OthersStay ==
  ASSUME CallsOK, NEW c \in Callers, Begins(c) \/ GoesOn(c), NEW d \in Callers, d # c
  PROVE  call'[d] = call[d]
<1>1. CASE Begins(c)
  <2>1. \A op, state : Begin(c, op, state) => call'[d] = call[d]
    BY DEF Begin, CallsOK
  <2> QED
    BY <1>1, <2>1 DEF Begins, Create, Cancel, SuggestPlan, Confirm, RemovePlan, Reschedule, Withdraw
<1>2. CASE GoesOn(c)
  <2>1. \A state : Goto(c, state) => call'[d] = call[d]
    BY DEF Goto, CallsOK
  <2>2. (End(c) => call'[d] = call[d]) /\ (Fail(c) => call'[d] = call[d])
    BY <2>1 DEF End, Fail
  <2> QED
    BY <1>2, <2>1, <2>2 DEF GoesOn, InsertPlan, CancelPlan, CancelSession, CancelDone, List, Build,
       Replace, ConfirmWrites, DeleteSessions, DeletePlan, Move, NextPlan, Deactivate
<1> QED
  BY <1>1, <1>2

\* So a call that moved did a step of its own.
LEMMA Movers ==
  ASSUME CallsOK, [Next]_vars, NEW c \in Callers, call'[c] # call[c]
  PROVE  Begins(c) \/ GoesOn(c)
<1>1. \A d \in Callers : Begins(d) \/ GoesOn(d) => d = c
  BY OthersStay
<1>2. ~UNCHANGED call
  OBVIOUS
<1>3. \E d \in Callers : Begins(d) \/ GoesOn(d)
  <2>1. \A d \in Callers : ~Update(d) /\ ~CopyTrack(d) /\ ~RemoveSkill(d)
    BY <1>2 DEF Update, CopyTrack, RemoveSkill, Atomically
  <2>2. \A id \in Ids : ~MeetingCreated(id)
    BY <1>2 DEF MeetingCreated
  <2>3. \A s \in sessions, achieved \in BOOLEAN : ~SessionEnds(s, achieved)
    BY <1>2 DEF SessionEnds
  <2>4. ~UNCHANGED vars
    BY <1>2 DEF vars
  <2> QED
    BY <2>1, <2>2, <2>3, <2>4 DEF Next, Begins, GoesOn
<1> QED
  BY <1>1, <1>3

\* A call that begins is noted with those in flight, and one that goes on ends or
\* keeps its operation.
LEMMA BeginsMove ==
  ASSUME CallsOK, CallsOK', NEW c \in Callers, Begins(c)
  PROVE  \A d \in Callers : call[d].pc # "idle" => {call'[c].op, call[d].op} \in crossed'
<1>1. \A op, state : Begin(c, op, state) =>
        \A d \in Callers : call[d].pc # "idle" => {call'[c].op, call[d].op} \in crossed'
  <2>1. SUFFICES ASSUME NEW op, NEW state, Begin(c, op, state),
                        NEW d \in Callers, call[d].pc # "idle"
                 PROVE  {call'[c].op, call[d].op} \in crossed'
    OBVIOUS
  <2>2. call'[c] = [state EXCEPT !.op = op] /\ DOMAIN call'[c] = Holds
    BY <2>1 DEF Begin, CallsOK, CallOK
  <2>3. call'[c].op = op
    BY <2>2 DEF Holds
  <2> QED
    BY <2>1, <2>3 DEF Begin
<1> QED
  BY <1>1 DEF Begins, Create, Cancel, SuggestPlan, Confirm, RemovePlan, Reschedule, Withdraw

\* A call that goes on was in flight, and ends or keeps its operation.
LEMMA GoesOnMoves ==
  ASSUME PlansAssumption, CallsOK, CallsOK', NEW c \in Callers, GoesOn(c)
  PROVE  call[c].pc # "idle" /\ (call'[c] = Idle \/ call'[c].op = call[c].op)
<1>1. DOMAIN call[c] = Holds /\ WhereItCanBe(call[c]) /\ DOMAIN call = Callers
  BY DEF CallsOK, CallOK
<1>2. call[c].pc = "idle" => call[c].op = None /\ call[c] = Idle
  BY <1>1 DEF WhereItCanBe
<1>3. call[c].pc # "idle"
  BY <1>2 DEF GoesOn, InsertPlan, CancelPlan, CancelSession, CancelDone, List, Build,
     Replace, ConfirmWrites, DeleteSessions, DeletePlan, Move, NextPlan, Deactivate, At
<1>4. End(c) => call'[c] = Idle
  BY <1>1 DEF End, Goto
<1>5. Fail(c) => call'[c] = Idle \/ call'[c].op = call[c].op
  BY <1>1 DEF Fail, Goto, Holds
<1>6. \A todo, pc : Goto(c, [call[c] EXCEPT !.pc = pc, !.todo = todo]) => call'[c].op = call[c].op
  BY <1>1 DEF Goto, Holds
<1>7. \A todo : Goto(c, [call[c] EXCEPT !.todo = todo]) => call'[c].op = call[c].op
  BY <1>1 DEF Goto, Holds
<1>8. InsertPlan(c) \/ CancelDone(c) \/ Replace(c) \/ ConfirmWrites(c) \/ DeletePlan(c) \/ Move(c)
        \/ Deactivate(c) => call'[c] = Idle
  BY <1>4 DEF InsertPlan, CancelDone, Replace, ConfirmWrites, DeletePlan, Move, Deactivate
<1>9. CancelPlan(c) \/ DeleteSessions(c) \/ NextPlan(c) \/ List(c) \/ Build(c) \/ CancelSession(c)
        => call'[c] = Idle \/ call'[c].op = call[c].op
  <2>1. CancelPlan(c) => call'[c] = Idle \/ call'[c].op = call[c].op
    BY <1>5, <1>6 DEF CancelPlan
  <2>2. DeleteSessions(c) => call'[c].op = call[c].op
    BY <1>1 DEF DeleteSessions, Goto, Holds
  <2>3. NextPlan(c) => call'[c].op = call[c].op
    BY <1>1 DEF NextPlan, Goto, Holds
  <2>4. List(c) => call'[c] = Idle \/ call'[c].op = call[c].op
    BY <1>1, <1>4 DEF List, Goto, Holds
  <2>5. Build(c) => call'[c] = Idle \/ call'[c].op = call[c].op
    <3>1. SUFFICES ASSUME Build(c) PROVE call'[c] = Idle \/ call'[c].op = call[c].op
      OBVIOUS
    <3>2. PICK proposal : End(c) \/ Goto(c, [call[c] EXCEPT !.pc = "replace", !.proposal = proposal])
      BY <3>1 DEF Build
    <3> QED
      BY <1>1, <1>4, <3>2 DEF Goto, Holds
  <2>6. CancelSession(c) => call'[c] = Idle \/ call'[c].op = call[c].op
    <3>1. SUFFICES ASSUME CancelSession(c) PROVE call'[c] = Idle \/ call'[c].op = call[c].op
      OBVIOUS
    <3>2. PICK id \in call[c].todo :
            \/ Goto(c, [call[c] EXCEPT !.todo = @ \ {id}])
            \/ Goto(c, [call[c] EXCEPT !.todo = @ \ {id}, !.failed = TRUE])
            \/ Fail(c)
      BY <3>1 DEF CancelSession
    <3> QED
      BY <1>1, <1>5, <3>2 DEF Goto, Holds
  <2> QED
    BY <2>1, <2>2, <2>3, <2>4, <2>5, <2>6
<1> QED
  BY <1>3, <1>8, <1>9 DEF GoesOn

\* Whatever moved it.
LEMMA HowCallsMove ==
  ASSUME PlansAssumption, CallsOK, CallsOK', [Next]_vars, NEW c \in Callers, call'[c] # call[c]
  PROVE  \/ call'[c] = Idle
         \/ call[c].pc # "idle" /\ call'[c].op = call[c].op
         \/ \A d \in Callers : call[d].pc # "idle" => {call'[c].op, call[d].op} \in crossed'
  BY Movers, BeginsMove, GoesOnMoves

\* Which steps a call of each operation has.
LEMMA Arrives ==
  ASSUME PlansAssumption, CallsOK, CallsOK', [Next]_vars, NEW c \in Callers, call'[c] # call[c]
  PROVE  /\ call'[c].op = "confirm" => Confirm(c) \/ List(c)
         /\ call'[c].op = "suggest" => SuggestPlan(c) \/ List(c) \/ CancelSession(c) \/ Build(c)
         /\ call'[c].op = "create" => Create(c) \/ CancelPlan(c) \/ CancelSession(c)
         /\ call'[c].op = "cancel" => Cancel(c) \/ CancelPlan(c) \/ CancelSession(c)
         /\ call'[c].op = "withdraw" =>
              Withdraw(c) \/ CancelPlan(c) \/ CancelSession(c) \/ NextPlan(c)
<1>1. None \notin Operations /\ Idle.op = None
  BY DEF PlansAssumption, Idle
<1>2. CASE Begins(c)
  <2>1. /\ Create(c) => call'[c].op = "create"
        /\ Cancel(c) => call'[c].op = "cancel"
        /\ SuggestPlan(c) => call'[c].op = "suggest"
        /\ Confirm(c) => call'[c].op = "confirm"
        /\ RemovePlan(c) => call'[c].op = "remove"
        /\ Reschedule(c) => call'[c].op = "reschedule"
        /\ Withdraw(c) => call'[c].op = "withdraw"
    <3>1. \A op, state : Begin(c, op, state) => call'[c].op = op
      <4>1. SUFFICES ASSUME NEW op, NEW state, Begin(c, op, state) PROVE call'[c].op = op
        OBVIOUS
      <4>2. call'[c] = [state EXCEPT !.op = op] /\ DOMAIN call'[c] = Holds
        BY <4>1 DEF Begin, CallsOK, CallOK
      <4> QED
        BY <4>2 DEF Holds
    <3> QED
      BY <3>1 DEF Create, Cancel, SuggestPlan, Confirm, RemovePlan, Reschedule, Withdraw
  <2> QED
    BY <1>2, <2>1 DEF Begins
<1>3. CASE GoesOn(c)
  <2>1. SUFFICES ASSUME call'[c].op \in Operations
                 PROVE  /\ call[c].op = "confirm" => List(c)
                        /\ call[c].op = "suggest" => List(c) \/ CancelSession(c) \/ Build(c)
                        /\ call[c].op = "create" => CancelPlan(c) \/ CancelSession(c)
                        /\ call[c].op = "cancel" => CancelPlan(c) \/ CancelSession(c)
                        /\ call[c].op = "withdraw" => CancelPlan(c) \/ CancelSession(c) \/ NextPlan(c)
    BY <1>1, <1>3, GoesOnMoves DEF Operations
  <2>2. DOMAIN call = Callers /\ WhereItCanBe(call[c])
    BY DEF CallsOK, CallOK
  <2>3. ~End(c)
    BY <1>1, <2>1, <2>2 DEF End, Goto
  <2>4. GoesOn(c) => CancelPlan(c) \/ CancelSession(c) \/ List(c) \/ Build(c) \/ DeleteSessions(c) \/ NextPlan(c)
    BY <2>3 DEF GoesOn, InsertPlan, CancelDone, Replace, ConfirmWrites, DeletePlan, Move, Deactivate
  <2>5. /\ CancelPlan(c) => call[c].pc = "cancel"
        /\ CancelSession(c) => call[c].pc \in {"sessions", "sweep"}
        /\ List(c) => call[c].pc = "list"
        /\ Build(c) => call[c].op = "suggest"
        /\ DeleteSessions(c) => call[c].op = "remove"
        /\ NextPlan(c) => call[c].op = "withdraw"
    BY DEF CancelPlan, CancelSession, List, Build, DeleteSessions, NextPlan, At
  <2> QED
    BY <1>3, <2>2, <2>4, <2>5 DEF WhereItCanBe
<1> QED
  BY <1>2, <1>3, Movers

\* Two calls that are in flight after a step have been noted.
LEMMA NotedStep ==
  ASSUME PlansAssumption, CallsOK, CallsOK', Noted, [Next]_vars, crossed \subseteq crossed'
  PROVE  Noted'
<1>1. SUFFICES ASSUME NEW c \in Callers, NEW d \in Callers, c # d,
                      call'[c].pc # "idle", call'[d].pc # "idle"
               PROVE  {call'[c].op, call'[d].op} \in crossed'
  BY DEF Noted
<1>2. Idle.pc = "idle"
  BY DEF Idle
<1>3. call'[c] = call[c] \/ call'[d] = call[d]
  BY <1>1, Movers, OthersStay
<1>4. ASSUME NEW a \in Callers, NEW b \in Callers, a # b, call'[b] = call[b],
             call'[a].pc # "idle", call'[b].pc # "idle"
      PROVE  {call'[a].op, call'[b].op} \in crossed'
  <2>1. CASE call'[a] = call[a]
    BY <1>4, <2>1 DEF Noted
  <2>2. CASE call'[a] # call[a]
    BY <1>2, <1>4, <2>2, HowCallsMove DEF Noted
  <2> QED
    BY <2>1, <2>2
<1>5. {call'[c].op, call'[d].op} = {call'[d].op, call'[c].op}
  OBVIOUS
<1> QED
  BY <1>1, <1>3, <1>4, <1>5

-----------------------------------------------------------------------------
(* The properties' own parts.                                              *)

Step == IInv /\ [Next]_vars /\ Shapes' /\ Noted' /\ World

\* What has overlapped stays noted, and calls in flight together have overlapped.
LEMMA NamesStay ==
  ASSUME crossed \subseteq crossed'
  PROVE  /\ Confirmed => Confirmed'
         /\ Revived => Revived'
         /\ Doubled => Doubled'
         /\ EndedUnder => EndedUnder'
         /\ Outlived => Outlived'
  BY DEF Confirmed, Revived, Doubled, EndedUnder, Outlived, Crossed

\* Two calls in flight have been noted with each other.
LEMMA Overlapping ==
  ASSUME PlansAssumption, CallsOK, Noted, NEW c \in Callers, NEW d \in Callers, c # d
  PROVE  /\ call[c].op = "suggest" /\ call[d].op = "confirm" => Confirmed
         /\ call[c].op \in {"suggest", "confirm"} /\ call[d].op \in Cancelling => Revived
         /\ call[c].op = "create" /\ call[d].op = "create" => Doubled
         /\ call[c].op = "create" /\ call[d].op = "withdraw" => Outlived
<1>1. \A e \in Callers : call[e].op \in {"suggest", "confirm"} \cup Cancelling => call[e].pc # "idle"
  BY DEF CallsOK, CallOK, WhereItCanBe, Cancelling, PlansAssumption, Operations
<1>2. call[c].pc # "idle" /\ call[d].pc # "idle" => {call[c].op, call[d].op} \in crossed
  BY DEF Noted
<1> QED
  BY <1>1, <1>2 DEF Confirmed, Revived, Doubled, Outlived, Crossed, Cancelling

\* Where a new session comes from: of a suggest, whose plan is not over.
LEMMA Comes ==
  ASSUME SessionsCome, NEW s \in sessions'
  PROVE  \/ \E t \in sessions : From(t, s)
         \/ \E c \in Callers : Replacing(c) /\ New(c, s)
  BY DEF SessionsCome

\* A live session of a plan was one before, or comes with a suggest of that plan.
LEMMA LiveBefore ==
  ASSUME SessionsCome, NEW s \in sessions', Live(s)
  PROVE  \/ \E t \in OfPlan(s.plan) : From(t, s) /\ Live(t)
         \/ \E c \in Callers : call[c].op = "suggest" /\ Replacing(c) /\ New(c, s)
  BY Comes DEF From, OfPlan, Replacing, At

\* What a call has after its reading of the sessions.
LEMMA Listed ==
  ASSUME PlansAssumption, CallsOK, NEW c \in Callers, List(c), call'[c].op # None
  PROVE  /\ UNCHANGED <<plan, sessions, jobs>>
         /\ call[c].pc = "list" /\ call'[c].op = call[c].op /\ call'[c].plan = call[c].plan
         /\ call'[c].seen = call[c].seen
         /\ call'[c].pc = IF call[c].op = "confirm" THEN "write" ELSE "sessions"
         /\ \A s \in OfPlan(call[c].plan) : Live(s) => s.id \in call'[c].todo
<1>1. CallOK(call[c]) /\ DOMAIN call = Callers
  BY DEF CallsOK
<1> DEFINE shown == Shown(call[c].plan)
           wanted == IF call[c].op = "confirm" THEN {s.id : s \in shown} ELSE Cancellable(shown)
           state == [call[c] EXCEPT !.todo = wanted,
                                    !.pc = IF call[c].op = "confirm" THEN "write" ELSE "sessions"]
<1>2. call[c].pc = "list" /\ (End(c) \/ Goto(c, state)) /\ UNCHANGED <<case, data>>
  BY DEF List
<1>3. ~End(c)
  BY <1>1 DEF End, Goto, Idle
<1>4. call'[c] = state
  BY <1>1, <1>2, <1>3 DEF Goto
<1>5. \A s \in OfPlan(call[c].plan) : Live(s) => s.id \in wanted
  BY DEF Shown, Cancellable, Live
<1> HIDE DEF wanted
<1> QED
  BY <1>1, <1>2, <1>4, <1>5 DEF CallOK, Holds, data

\* A confirm has still listed the live sessions of its plan.
LEMMA ConfirmAtStep ==
  ASSUME PlansAssumption, Step, NEW d \in Callers PROVE ConfirmAt(d)'
<1>1. CallsOK /\ CallsOK' /\ Noted /\ SessionsCome /\ ProposalsInv /\ [Next]_vars
  BY DEF Step, IInv, Shapes, World
<1>2. SUFFICES ASSUME call'[d].op = "confirm", call'[d].pc = "write", ~Confirmed',
                      NEW s \in sessions', s.plan = call'[d].plan, Live(s)
               PROVE  s.id \in call'[d].todo
  BY DEF ConfirmAt, OfPlan, At
<1>3. ~Confirmed
  BY <1>2, NamesStay DEF Step, World
<1>4. CASE call'[d] = call[d]
  <2>1. ~\E c \in Callers : call[c].op = "suggest" /\ Replacing(c) /\ New(c, s)
    <3>1. SUFFICES ASSUME NEW c \in Callers, call[c].op = "suggest" PROVE FALSE
      OBVIOUS
    <3>2. c # d
      BY <1>2, <1>4, <3>1
    <3> QED
      BY <1>1, <1>2, <1>3, <1>4, <3>1, <3>2, Overlapping
  <2>2. PICK t \in OfPlan(s.plan) : From(t, s) /\ Live(t)
    BY <1>1, <1>2, <2>1, LiveBefore
  <2>3. ConfirmAt(d)
    BY <1>1 DEF ProposalsInv
  <2> QED
    BY <1>2, <1>3, <1>4, <2>2, <2>3 DEF ConfirmAt, At, From
<1>5. CASE call'[d] # call[d]
  <2>1. Confirm(d) \/ List(d)
    BY <1>1, <1>2, <1>5, Arrives
  <2>2. CASE Confirm(d)
    <3>1. call'[d].pc = "list"
      BY <1>1, <2>2 DEF Confirm, Begin, CallsOK, Idle
    <3> QED
      BY <1>2, <3>1
  <2>3. CASE List(d)
    <3>1. "confirm" # None
      BY DEF PlansAssumption, Operations
    <3> QED
      BY <1>1, <1>2, <2>3, <3>1, Listed DEF OfPlan
  <2> QED
    BY <2>1, <2>2, <2>3
<1> QED
  BY <1>4, <1>5

\* A session on the list of a call that goes on with it is on the list still, or is
\* cancelled, unless the call fails.
LEMMA CancelsOne ==
  ASSUME PlansAssumption, Shapes, NEW c \in Callers, CancelSession(c), call'[c].op # None
  PROVE  /\ UNCHANGED plan
         /\ call'[c].op = call[c].op /\ call'[c].plan = call[c].plan /\ call'[c].seen = call[c].seen
         /\ call'[c].plans = call[c].plans /\ call'[c].todo \subseteq call[c].todo
         /\ \/ /\ call'[c].pc = call[c].pc
               /\ call[c].failed => call'[c].failed
               /\ \A s \in sessions' : Live(s) /\ s.id \in call[c].todo => s.id \in call'[c].todo
            \/ /\ call[c].op = "withdraw" /\ call[c].pc = "sessions"
               /\ call'[c].pc = "withdraw" /\ call'[c].failed
               /\ UNCHANGED sessions
               /\ \E id \in call[c].todo : ~IsStatus(id, "LIVE") /\ ~IsStatus(id, "CANCELLED")
<1>1. CallsOK /\ SessionsOK /\ CallOK(call[c]) /\ DOMAIN call = Callers
  BY DEF Shapes, CallsOK
<1>2. UNCHANGED plan /\ call[c].pc \in {"sessions", "sweep"} /\ DOMAIN call[c] = Holds
  BY <1>1 DEF CancelSession, CallOK
<1>3. PICK id \in call[c].todo :
        IF IsStatus(id, "LIVE") \/ IsStatus(id, "CANCELLED")
        THEN /\ sessions' = SetStatus(id, "CANCELLED")
             /\ jobs' = jobs \ {id}
             /\ Goto(c, [call[c] EXCEPT !.todo = @ \ {id}])
        ELSE /\ IF call[c].pc = "sweep"
                THEN Goto(c, [call[c] EXCEPT !.todo = @ \ {id}, !.failed = TRUE])
                ELSE Fail(c)
             /\ UNCHANGED <<sessions, jobs>>
  BY DEF CancelSession
<1>4. CASE IsStatus(id, "LIVE") \/ IsStatus(id, "CANCELLED")
  <2>1. call'[c] = [call[c] EXCEPT !.todo = @ \ {id}]
    BY <1>1, <1>3, <1>4 DEF Goto
  <2>2. \A s \in sessions' : s.id = id => ~Live(s)
    BY <1>1, <1>2, <1>3, <1>4, SetStatusSessions DEF Live
  <2>3. /\ call'[c].op = call[c].op /\ call'[c].plan = call[c].plan /\ call'[c].seen = call[c].seen
        /\ call'[c].plans = call[c].plans /\ call'[c].todo = call[c].todo \ {id}
        /\ call'[c].pc = call[c].pc /\ call'[c].failed = call[c].failed
    BY <1>2, <2>1 DEF Holds
  <2> QED
    BY <1>2, <2>2, <2>3
<1>5. CASE ~(IsStatus(id, "LIVE") \/ IsStatus(id, "CANCELLED")) /\ call[c].pc = "sweep"
  <2>1. call'[c] = [call[c] EXCEPT !.todo = @ \ {id}, !.failed = TRUE] /\ sessions' = sessions
    BY <1>1, <1>3, <1>5 DEF Goto
  <2>2. \A s \in sessions' : s.id = id => ~Live(s)
    BY <1>5, <2>1 DEF Live, IsStatus
  <2>3. /\ call'[c].op = call[c].op /\ call'[c].plan = call[c].plan /\ call'[c].seen = call[c].seen
        /\ call'[c].plans = call[c].plans /\ call'[c].todo = call[c].todo \ {id}
        /\ call'[c].pc = call[c].pc /\ call'[c].failed
    BY <1>2, <2>1 DEF Holds
  <2> QED
    BY <1>2, <2>2, <2>3
<1>6. CASE ~(IsStatus(id, "LIVE") \/ IsStatus(id, "CANCELLED")) /\ call[c].pc # "sweep"
  <2>1. Fail(c) /\ sessions' = sessions
    BY <1>3, <1>6
  <2>2. Idle.op = None
    BY DEF Idle
  <2>3. /\ call[c].op = "withdraw"
        /\ call'[c] = [call[c] EXCEPT !.pc = "withdraw", !.failed = TRUE, !.todo = {}]
    BY <1>1, <2>1, <2>2, FailMoves
  <2>4. /\ call'[c].op = call[c].op /\ call'[c].plan = call[c].plan /\ call'[c].seen = call[c].seen
        /\ call'[c].plans = call[c].plans /\ call'[c].todo = {}
        /\ call'[c].pc = "withdraw" /\ call'[c].failed
    BY <1>2, <2>3 DEF Holds
  <2> QED
    BY <1>2, <1>6, <2>1, <2>3, <2>4
<1> QED
  BY <1>4, <1>5, <1>6

\* What a suggest has after its build.
LEMMA Built ==
  ASSUME PlansAssumption, CallsOK, PlansOK, NEW c \in Callers, Build(c), call'[c].op # None
  PROVE  /\ UNCHANGED <<sessions, jobs>> /\ At(c, "suggest", "sessions")
         /\ call[c].todo = {} /\ call'[c].todo = {}
         /\ call'[c].plan = call[c].plan /\ call'[c].pc = "replace"
         /\ \/ plan'[call[c].plan].status = "DRAFT"
            \/ UNCHANGED plan /\ call[c].seen.status = "DRAFT"
<1>1. CallOK(call[c]) /\ DOMAIN call = Callers
  BY DEF CallsOK
<1>2. At(c, "suggest", "sessions") /\ call[c].todo = {} /\ UNCHANGED <<sessions, jobs>>
  BY DEF Build
<1>3. PICK p \in Plans : p = call[c].plan
  BY <1>1, <1>2 DEF CallOK, At
<1> DEFINE proposal == Proposal(call[c].plan, call[c].seen.days).sessions
           state == [call[c] EXCEPT !.pc = "replace", !.proposal = proposal]
           reopen == call[c].seen.status # "DRAFT"
<1>4. ~End(c)
  BY <1>1 DEF End, Goto, Idle
<1>5. ~(reopen /\ ~Exists(p))
  BY <1>3, <1>4 DEF Build
<1>6. plan' = IF reopen THEN [plan EXCEPT ![p].status = "DRAFT"] ELSE plan
  BY <1>3, <1>5 DEF Build
<1>7. Goto(c, state)
  BY <1>3, <1>4, <1>5 DEF Build
<1> HIDE DEF proposal
<1>8. call'[c] = state
  BY <1>1, <1>7 DEF Goto
<1>9. /\ call'[c].todo = call[c].todo /\ call'[c].plan = call[c].plan /\ call'[c].pc = "replace"
  BY <1>1, <1>8 DEF CallOK, Holds
<1>10. plan'[p].status = "DRAFT" \/ (UNCHANGED plan /\ ~reopen)
  BY <1>6 DEF PlansOK
<1> QED
  BY <1>2, <1>3, <1>9, <1>10

\* What a suggest knows of its plan, while its list is the same or what is left of it.
LEMMA SuggestCarries ==
  ASSUME PlansAssumption, Step, NEW d \in Callers, call[d].op = "suggest", call'[d].op = "suggest",
         call'[d].plan = call[d].plan, call'[d].pc = call[d].pc, call'[d].seen = call[d].seen,
         call'[d].todo \subseteq call[d].todo,
         \A s \in sessions' : Live(s) /\ s.id \in call[d].todo => s.id \in call'[d].todo
  PROVE  SuggestAt(d)'
<1>1. /\ CallsOK /\ Noted /\ SessionsCome /\ JobsMove /\ PlansMove /\ SuggestAt(d)
  BY DEF Step, IInv, Shapes, World, ProposalsInv
<1>2. CASE Confirmed'
  BY <1>1, <1>2 DEF SuggestAt
<1>3. CASE ~Confirmed'
  <2>1. ~Confirmed
    BY <1>3, NamesStay DEF Step, World
  <2>2. \A c \in Callers : call[c].op # "confirm"
    <3>1. SUFFICES ASSUME NEW c \in Callers, call[c].op = "confirm" PROVE FALSE
      OBVIOUS
    <3> QED
      BY <1>1, <2>1, <3>1, Overlapping
  <2>3. PICK p \in Plans : p = call[d].plan
    BY <1>1 DEF CallsOK, CallOK
  <2>4. plan'[p].status = "CONFIRMED" => plan[p].status = "CONFIRMED"
    BY <1>1, <2>2 DEF PlansMove, Moves, At
  <2>5. \A id \in jobs' : id \in jobs
    BY <1>1, <2>2 DEF JobsMove, At
  <2>6. ASSUME call[d].pc \in {"sessions", "replace"}, NEW s \in sessions', s.plan = p, Live(s)
        PROVE  s.id \in call'[d].todo \/ (~s.graph /\ s.id \notin jobs')
    <3>1. CASE \E c \in Callers : New(c, s)
      BY <2>5, <3>1 DEF New
    <3>2. CASE \E t \in OfPlan(s.plan) : From(t, s) /\ Live(t)
      <4>1. PICK t \in OfPlan(s.plan) : From(t, s) /\ Live(t)
        BY <3>2
      <4>2. t.id \in call[d].todo \/ (~t.graph /\ t.id \notin jobs)
        BY <1>1, <2>1, <2>3, <2>6, <4>1 DEF SuggestAt
      <4> QED
        BY <2>5, <2>6, <4>1, <4>2 DEF From
    <3> QED
      BY <1>1, <2>6, <3>1, <3>2, LiveBefore
  <2> QED
    BY <1>1, <2>1, <2>3, <2>4, <2>6 DEF SuggestAt, OfPlan
<1> QED
  BY <1>2, <1>3

\* A suggest goes on knowing what it has to.
LEMMA SuggestAtStep ==
  ASSUME PlansAssumption, Step, NEW d \in Callers PROVE SuggestAt(d)'
<1>1. CallsOK /\ CallsOK' /\ PlansOK /\ Shapes /\ SuggestAt(d) /\ [Next]_vars
  BY DEF Step, IInv, Shapes, ProposalsInv
<1>2. SUFFICES ASSUME call'[d].op = "suggest" PROVE SuggestAt(d)'
  BY DEF SuggestAt
<1>3. "suggest" # None /\ "confirm" # "suggest"
  BY DEF PlansAssumption, Operations
<1>4. CASE call'[d] = call[d]
  BY <1>2, <1>4, SuggestCarries
<1>5. CASE call'[d] # call[d]
  <2>1. SuggestPlan(d) \/ List(d) \/ CancelSession(d) \/ Build(d)
    BY <1>1, <1>2, <1>5, Arrives
  <2>2. CASE SuggestPlan(d)
    <3>1. PICK p \in Plans :
            Begin(d, "suggest", [Idle EXCEPT !.pc = "list", !.plan = p, !.seen = plan[p]])
      BY <2>2 DEF SuggestPlan
    <3>2. call'[d].pc = "list" /\ call'[d].plan = p /\ call'[d].seen = plan[p]
      BY <1>1, <3>1 DEF Begin, CallsOK, Idle
    <3>3. plan' = plan
      BY <2>2 DEF SuggestPlan, data
    <3> QED
      BY <3>2, <3>3 DEF SuggestAt
  <2>3. CASE List(d)
    <3>1. /\ UNCHANGED <<plan, sessions, jobs>>
          /\ call[d].pc = "list" /\ call[d].op = "suggest" /\ call'[d].plan = call[d].plan
          /\ call'[d].seen = call[d].seen /\ call'[d].pc = "sessions"
          /\ \A s \in OfPlan(call[d].plan) : Live(s) => s.id \in call'[d].todo
      BY <1>1, <1>2, <1>3, <2>3, Listed
    <3>2. Confirmed => Confirmed'
      BY NamesStay DEF Step, World
    <3> QED
      BY <1>1, <3>1, <3>2 DEF SuggestAt, OfPlan
  <2>4. CASE CancelSession(d)
    <3>1. /\ call'[d].op = call[d].op /\ call'[d].plan = call[d].plan /\ call'[d].seen = call[d].seen
          /\ call'[d].todo \subseteq call[d].todo
          /\ call[d].op = "suggest" => /\ call'[d].pc = call[d].pc
               /\ \A s \in sessions' : Live(s) /\ s.id \in call[d].todo => s.id \in call'[d].todo
      BY <1>1, <1>2, <1>3, <2>4, CancelsOne
    <3> QED
      BY <1>2, <3>1, SuggestCarries
  <2>5. CASE Build(d)
    <3>1. /\ UNCHANGED <<sessions, jobs>> /\ At(d, "suggest", "sessions")
          /\ call[d].todo = {} /\ call'[d].todo = {}
          /\ call'[d].plan = call[d].plan /\ call'[d].pc = "replace"
          /\ \/ plan'[call[d].plan].status = "DRAFT"
             \/ UNCHANGED plan /\ call[d].seen.status = "DRAFT"
      BY <1>1, <1>2, <1>3, <2>5, Built
    <3>2. Confirmed => Confirmed'
      BY NamesStay DEF Step, World
    <3> QED
      BY <1>1, <3>1, <3>2 DEF SuggestAt, At, OfPlan
  <2> QED
    BY <2>1, <2>2, <2>3, <2>4, <2>5
<1> QED
  BY <1>4, <1>5

\* Of a plan's live sessions no two have the same place: a suggest keeps only those
\* with a meeting, and of those none is live.
LEMMA OneProposalStep == ASSUME PlansAssumption, Step PROVE OneProposal'
<1>1. /\ CallsOK /\ Noted /\ SessionsCome /\ OneProposal /\ SessionsOK'
      /\ \A c \in Callers : SuggestAt(c)
  BY DEF Step, IInv, Shapes, World, ProposalsInv
<1>2. SUFFICES ASSUME NEW s \in sessions', NEW t \in sessions', s.plan = t.plan, s.seq = t.seq,
                      Live(s), Live(t), ~Confirmed'
               PROVE  s = t
  BY DEF OneProposal, Live, Confirmed
<1>3. ~Confirmed
  BY <1>2, NamesStay DEF Step, World
<1>4. ASSUME NEW a \in sessions, NEW b \in sessions, From(a, s), From(b, t) PROVE s = t
  <2>1. a = b
    BY <1>1, <1>2, <1>3, <1>4 DEF OneProposal, From, Live, Confirmed
  <2> QED
    BY <1>1, <1>4, <2>1 DEF SessionsOK, From
<1>5. CASE \A r \in sessions' : \E a \in sessions : From(a, r)
  BY <1>4, <1>5
<1>6. CASE \E c \in Callers :
             /\ Replacing(c)
             /\ \A r \in sessions' :
                  New(c, r) \/ \E a \in sessions : From(a, r) /\ (a.plan = call[c].plan => r.graph)
             /\ \A q, r \in sessions' : New(c, q) /\ New(c, r) /\ q.seq = r.seq => q = r
  <2>1. PICK c \in Callers :
          /\ Replacing(c)
          /\ \A r \in sessions' :
               New(c, r) \/ \E a \in sessions : From(a, r) /\ (a.plan = call[c].plan => r.graph)
          /\ \A q, r \in sessions' : New(c, q) /\ New(c, r) /\ q.seq = r.seq => q = r
    BY <1>6
  <2>2. \A a \in OfPlan(call[c].plan) : Live(a) => ~a.graph /\ a.id \notin jobs
    BY <1>1, <1>3, <2>1 DEF SuggestAt, Replacing, At
  <2>3. ASSUME NEW r \in sessions', Live(r), r.plan = call[c].plan PROVE New(c, r)
    <3>1. SUFFICES ASSUME NEW a \in sessions, From(a, r), a.plan = call[c].plan => r.graph
                   PROVE  FALSE
      BY <2>1
    <3> QED
      BY <2>2, <2>3, <3>1 DEF From, OfPlan
  <2>4. CASE s.plan = call[c].plan
    BY <1>2, <2>1, <2>3, <2>4
  <2>5. CASE s.plan # call[c].plan
    BY <1>2, <1>4, <2>1, <2>5 DEF New
  <2> QED
    BY <2>4, <2>5
<1> QED
  BY <1>1, <1>5, <1>6 DEF SessionsCome

\* A live session of a confirmed plan has its meeting or a job.
LEMMA ConfirmedMeetsStep == ASSUME PlansAssumption, Step PROVE ConfirmedMeets'
<1>1. /\ CallsOK /\ Noted /\ SessionsCome /\ JobsMove /\ PlansMove /\ ConfirmedMeets /\ SessionsOK'
      /\ \A c \in Callers : SuggestAt(c) /\ ConfirmAt(c)
  BY DEF Step, IInv, Shapes, World, ProposalsInv
<1>2. SUFFICES ASSUME NEW s \in sessions', Live(s), NEW p \in Plans, p = s.plan,
                      plan'[p].status = "CONFIRMED", ~Confirmed'
               PROVE  s.graph \/ s.id \in jobs'
  BY <1>1 DEF ConfirmedMeets, Live, Confirmed, SessionsOK, SessionOK
<1>3. ~Confirmed
  BY <1>2, NamesStay DEF Step, World
<1>4. plan[p].status = "CONFIRMED" \/ \E c \in Callers : call[c].op = "confirm" /\ Moves(c, p)
  BY <1>1, <1>2 DEF PlansMove, Moves, At
<1>5. CASE \E c \in Callers : call[c].op = "suggest" /\ Replacing(c) /\ New(c, s)
  <2>1. PICK c \in Callers : At(c, "suggest", "replace") /\ p = call[c].plan
    BY <1>2, <1>5 DEF Replacing, New
  <2>2. plan[p].status # "CONFIRMED"
    BY <1>1, <1>3, <2>1 DEF SuggestAt, At
  <2>3. PICK d \in Callers : call[d].op = "confirm"
    BY <1>4, <2>2
  <2>4. c # d
    BY <2>1, <2>3 DEF At
  <2> QED
    BY <1>1, <1>3, <2>1, <2>3, <2>4, Overlapping DEF At
<1>6. CASE \E t \in OfPlan(s.plan) : From(t, s) /\ Live(t)
  <2>1. PICK t \in OfPlan(p) : From(t, s) /\ Live(t)
    BY <1>2, <1>6
  <2>2. CASE plan[p].status = "CONFIRMED"
    <3>1. t.graph \/ t.id \in jobs
      BY <1>1, <1>3, <2>1, <2>2 DEF ConfirmedMeets, OfPlan, Live, Confirmed
    <3> QED
      BY <1>1, <1>2, <2>1, <3>1 DEF From, JobsMove
  <2>3. CASE \E c \in Callers : call[c].op = "confirm" /\ Moves(c, p)
    <3>1. PICK c \in Callers : call[c].op = "confirm" /\ Moves(c, p)
      BY <2>3
    <3>2. CASE At(c, "confirm", "write") /\ call[c].plan = p /\ call[c].todo \subseteq jobs'
      BY <1>1, <1>3, <2>1, <3>2 DEF ConfirmAt, From
    <3>3. CASE call[c].pc = "cancel"
      BY <1>1, <3>1, <3>3 DEF CallsOK, CallOK, WhereItCanBe
    <3> QED
      BY <1>2, <3>1, <3>2, <3>3 DEF Moves, At
  <2> QED
    BY <1>4, <2>2, <2>3
<1> QED
  BY <1>1, <1>2, <1>5, <1>6, LiveBefore

\* The three parts together.
LEMMA ProposalsStep == ASSUME PlansAssumption, Step PROVE ProposalsInv'
<1>1. \A c \in Callers : ConfirmAt(c)' /\ SuggestAt(c)'
  BY ConfirmAtStep, SuggestAtStep
<1> QED
  BY <1>1, OneProposalStep, ConfirmedMeetsStep DEF ProposalsInv

-----------------------------------------------------------------------------
(* One plan is open.                                                       *)

\* A plan that becomes open is one that a create inserts, or that was open already,
\* but for a plan that is revived; one that ceases to be is cancelled or removed.
LEMMA OpenMoves ==
  ASSUME PlansAssumption, Step, NEW p \in Plans
  PROVE  /\ Open(p)' /\ ~Open(p) =>
              \/ Revived
              \/ \E c \in Callers : At(c, "create", "sessions") /\ assigned /\ call'[c] = Idle
         /\ Open(p) /\ ~Open(p)' =>
              \/ ~Exists(p)'
              \/ \E c \in Callers : call[c].op \in Cancelling /\ call[c].pc = "cancel" /\ call[c].plan = p
<1>1. PlansMove /\ CallsOK /\ PlansOK /\ \A c \in Callers : WorksAt(c)
  BY DEF Step, IInv, Shapes, World, OpenInv
<1>2. \A c \in Callers : call[c].pc = "cancel" => call[c].op \in Cancelling
  BY <1>1 DEF CallsOK, CallOK, WhereItCanBe, Cancelling
<1>3. SUFFICES ASSUME plan'[p].status # plan[p].status, NEW c \in Callers, Moves(c, p)
               PROVE  /\ Open(p)' /\ ~Open(p) =>
                           \/ Revived
                           \/ At(c, "create", "sessions") /\ assigned /\ call'[c] = Idle
                      /\ Open(p) /\ ~Open(p)' =>
                           ~Exists(p)' \/ (call[c].pc = "cancel" /\ call[c].plan = p)
  BY <1>1, <1>2 DEF PlansMove, Open
<1>4. CASE At(c, "create", "sessions") /\ assigned /\ call'[c] = Idle /\ plan'[p].status = "DRAFT"
  BY <1>4 DEF Open, Editable
<1>5. CASE call[c].pc = "cancel" /\ call[c].plan = p /\ plan'[p].status = "CANCELLED"
  BY <1>5 DEF Open, Editable
<1>6. CASE /\ call[c].op \in {"suggest", "confirm"} /\ call[c].plan = p /\ Exists(p)
           /\ plan'[p].status \in Editable
  BY <1>1, <1>6 DEF WorksAt, Open
<1>7. CASE plan'[p].status = "deleted"
  BY <1>7 DEF Open, Editable, Exists, PlanStatus
<1> QED
  BY <1>3, <1>4, <1>5, <1>6, <1>7 DEF Moves, At, Editable

\* A plan that is worked on stays open, or is removed.
LEMMA WorksCarries ==
  ASSUME PlansAssumption, Step, NEW d \in Callers, call[d].op \in {"suggest", "confirm"},
         call'[d].plan = call[d].plan
  PROVE  WorksAt(d)'
<1>1. PlansMove /\ CallsOK /\ Noted /\ WorksAt(d)
  BY DEF Step, IInv, Shapes, World, OpenInv
<1>2. PICK p \in Plans : p = call[d].plan
  BY <1>1 DEF CallsOK, CallOK
<1>3. CASE Revived'
  BY <1>3 DEF WorksAt
<1>4. CASE ~Revived'
  <2>1. ~Revived
    BY <1>4, NamesStay DEF Step, World
  <2>2. \A c \in Callers : call[c].op \notin Cancelling
    <3>1. SUFFICES ASSUME NEW c \in Callers, call[c].op \in Cancelling PROVE FALSE
      OBVIOUS
    <3>2. c # d
      BY <3>1 DEF Cancelling
    <3> QED
      BY <1>1, <2>1, <3>1, <3>2, Overlapping
  <2>3. Open(p) \/ ~Exists(p)
    BY <1>1, <1>2, <2>1 DEF WorksAt
  <2>4. Open(p)' \/ ~Exists(p)'
    <3>1. CASE Open(p)
      BY <2>2, <3>1, OpenMoves
    <3>2. CASE ~Exists(p)
      <4>1. \A c \in Callers : ~At(c, "create", "sessions")
        BY <2>2 DEF At, Cancelling
      <4>2. plan'[p].status = plan[p].status \/ plan'[p].status = "deleted"
        <5>1. \A c \in Callers : call[c].pc # "cancel"
          BY <1>1, <2>2 DEF CallsOK, CallOK, WhereItCanBe, Cancelling
        <5> QED
          BY <1>1, <3>2, <4>1, <5>1 DEF PlansMove, Moves
      <4> QED
        BY <3>2, <4>2 DEF Exists, PlanStatus
    <3> QED
      BY <2>3, <3>1, <3>2
  <2> QED
    BY <1>2, <2>4 DEF WorksAt, Open, Exists
<1> QED
  BY <1>3, <1>4

\* What is suggested or confirmed goes on being open.
LEMMA WorksAtStep ==
  ASSUME PlansAssumption, Step, NEW d \in Callers PROVE WorksAt(d)'
<1>1. CallsOK /\ CallsOK' /\ PlansOK /\ Shapes /\ [Next]_vars
  BY DEF Step, IInv, Shapes
<1>2. SUFFICES ASSUME call'[d].op \in {"suggest", "confirm"} PROVE WorksAt(d)'
  BY DEF WorksAt
<1>3. None \notin Operations
  BY DEF PlansAssumption
<1>4. CASE call'[d] = call[d]
  BY <1>2, <1>4, WorksCarries
<1>5. CASE call'[d] # call[d]
  <2>1. SuggestPlan(d) \/ Confirm(d) \/ List(d) \/ CancelSession(d) \/ Build(d)
    BY <1>1, <1>2, <1>5, Arrives
  <2>2. CASE SuggestPlan(d)
    <3>1. PICK p \in Plans :
            Open(p) /\ Begin(d, "suggest", [Idle EXCEPT !.pc = "list", !.plan = p, !.seen = plan[p]])
      BY <2>2 DEF SuggestPlan
    <3>2. call'[d].plan = p
      BY <1>1, <3>1 DEF Begin, CallsOK, Idle
    <3>3. plan' = plan
      BY <2>2 DEF SuggestPlan, data
    <3> QED
      BY <3>1, <3>2, <3>3 DEF WorksAt, Open
  <2>3. CASE Confirm(d)
    <3>1. PICK p \in Plans :
            Open(p) /\ Begin(d, "confirm", [Idle EXCEPT !.pc = "list", !.plan = p])
      BY <2>3 DEF Confirm, Open, Editable
    <3>2. call'[d].plan = p
      BY <1>1, <3>1 DEF Begin, CallsOK, Idle
    <3>3. plan' = plan
      BY <2>3 DEF Confirm, data
    <3> QED
      BY <3>1, <3>2, <3>3 DEF WorksAt, Open
  <2>4. CASE List(d)
    BY <1>1, <1>2, <1>3, <2>4, Listed, WorksCarries DEF Operations
  <2>5. CASE CancelSession(d)
    BY <1>1, <1>2, <1>3, <2>5, CancelsOne, WorksCarries DEF Operations
  <2>6. CASE Build(d)
    BY <1>1, <1>2, <1>3, <2>6, Built, WorksCarries DEF Operations, At
  <2> QED
    BY <2>1, <2>2, <2>3, <2>4, <2>5, <2>6
<1> QED
  BY <1>4, <1>5

\* What a call has after cancelling its plan.
LEMMA Cancelled ==
  ASSUME PlansAssumption, Shapes, NEW c \in Callers, CancelPlan(c), call'[c].op # None
  PROVE  /\ UNCHANGED sessions /\ call[c].pc = "cancel" /\ call[c].plan \in Plans
         /\ call'[c].op = call[c].op /\ call'[c].plan = call[c].plan /\ call'[c].plans = call[c].plans
         /\ \/ /\ call'[c].pc = "sessions" /\ call'[c].failed = call[c].failed
               /\ call'[c].todo = Cancellable(OfPlan(call[c].plan))
               /\ ~(plan'[call[c].plan].status \in Editable)
               /\ \A q \in Plans : q # call[c].plan => plan'[q].status = plan[q].status
            \/ call[c].op = "withdraw" /\ call'[c].pc = "withdraw" /\ call'[c].failed
<1>1. CallsOK /\ PlansOK /\ CallOK(call[c]) /\ DOMAIN call = Callers
  BY DEF Shapes, CallsOK
<1>2. UNCHANGED sessions /\ call[c].pc = "cancel" /\ DOMAIN call[c] = Holds
  BY <1>1 DEF CancelPlan, CallOK
<1>3. PICK p \in Plans : p = call[c].plan
  BY <1>1, <1>2 DEF CallOK
<1>4. CASE Open(p)
  <2> DEFINE todo == Cancellable(OfPlan(call[c].plan))
  <2>1. /\ plan' = [plan EXCEPT ![p].status = "CANCELLED"]
        /\ Goto(c, [call[c] EXCEPT !.pc = "sessions", !.todo = todo])
    BY <1>3, <1>4 DEF CancelPlan
  <2> HIDE DEF todo
  <2>2. call'[c] = [call[c] EXCEPT !.pc = "sessions", !.todo = todo]
    BY <1>1, <2>1 DEF Goto
  <2>3. /\ call'[c].op = call[c].op /\ call'[c].plan = call[c].plan /\ call'[c].plans = call[c].plans
        /\ call'[c].pc = "sessions" /\ call'[c].failed = call[c].failed /\ call'[c].todo = todo
    BY <1>2, <2>2 DEF Holds
  <2>4. /\ ~(plan'[p].status \in Editable)
        /\ \A q \in Plans : q # p => plan'[q].status = plan[q].status
    BY <1>1, <2>1 DEF PlansOK, Editable
  <2> QED
    BY <1>2, <1>3, <2>3, <2>4 DEF todo
<1>5. CASE ~Open(p)
  <2>1. Fail(c)
    BY <1>3, <1>5 DEF CancelPlan
  <2>4. Idle.op = None
    BY DEF Idle
  <2>2. /\ call[c].op = "withdraw"
        /\ call'[c] = [call[c] EXCEPT !.pc = "withdraw", !.failed = TRUE, !.todo = {}]
    BY <1>1, <2>1, <2>4, FailMoves
  <2>3. /\ call'[c].op = call[c].op /\ call'[c].plan = call[c].plan /\ call'[c].plans = call[c].plans
        /\ call'[c].pc = "withdraw" /\ call'[c].failed
    BY <1>2, <2>2 DEF Holds
  <2> QED
    BY <1>2, <1>3, <2>2, <2>3
<1> QED
  BY <1>4, <1>5

\* While a create waits, no plan opens but by another create, or one is revived.
LEMMA CreateCarries ==
  ASSUME PlansAssumption, Step, NEW d \in Callers, call[d].op = "create", call'[d].op = "create",
         call'[d].plan = call[d].plan, call'[d].pc = call[d].pc
  PROVE  CreateAt(d)'
<1>1. CallsOK /\ Noted /\ CreateAt(d)
  BY DEF Step, IInv, Shapes, OpenInv
<1>2. CASE Doubled' \/ Revived'
  BY <1>2 DEF CreateAt
<1>3. CASE ~Doubled' /\ ~Revived'
  <2>1. ~Doubled /\ ~Revived
    BY <1>3, NamesStay DEF Step, World
  <2>2. \A c \in Callers : call[c].op = "create" => c = d
    BY <1>1, <2>1, Overlapping
  <2>3. "create" # None /\ Idle.op = None
    BY DEF PlansAssumption, Operations, Idle
  <2>4. \A p \in Plans : Open(p)' => Open(p)
    BY <2>1, <2>2, <2>3, OpenMoves DEF At
  <2> QED
    BY <1>1, <2>1, <2>4 DEF CreateAt, OnlyOpen
<1> QED
  BY <1>2, <1>3

\* A create goes on having no open plan beside its own.
LEMMA CreateAtStep ==
  ASSUME PlansAssumption, Step, NEW d \in Callers PROVE CreateAt(d)'
<1>1. CallsOK /\ CallsOK' /\ PlansOK /\ Shapes /\ [Next]_vars /\ CreateAt(d)
      /\ ((\A p, q \in Plans : Open(p) /\ Open(q) => p = q) \/ Doubled \/ Revived)
  BY DEF Step, IInv, Shapes, OpenInv
<1>2. SUFFICES ASSUME call'[d].op = "create" PROVE CreateAt(d)'
  BY DEF CreateAt
<1>3. "create" # None
  BY DEF PlansAssumption, Operations
<1>4. CASE call'[d] = call[d]
  BY <1>2, <1>4, CreateCarries
<1>5. (Doubled => Doubled') /\ (Revived => Revived')
  BY NamesStay DEF Step, World
<1>6. CASE call'[d] # call[d]
  <2>1. Create(d) \/ CancelPlan(d) \/ CancelSession(d)
    BY <1>1, <1>2, <1>6, Arrives
  <2>2. CASE Create(d)
    <3> DEFINE open == {p \in Plans : Open(p)}
               last == CHOOSE p \in open : \A q \in open : q <= p
    <3>1. plan' = plan
      BY <2>2 DEF Create, data
    <3>2. CASE open = {}
      BY <1>1, <3>1, <3>2 DEF CreateAt, OnlyOpen, Open
    <3>3. CASE open # {}
      <4>1. Begin(d, "create", [Idle EXCEPT !.pc = "cancel", !.plan = last])
        BY <2>2, <3>3 DEF Create
      <4>2. last \in open
        BY <3>3, FirstAndLast
      <4> HIDE DEF last
      <4>3. call'[d].pc = "cancel" /\ call'[d].plan = last
        BY <1>1, <4>1 DEF Begin, CallsOK, Idle
      <4> QED
        BY <1>1, <1>5, <3>1, <4>2, <4>3 DEF CreateAt, OnlyOpen, Open
    <3> QED
      BY <3>2, <3>3
  <2>3. CASE CancelPlan(d)
    <3>1. /\ call[d].pc = "cancel" /\ call[d].op = "create"
          /\ call'[d].pc = "sessions"
          /\ ~(plan'[call[d].plan].status \in Editable)
          /\ \A q \in Plans : q # call[d].plan => plan'[q].status = plan[q].status
      BY <1>1, <1>2, <1>3, <2>3, Cancelled
    <3> QED
      BY <1>1, <1>5, <3>1 DEF CreateAt, OnlyOpen, Open
  <2>4. CASE CancelSession(d)
    <3>1. call[d].op = "create" /\ call'[d].plan = call[d].plan /\ call'[d].pc = call[d].pc
      BY <1>1, <1>2, <1>3, <2>4, CancelsOne
    <3> QED
      BY <1>2, <3>1, CreateCarries
  <2> QED
    BY <2>1, <2>2, <2>3, <2>4
<1> QED
  BY <1>4, <1>6

\* An insertion opens one plan, and none was open.
LEMMA OneOpenStep ==
  ASSUME PlansAssumption, Step
  PROVE  ((\A p, q \in Plans : Open(p) /\ Open(q) => p = q) \/ Doubled \/ Revived)'
<1>1. PlansMove /\ OpenInv /\ CallsOK
  BY DEF Step, IInv, Shapes, World
<1>2. CASE Doubled' \/ Revived'
  BY <1>2
<1>3. CASE ~Doubled' /\ ~Revived'
  <2>1. ~Doubled /\ ~Revived
    BY <1>3, NamesStay DEF Step, World
  <2>2. \A p, q \in Plans : Open(p) /\ Open(q) => p = q
    BY <1>1, <2>1 DEF OpenInv
  <2>3. CASE \A p \in Plans : Open(p)' => Open(p)
    BY <2>2, <2>3
  <2>4. CASE ~\A p \in Plans : Open(p)' => Open(p)
    <3>1. PICK p \in Plans : Open(p)' /\ ~Open(p)
      BY <2>4
    <3>2. PICK c \in Callers : At(c, "create", "sessions")
      BY <2>1, <3>1, OpenMoves
    <3>3. \A q \in Plans : ~Open(q)
      BY <1>1, <2>1, <3>2 DEF OpenInv, CreateAt, OnlyOpen, At
    <3>4. \A q \in Plans \ {p} : plan'[q].status = plan[q].status
      BY <1>1, <3>1 DEF PlansMove, Open
    <3>5. \A q \in Plans : Open(q)' => q = p
      BY <3>3, <3>4 DEF Open
    <3> QED
      BY <3>5
  <2> QED
    BY <2>3, <2>4
<1> QED
  BY <1>2, <1>3

\* The parts about open plans together.
LEMMA OpenStep == ASSUME PlansAssumption, Step PROVE OpenInv'
<1>1. \A c \in Callers : CreateAt(c)' /\ WorksAt(c)'
  BY CreateAtStep, WorksAtStep
<1> QED
  BY <1>1, OneOpenStep DEF OpenInv

-----------------------------------------------------------------------------
(* Live sessions belong.                                                   *)

\* The rest of a list loses entries, and a session of it ends under the call, or all
\* are gone, or it can be cancelled still.
LEMMA LoopCarries ==
  ASSUME PlansAssumption, Step, NEW d \in Callers, call[d].op \in Cancelling,
         call'[d].op = call[d].op, call'[d].plan = call[d].plan, call'[d].pc = call[d].pc,
         call'[d].todo \subseteq call[d].todo
  PROVE  LoopAt(d)'
<1>1. CallsOK /\ Noted /\ SessionsGo /\ SessionsCome /\ LoopAt(d)
  BY DEF Step, IInv, Shapes, World, BelongInv
<1>2. SUFFICES ASSUME call[d].pc = "sessions", NEW id \in call'[d].todo, ~Revived', ~EndedUnder'
               PROVE  \/ \E s \in sessions' : s.id = id /\ s.plan = call[d].plan /\ s.status # "COMPLETED"
                      \/ \A s \in sessions' : s.plan = call[d].plan => ~Live(s)
  BY DEF LoopAt, NoneLive, OfPlan
<1>3. ~Revived /\ ~EndedUnder
  BY <1>2, NamesStay DEF Step, World
<1>4. \A c \in Callers : call[c].op # "suggest"
  <2>1. SUFFICES ASSUME NEW c \in Callers, call[c].op = "suggest" PROVE FALSE
    OBVIOUS
  <2>2. c # d
    BY <2>1 DEF Cancelling
  <2> QED
    BY <1>1, <1>3, <2>1, <2>2, Overlapping
<1>5. CASE NoneLive(call[d].plan)
  BY <1>1, <1>4, <1>5, LiveBefore DEF NoneLive
<1>6. CASE \E t \in sessions : t.id = id /\ t.plan = call[d].plan /\ t.status # "COMPLETED"
  <2>1. PICK t \in sessions : t.id = id /\ t.plan = call[d].plan /\ t.status # "COMPLETED"
    BY <1>6
  <2>2. ~{call[d].op, "end"} \in crossed'
    BY <1>2 DEF EndedUnder, Crossed
  <2>3. ~\E c \in Callers : Replacing(c)
    BY <1>4 DEF Replacing, At
  <2>4. id \in call[d].todo
    BY <1>2
  <2> QED
    BY <1>1, <2>1, <2>2, <2>3, <2>4 DEF SessionsGo
<1> QED
  BY <1>1, <1>2, <1>3, <1>5, <1>6 DEF LoopAt

\* Where a withdrawal goes next: to its first plan, or when none is left to the sweep.
LEMMA GoesNext ==
  ASSUME PlansAssumption, Shapes, NEW c \in Callers, NextPlan(c)
  PROVE  /\ UNCHANGED <<plan, sessions>> /\ call[c].op = "withdraw"
         /\ call[c].pc \in {"withdraw", "sessions"}
         /\ call'[c].op = call[c].op /\ call'[c].failed = call[c].failed
         /\ \/ call'[c].pc = "cancel" /\ call'[c].plans \cup {call'[c].plan} = call[c].plans
            \/ /\ call'[c].pc = "sweep" /\ call[c].plans = {}
               /\ call'[c].todo = Cancellable(sessions) /\ assigned' = (assigned /\ call[c].failed)
<1>1. CallOK(call[c]) /\ DOMAIN call = Callers
  BY DEF Shapes, CallsOK
<1>2. /\ UNCHANGED <<plan, sessions>> /\ call[c].op = "withdraw"
      /\ call[c].pc \in {"withdraw", "sessions"} /\ DOMAIN call[c] = Holds
  BY <1>1 DEF NextPlan, At, CallOK
<1> DEFINE open == call[c].plans
           p == CHOOSE q \in open : \A r \in open : q <= r
<1>3. CASE open # {}
  <2>1. p \in open
    BY <1>1, <1>3, FirstAndLast DEF CallOK
  <2>2. Goto(c, [call[c] EXCEPT !.pc = "cancel", !.plan = p, !.plans = open \ {p}])
    BY <1>3 DEF NextPlan
  <2> HIDE DEF p
  <2>3. call'[c] = [call[c] EXCEPT !.pc = "cancel", !.plan = p, !.plans = open \ {p}]
    BY <1>1, <2>2 DEF Goto
  <2>4. /\ call'[c].op = call[c].op /\ call'[c].failed = call[c].failed
        /\ call'[c].pc = "cancel" /\ call'[c].plan = p /\ call'[c].plans = open \ {p}
    BY <1>2, <2>3 DEF Holds
  <2> QED
    BY <1>2, <2>1, <2>4
<1>4. CASE open = {}
  <2> DEFINE todo == Cancellable(sessions)
  <2>1. /\ Goto(c, [call[c] EXCEPT !.pc = "sweep", !.todo = todo])
        /\ assigned' = (assigned /\ call[c].failed)
    BY <1>4 DEF NextPlan
  <2> HIDE DEF todo
  <2>2. call'[c] = [call[c] EXCEPT !.pc = "sweep", !.todo = todo]
    BY <1>1, <2>1 DEF Goto
  <2>3. /\ call'[c].op = call[c].op /\ call'[c].failed = call[c].failed
        /\ call'[c].pc = "sweep" /\ call'[c].todo = todo
    BY <1>2, <2>2 DEF Holds
  <2> QED
    BY <1>2, <1>4, <2>1, <2>3 DEF todo
<1> QED
  BY <1>3, <1>4

\* No step of a call makes its loop throw for another reason.
LEMMA LoopAtStep ==
  ASSUME PlansAssumption, Step, NEW d \in Callers PROVE LoopAt(d)'
<1>1. CallsOK /\ CallsOK' /\ Shapes /\ [Next]_vars
  BY DEF Step, IInv, Shapes
<1>2. SUFFICES ASSUME call'[d].op \in Cancelling, call'[d].pc = "sessions" PROVE LoopAt(d)'
  BY DEF LoopAt
<1>3. \A op \in Cancelling : op # None
  BY DEF PlansAssumption, Operations, Cancelling
<1>4. CASE call'[d] = call[d]
  BY <1>2, <1>4, LoopCarries
<1>5. CASE call'[d] # call[d]
  <2>1. Create(d) \/ Cancel(d) \/ Withdraw(d) \/ CancelPlan(d) \/ CancelSession(d) \/ NextPlan(d)
    BY <1>1, <1>2, <1>5, Arrives DEF Cancelling
  <2>2. CASE Create(d)
    <3>1. \/ Begin(d, "create", [Idle EXCEPT !.pc = "sessions"])
          \/ \E p : Begin(d, "create", [Idle EXCEPT !.pc = "cancel", !.plan = p])
      BY <2>2 DEF Create
    <3>2. call'[d].todo = {}
      BY <1>1, <3>1 DEF Begin, CallsOK, Idle
    <3> QED
      BY <3>2 DEF LoopAt
  <2>3. CASE Cancel(d) \/ Withdraw(d)
    <3>1. call'[d].todo = {}
      BY <1>1, <2>3 DEF Cancel, Withdraw, Begin, CallsOK, Idle
    <3> QED
      BY <3>1 DEF LoopAt
  <2>4. CASE CancelPlan(d)
    <3>1. /\ UNCHANGED sessions /\ call'[d].plan = call[d].plan
          /\ call'[d].todo = Cancellable(OfPlan(call[d].plan))
      BY <1>1, <1>2, <1>3, <2>4, Cancelled
    <3> QED
      BY <3>1 DEF LoopAt, Cancellable, OfPlan
  <2>5. CASE CancelSession(d)
    <3>1. /\ call'[d].op = call[d].op /\ call'[d].plan = call[d].plan
          /\ call'[d].todo \subseteq call[d].todo /\ call'[d].pc = call[d].pc
      BY <1>1, <1>2, <1>3, <2>5, CancelsOne
    <3> QED
      BY <1>2, <3>1, LoopCarries
  <2>6. CASE NextPlan(d)
    <3>1. call'[d].pc \in {"cancel", "sweep"}
      BY <1>1, <2>6, GoesNext
    <3> QED
      BY <1>2, <3>1
  <2> QED
    BY <2>1, <2>2, <2>3, <2>4, <2>5, <2>6
<1> QED
  BY <1>4, <1>5

\* What a withdrawal knows, while it has not failed and its place is the same.
LEMMA WithdrawCarries ==
  ASSUME PlansAssumption, Step, NEW d \in Callers, call[d].op = "withdraw", ~call[d].failed,
         call'[d].op = call[d].op, call'[d].plan = call[d].plan, call'[d].pc = call[d].pc,
         call'[d].plans = call[d].plans,
         \A s \in sessions' : Live(s) /\ s.id \in call[d].todo => s.id \in call'[d].todo
  PROVE  WithdrawAt(d)'
<1>1. CallsOK /\ Noted /\ SessionsCome /\ PeopleMove /\ WithdrawAt(d) /\ crossed \subseteq crossed'
  BY DEF Step, IInv, Shapes, World, BelongInv
<1>2. (Revived => Revived') /\ (Outlived => Outlived')
  BY <1>1, NamesStay
<1>3. \A c \in Callers : call[c].op = "create" => Outlived
  <2>1. SUFFICES ASSUME NEW c \in Callers, call[c].op = "create" PROVE Outlived
    OBVIOUS
  <2>2. c # d
    BY <2>1
  <2> QED
    BY <1>1, <2>1, <2>2, Overlapping
<1>4. \A c \in Callers : call[c].op = "suggest" => Revived
  <2>1. SUFFICES ASSUME NEW c \in Callers, call[c].op = "suggest" PROVE Revived
    OBVIOUS
  <2>2. c # d
    BY <2>1
  <2> QED
    BY <1>1, <2>1, <2>2, Overlapping DEF Cancelling
<1>5. (\A p \in Plans : Open(p)' => Open(p)) \/ Revived \/ Outlived
  BY <1>3, OpenMoves DEF At
<1>6. ASSUME call[d].pc = "sweep", ~Revived, NEW s \in sessions', Live(s)
      PROVE  s.id \in call'[d].todo
  <2>1. PICK t \in OfPlan(s.plan) : From(t, s) /\ Live(t)
    BY <1>1, <1>4, <1>6, LiveBefore
  <2> QED
    BY <1>1, <1>6, <2>1 DEF WithdrawAt, From, OfPlan
<1>7. call[d].pc = "sweep" => ~assigned'
  BY <1>1 DEF WithdrawAt, PeopleMove
<1>8. (\E p \in Plans : Open(p)' /\ ~Open(p)) => Revived' \/ Outlived'
  BY <1>2, <1>5
<1>9. OnlyOpen(IF call[d].pc = "sweep" THEN {}
               ELSE IF call[d].pc = "cancel" THEN call[d].plans \cup {call[d].plan}
               ELSE call[d].plans)
        \/ Revived \/ Outlived
  BY <1>1 DEF WithdrawAt
<1> QED
  BY <1>2, <1>6, <1>7, <1>8, <1>9 DEF WithdrawAt, OnlyOpen

\* A withdrawal goes on knowing the open plans, and at last that there are none.
LEMMA WithdrawAtStep ==
  ASSUME PlansAssumption, Step, NEW d \in Callers PROVE WithdrawAt(d)'
<1>1. CallsOK /\ CallsOK' /\ Shapes /\ [Next]_vars /\ WithdrawAt(d) /\ DOMAIN call = Callers
  BY DEF Step, IInv, Shapes, BelongInv, CallsOK
<1>2. SUFFICES ASSUME call'[d].op = "withdraw", ~call'[d].failed PROVE WithdrawAt(d)'
  BY DEF WithdrawAt
<1>3. "withdraw" # None
  BY DEF PlansAssumption, Operations
<1>4. (Revived => Revived') /\ (Outlived => Outlived')
  BY NamesStay DEF Step, World
<1>5. CASE call'[d] = call[d]
  BY <1>2, <1>5, WithdrawCarries
<1>6. CASE call'[d] # call[d]
  <2>1. Withdraw(d) \/ CancelPlan(d) \/ CancelSession(d) \/ NextPlan(d)
    BY <1>1, <1>2, <1>6, Arrives
  <2>2. CASE Withdraw(d)
    <3> DEFINE open == {p \in Plans : Open(p)}
    <3>1. plan' = plan /\ Begin(d, "withdraw", [Idle EXCEPT !.pc = "withdraw", !.plans = open])
      BY <2>2 DEF Withdraw, data
    <3>2. \A p \in Plans : Open(p)' => p \in open
      BY <3>1 DEF Open
    <3> HIDE DEF open
    <3>3. call'[d].pc = "withdraw" /\ call'[d].plans = open
      BY <1>1, <3>1 DEF Begin, Idle
    <3> QED
      BY <3>2, <3>3 DEF WithdrawAt, OnlyOpen
  <2>3. CASE CancelPlan(d)
    <3>1. /\ call[d].op = "withdraw" /\ call[d].pc = "cancel" /\ call'[d].plans = call[d].plans
          /\ call'[d].pc = "sessions" /\ ~call[d].failed
          /\ ~(plan'[call[d].plan].status \in Editable)
          /\ \A q \in Plans : q # call[d].plan => plan'[q].status = plan[q].status
      BY <1>1, <1>2, <1>3, <2>3, Cancelled
    <3>2. OnlyOpen(call[d].plans \cup {call[d].plan}) \/ Revived \/ Outlived
      BY <1>1, <3>1 DEF WithdrawAt
    <3>3. OnlyOpen(call[d].plans \cup {call[d].plan}) => \A q \in Plans : Open(q)' => q \in call[d].plans
      BY <3>1 DEF OnlyOpen, Open
    <3> QED
      BY <1>4, <3>1, <3>2, <3>3 DEF WithdrawAt, OnlyOpen
  <2>4. CASE CancelSession(d)
    <3>1. /\ call'[d].op = call[d].op /\ call'[d].plan = call[d].plan /\ call'[d].plans = call[d].plans
          /\ call'[d].pc = call[d].pc /\ ~call[d].failed
          /\ \A s \in sessions' : Live(s) /\ s.id \in call[d].todo => s.id \in call'[d].todo
      BY <1>1, <1>2, <1>3, <2>4, CancelsOne
    <3> QED
      BY <1>2, <3>1, WithdrawCarries
  <2>5. CASE NextPlan(d)
    <3>1. /\ UNCHANGED <<plan, sessions>> /\ call[d].op = "withdraw"
          /\ call[d].pc \in {"withdraw", "sessions"} /\ ~call[d].failed
          /\ \/ call'[d].pc = "cancel" /\ call'[d].plans \cup {call'[d].plan} = call[d].plans
             \/ /\ call'[d].pc = "sweep" /\ call[d].plans = {}
                /\ call'[d].todo = Cancellable(sessions) /\ assigned' = (assigned /\ call[d].failed)
      BY <1>1, <1>2, <2>5, GoesNext
    <3>2. OnlyOpen(call[d].plans) \/ Revived \/ Outlived
      BY <1>1, <3>1 DEF WithdrawAt
    <3>3. OnlyOpen(call[d].plans) => \A q \in Plans : Open(q)' => q \in call[d].plans
      BY <3>1 DEF OnlyOpen, Open
    <3>4. CASE call'[d].pc = "cancel" /\ call'[d].plans \cup {call'[d].plan} = call[d].plans
      BY <1>4, <3>2, <3>3, <3>4 DEF WithdrawAt, OnlyOpen
    <3>5. CASE /\ call'[d].pc = "sweep" /\ call[d].plans = {}
               /\ call'[d].todo = Cancellable(sessions) /\ assigned' = (assigned /\ call[d].failed)
      <4>1. ~assigned'
        BY <3>1, <3>5
      <4>2. \A s \in sessions' : Live(s) => s.id \in call'[d].todo
        BY <3>1, <3>5 DEF Cancellable, Live
      <4> QED
        BY <1>4, <3>2, <3>3, <3>5, <4>1, <4>2 DEF WithdrawAt, OnlyOpen
    <3> QED
      BY <3>1, <3>4, <3>5
  <2> QED
    BY <2>1, <2>2, <2>3, <2>4, <2>5
<1> QED
  BY <1>5, <1>6

\* The loop over a plan's sessions throws at one that is neither live nor cancelled.
LEMMA ThrowsAt ==
  ASSUME PlansAssumption, Shapes, NEW c \in Callers, CancelSession(c), call[c].op # None,
         call'[c].op = None
  PROVE  /\ call[c].pc = "sessions" /\ UNCHANGED sessions
         /\ \E id \in call[c].todo : ~IsStatus(id, "LIVE") /\ ~IsStatus(id, "CANCELLED")
<1>1. CallOK(call[c]) /\ DOMAIN call = Callers
  BY DEF Shapes, CallsOK
<1>2. call[c].pc \in {"sessions", "sweep"} /\ DOMAIN call[c] = Holds
  BY <1>1 DEF CancelSession, CallOK
<1>3. PICK id \in call[c].todo :
        IF IsStatus(id, "LIVE") \/ IsStatus(id, "CANCELLED")
        THEN Goto(c, [call[c] EXCEPT !.todo = @ \ {id}])
        ELSE /\ IF call[c].pc = "sweep"
                THEN Goto(c, [call[c] EXCEPT !.todo = @ \ {id}, !.failed = TRUE])
                ELSE Fail(c)
             /\ UNCHANGED <<sessions, jobs>>
  BY DEF CancelSession
<1>4. ~Goto(c, [call[c] EXCEPT !.todo = @ \ {id}])
  BY <1>1, <1>2 DEF Goto, Holds
<1>5. ~Goto(c, [call[c] EXCEPT !.todo = @ \ {id}, !.failed = TRUE])
  BY <1>1, <1>2 DEF Goto, Holds
<1> QED
  BY <1>2, <1>3, <1>4, <1>5

\* And it throws only when nothing of the plan is live.
LEMMA ThrowsLast ==
  ASSUME Shapes, NEW c \in Callers, LoopAt(c), call[c].op \in Cancelling, call[c].pc = "sessions",
         NEW id \in call[c].todo, ~IsStatus(id, "LIVE"), ~IsStatus(id, "CANCELLED")
  PROVE  NoneLive(call[c].plan) \/ Revived \/ EndedUnder
<1>1. \A s \in sessions : s.id = id => s.status = "COMPLETED"
  BY DEF Shapes, SessionsOK, SessionOK, IsStatus
<1> QED
  BY <1>1 DEF LoopAt

\* A call that has a live session on its list goes on to cancel it.
LEMMA StillToCancel ==
  ASSUME PlansAssumption, Step, NEW c \in Callers, NEW t \in sessions, Live(t), ToCancel(c, t),
         ~Revived, ~EndedUnder,
         NEW s \in sessions', Live(s), s.id = t.id, s.plan = t.plan
  PROVE  ToCancel(c, s)'
<1>1. CallsOK /\ Shapes /\ [Next]_vars /\ LoopAt(c) /\ DOMAIN call = Callers
  BY DEF Step, IInv, Shapes, BelongInv, CallsOK
<1>2. call[c].op \in Cancelling /\ t.id \in call[c].todo /\ call[c].pc \in {"sessions", "sweep"}
  BY DEF ToCancel
<1>3. CASE call'[c] = call[c]
  BY <1>3 DEF ToCancel
<1>4. CASE call'[c] # call[c]
  <2>1. CancelSession(c)
    <3>1. ~Begins(c)
      <4>1. \A op, state : ~Begin(c, op, state)
        BY <1>2 DEF Begin, Asked
      <4> QED
        BY <4>1 DEF Begins, Create, Cancel, SuggestPlan, Confirm, RemovePlan, Reschedule, Withdraw
    <3>2. GoesOn(c) => CancelSession(c)
      BY <1>2 DEF GoesOn, InsertPlan, CancelPlan, CancelDone, List, Build, Replace,
         ConfirmWrites, DeleteSessions, DeletePlan, Move, NextPlan, Deactivate, At, Cancelling
    <3> QED
      BY <1>1, <1>4, <3>1, <3>2, Movers
  <2>2. ~NoneLive(call[c].plan) \/ call[c].pc = "sweep"
    BY DEF ToCancel, NoneLive, OfPlan
  <2>3. call[c].pc = "sweep" \/ \A id \in call[c].todo : IsStatus(id, "LIVE") \/ IsStatus(id, "CANCELLED")
    BY <1>1, <1>2, <2>2, ThrowsLast
  <2>4. call[c].op # None
    BY <1>2 DEF PlansAssumption, Operations, Cancelling
  <2>5. call'[c].op # None
    BY <1>1, <2>1, <2>3, <2>4, ThrowsAt
  <2>6. /\ call'[c].op = call[c].op /\ call'[c].plan = call[c].plan /\ call'[c].pc = call[c].pc
        /\ \A r \in sessions' : Live(r) /\ r.id \in call[c].todo => r.id \in call'[c].todo
    BY <1>1, <2>1, <2>3, <2>5, CancelsOne
  <2> QED
    BY <1>2, <2>6 DEF ToCancel
<1> QED
  BY <1>3, <1>4

\* A live session's plan is open, or a call is to cancel it, whatever step is taken.
LEMMA CoverStep ==
  ASSUME PlansAssumption, Step, NEW s \in sessions', Live(s)
  PROVE  Open(s.plan)' \/ (\E c \in Callers : ToCancel(c, s)') \/ Revived' \/ EndedUnder'
<1>1. CallsOK /\ Noted /\ SessionsCome /\ PlansMove /\ OpenInv /\ BelongInv
  BY DEF Step, IInv, Shapes, World
<1>2. SUFFICES ASSUME ~Revived', ~EndedUnder'
               PROVE  Open(s.plan)' \/ \E c \in Callers : ToCancel(c, s)'
  OBVIOUS
<1>3. ~Revived /\ ~EndedUnder
  BY <1>2, NamesStay DEF Step, World
<1>4. PICK p \in Plans : p = s.plan /\ Exists(p)'
  BY DEF Step, Shapes, SessionsOK, SessionOK
<1>5. ASSUME NEW c \in Callers, call[c].op = "suggest", Replacing(c), New(c, s)
      PROVE  Open(p)'
  <2>1. call[c].plan = p /\ Open(p)
    BY <1>1, <1>3, <1>4, <1>5 DEF OpenInv, WorksAt, Replacing, New
  <2>2. \A e \in Callers : call[e].op \notin Cancelling
    <3>1. SUFFICES ASSUME NEW e \in Callers, call[e].op \in Cancelling PROVE FALSE
      OBVIOUS
    <3>2. e # c
      BY <1>5, <3>1 DEF Cancelling
    <3> QED
      BY <1>1, <1>3, <1>5, <3>1, <3>2, Overlapping
  <2> QED
    BY <1>4, <2>1, <2>2, OpenMoves
<1>6. ASSUME NEW t \in sessions, t.plan = p, From(t, s), Live(t)
      PROVE  Open(p)' \/ \E c \in Callers : ToCancel(c, s)'
  <2>1. s.id = t.id /\ s.plan = t.plan
    BY <1>6 DEF From
  <2>2. CASE Open(p) /\ ~Open(p)'
    <3>1. PICK c \in Callers : Moves(c, p)
      BY <1>1, <2>2 DEF PlansMove, Open
    <3>2. /\ call[c].pc = "cancel" /\ call'[c].op = call[c].op /\ call'[c].pc = "sessions"
          /\ call'[c].plan = p /\ \A r \in sessions' : r.plan = p /\ Live(r) => r.id \in call'[c].todo
      BY <1>4, <2>2, <3>1 DEF Moves, Open, Editable, Exists, PlanStatus
    <3>3. call[c].op \in Cancelling
      BY <1>1, <3>2 DEF CallsOK, CallOK, WhereItCanBe, Cancelling
    <3> QED
      BY <1>4, <3>2, <3>3 DEF ToCancel
  <2>3. CASE \E c \in Callers : ToCancel(c, t)
    BY <1>3, <1>6, <2>1, <2>3, StillToCancel
  <2> QED
    BY <1>1, <1>3, <1>6, <2>2, <2>3 DEF BelongInv
<1> QED
  BY <1>1, <1>4, <1>5, <1>6, LiveBefore DEF OfPlan

\* What holds of a learner who is not active any more.
Gone == /\ ~assigned
        /\ OnlyOpen({}) \/ Revived \/ Outlived
        /\ (\A s \in sessions : ~Live(s)) \/ Revived \/ Outlived

\* The last step of a withdrawal finds it so, and no step makes it otherwise.
LEMMA ActiveStep == ASSUME PlansAssumption, Step, ~active' PROVE Gone'
<1>1. CallsOK /\ Noted /\ SessionsCome /\ PeopleMove /\ OpenInv /\ BelongInv
  BY DEF Step, IInv, Shapes, World
<1>2. (Revived => Revived') /\ (Outlived => Outlived')
  BY NamesStay DEF Step, World
<1>3. CASE active
  <2>1. PICK c \in Callers : /\ At(c, "withdraw", "sweep") /\ call[c].todo = {} /\ ~call[c].failed
                             /\ UNCHANGED <<assigned, plan, sessions>>
    BY <1>1, <1>3 DEF PeopleMove
  <2>2. Gone
    BY <1>1, <2>1 DEF BelongInv, WithdrawAt, Gone, At
  <2> QED
    BY <1>2, <2>1, <2>2 DEF Gone, OnlyOpen, Open
<1>4. CASE ~active
  <2>1. Gone
    BY <1>1, <1>4 DEF BelongInv, Gone
  <2>2. ~assigned'
    BY <1>1, <2>1 DEF Gone, PeopleMove
  <2>3. ASSUME NEW p \in Plans, Open(p)', ~Revived, ~Outlived PROVE FALSE
    BY <2>1, <2>3, OpenMoves DEF Gone, OnlyOpen
  <2>4. ASSUME NEW s \in sessions', Live(s), ~Revived, ~Outlived PROVE FALSE
    <3>1. ASSUME NEW c \in Callers, call[c].op = "suggest", Replacing(c) PROVE FALSE
      <4>1. call[c].plan \in Plans
        BY <1>1, <3>1 DEF CallsOK, CallOK
      <4>2. Open(call[c].plan)
        BY <1>1, <2>4, <3>1 DEF OpenInv, WorksAt, Replacing
      <4> QED
        BY <2>1, <2>4, <4>1, <4>2 DEF Gone, OnlyOpen
    <3>2. ~\E t \in sessions : Live(t)
      BY <2>1, <2>4 DEF Gone
    <3> QED
      BY <1>1, <2>4, <3>1, <3>2, LiveBefore DEF OfPlan
  <2> QED
    BY <1>2, <2>2, <2>3, <2>4 DEF Gone, OnlyOpen
<1> QED
  BY <1>3, <1>4

\* The parts about live sessions together.
LEMMA BelongStep == ASSUME PlansAssumption, Step PROVE BelongInv'
<1>1. \A c \in Callers : LoopAt(c)' /\ WithdrawAt(c)'
  BY LoopAtStep, WithdrawAtStep
<1>2. \A s \in sessions' : Live(s) =>
        Open(s.plan)' \/ (\E c \in Callers : ToCancel(c, s)') \/ Revived' \/ EndedUnder'
  BY CoverStep
<1>3. ~active' => Gone'
  BY ActiveStep
<1> QED
  BY <1>1, <1>2, <1>3 DEF BelongInv, Gone

-----------------------------------------------------------------------------
(* The theorems.                                                           *)

\* The invariant is inductive.
LEMMA InvariantStep == ASSUME PlansAssumption, IInv, [Next]_vars PROVE IInv'
<1>1. Shapes' /\ World
  BY ShapesStep DEF IInv
<1>2. Noted'
  BY <1>1, NotedStep DEF IInv, Shapes, World
<1>3. Step
  BY <1>1, <1>2 DEF Step
<1> QED
  BY <1>1, <1>2, <1>3, ProposalsStep, OpenStep, BelongStep DEF IInv

\* The invariant of everything below: what each call in flight knows of the plan and
\* the sessions it works on (TrainingPlanService and PlanSnapshotService).
THEOREM PlansInvariant == Spec => []IInv
<1>1. Init => IInv
  BY InitHolds, PlansAssumption, CasesAssumption
<1>2. IInv /\ [Next]_vars => IInv'
  BY InvariantStep, PlansAssumption
<1> QED
  BY <1>1, <1>2, PTL DEF Spec

\* Types: a session is of a plan that exists, ids are not shared, and a call that is
\* not in flight holds nothing.
THEOREM PlansTypeCorrect == Spec => []TypeOK
<1>1. IInv => TypeOK
  BY InvariantGives
<1> QED
  BY <1>1, PlansInvariant, PTL

\* Every live session of a confirmed plan has its meeting or a job that creates it,
\* unless a suggest and a confirm ran at the same time.
THEOREM ConfirmedSessionsMeet == Spec => []ConfirmedMeets
<1>1. IInv => ConfirmedMeets
  BY InvariantGives
<1> QED
  BY <1>1, PlansInvariant, PTL

\* A learner has one open plan and its sessions one proposal, and a live session is of
\* that plan and an active learner, or about to be cancelled: for every number of
\* calls in flight, up to the overlaps that the properties name.
THEOREM SessionsAlwaysBelong == Spec => []SessionsBelong
<1>1. IInv => SessionsBelong
  BY InvariantGives
<1> QED
  BY <1>1, PlansInvariant, PTL
=============================================================================
