----------------------------- MODULE PortalProofs -----------------------------
(***************************************************************************)
(* Portal, proved for all values of its constants, service by service.     *)
(***************************************************************************)
EXTENDS Portal, FiniteSetTheorems, SequenceTheorems, TLAPS

-----------------------------------------------------------------------------
(* The calls: what the steps of Calls do, call by call.                    *)

\* A call has its five parts, and there is one for each caller.
Whole(x) == x = [op |-> x.op, pc |-> x.pc, arg |-> x.arg, seen |-> x.seen, result |-> x.result]
CallsOK ==
  /\ call = [c \in Callers |-> call[c]] /\ crossed = [c \in Callers |-> crossed[c]]
  /\ \A c \in Callers : Whole(call[c])

\* A step leaves the calls of some operations alone: they may see that something is written.
Spares(ops) == \A d \in Callers :
  /\ call'[d].op \in ops => call'[d] = call[d] /\ crossed[d] \subseteq crossed'[d]
  /\ call[d].op \in ops /\ call[d].pc # "idle" => call'[d] = call[d]

\* What others see of a step.
Sees(c, d, written) ==
  /\ call'[d] = call[d]
  /\ crossed'[d] = IF call[d].pc # "idle" THEN crossed[d] \cup written ELSE crossed[d]

\* At the start nobody has called.
LEMMA CallsStart ==
  ASSUME NEW allowed, CallsInit(allowed)
  PROVE /\ CallsOK /\ \A c \in Callers : call[c] = Idle /\ crossed[c] = {}
        /\ left = allowed
  BY DEF CallsInit, CallsOK, Whole, Idle

\* A step that does not concern the calls.
LEMMA NoCall ==
  ASSUME CallsOK, UNCHANGED <<call, crossed>>
  PROVE CallsOK' /\ \A ops : Spares(ops)
  BY DEF CallsOK, Whole, Spares

\* The parts of a call that goes on.
LEMMA Parts ==
  ASSUME NEW x, Whole(x), NEW pc, NEW seen
  PROVE [x EXCEPT !.pc = pc, !.seen = seen] =
          [op |-> x.op, pc |-> pc, arg |-> x.arg, seen |-> seen, result |-> x.result]
  <1>1. x \in [op : {x.op}, pc : {x.pc}, arg : {x.arg}, seen : {x.seen}, result : {x.result}]
    BY DEF Whole
  <1>2. PICK y : y = [x EXCEPT !.pc = pc, !.seen = seen]
    BY Zenon
  <1>3. y = [op |-> x.op, pc |-> pc, arg |-> x.arg, seen |-> seen, result |-> x.result]
    BY <1>1, <1>2
  <1> QED
    BY <1>2, <1>3, Zenon

\* The parts of a call that has failed.
LEMMA FailedParts ==
  ASSUME NEW x, Whole(x), NEW result
  PROVE [x EXCEPT !.pc = "idle", !.seen = None, !.result = result] =
          [op |-> x.op, pc |-> "idle", arg |-> x.arg, seen |-> None, result |-> result]
  <1>1. x \in [op : {x.op}, pc : {x.pc}, arg : {x.arg}, seen : {x.seen}, result : {x.result}]
    BY DEF Whole
  <1>2. PICK y : y = [x EXCEPT !.pc = "idle", !.seen = None, !.result = result]
    BY Zenon
  <1>3. y = [op |-> x.op, pc |-> "idle", arg |-> x.arg, seen |-> None, result |-> result]
    BY <1>1, <1>2
  <1> QED
    BY <1>2, <1>3, Zenon

\* The call begins as it is asked for, and others go on as they were.
LEMMA BeginDoes ==
  ASSUME CallsOK, NEW c \in Callers, NEW op, NEW pc, NEW arg, NEW seen, Begin(c, op, pc, arg, seen)
  PROVE /\ CallsOK'
        /\ call[c].pc = "idle" /\ op \in DOMAIN left /\ DOMAIN left' = DOMAIN left
        /\ call'[c] = [op |-> op, pc |-> pc, arg |-> arg, seen |-> seen, result |-> None]
        /\ crossed'[c] = {}
        /\ \A d \in Callers \ {c} : call'[d] = call[d] /\ crossed'[d] = crossed[d]
  <1>1. call' = [d \in Callers |-> IF d = c THEN [op |-> op, pc |-> pc, arg |-> arg, seen |-> seen, result |-> None]
                                  ELSE call[d]]
    BY DEF Begin, CallsOK
  <1>2. crossed' = [d \in Callers |-> IF d = c THEN {} ELSE crossed[d]]
    BY DEF Begin, CallsOK
  <1>3. call[c].pc = "idle" /\ op \in DOMAIN left /\ DOMAIN left' = DOMAIN left
    BY DEF Begin, Asked
  <1>4. CallsOK'
    BY <1>1, <1>2 DEF CallsOK, Whole
  <1> QED
    BY <1>1, <1>2, <1>3, <1>4

\* A call goes on, and those under way see what is written.
LEMMA GotoDoes ==
  ASSUME CallsOK, NEW c \in Callers, NEW pc, NEW seen, NEW written, Goto(c, pc, seen, written)
  PROVE /\ CallsOK' /\ left' = left
        /\ call'[c] = [op |-> call[c].op, pc |-> pc, arg |-> call[c].arg, seen |-> seen, result |-> call[c].result]
        /\ crossed'[c] = crossed[c]
        /\ \A d \in Callers \ {c} : Sees(c, d, written)
  <1>0. call[c] = [op |-> call[c].op, pc |-> call[c].pc, arg |-> call[c].arg, seen |-> call[c].seen, result |-> call[c].result]
    BY DEF CallsOK, Whole
  <1>1. call' = [d \in Callers |-> IF d = c THEN [op |-> call[c].op, pc |-> pc, arg |-> call[c].arg, seen |-> seen,
                                                 result |-> call[c].result]
                                  ELSE call[d]]
    BY Parts DEF Goto, CallsOK
  <1>2. crossed' = [d \in Callers |-> IF d # c /\ call[d].pc # "idle" THEN crossed[d] \cup written ELSE crossed[d]]
    BY DEF Goto, Crossing
  <1>4. CallsOK'
    BY <1>1, <1>2 DEF CallsOK, Whole
  <1> QED
    BY <1>1, <1>2, <1>4 DEF Goto, Sees

\* A call reads anew.
LEMMA RereadDoes ==
  ASSUME CallsOK, NEW c \in Callers, NEW pc, NEW seen, Reread(c, pc, seen)
  PROVE /\ CallsOK' /\ left' = left
        /\ call'[c] = [op |-> call[c].op, pc |-> pc, arg |-> call[c].arg, seen |-> seen, result |-> call[c].result]
        /\ crossed'[c] = {}
        /\ \A d \in Callers \ {c} : Sees(c, d, {})
  <1>0. call[c] = [op |-> call[c].op, pc |-> call[c].pc, arg |-> call[c].arg, seen |-> call[c].seen, result |-> call[c].result]
    BY DEF CallsOK, Whole
  <1>1. call' = [d \in Callers |-> IF d = c THEN [op |-> call[c].op, pc |-> pc, arg |-> call[c].arg, seen |-> seen,
                                                 result |-> call[c].result]
                                  ELSE call[d]]
    BY Parts DEF Reread, CallsOK
  <1>2. crossed' = [d \in Callers |-> IF d = c THEN {} ELSE crossed[d]]
    BY DEF Reread, CallsOK
  <1>4. CallsOK'
    BY <1>1, <1>2 DEF CallsOK, Whole
  <1> QED
    BY <1>1, <1>2, <1>4 DEF Reread, Sees

\* A call ends: it leaves nothing, or how it failed.
LEMMA EndDoes ==
  ASSUME CallsOK, NEW c \in Callers, NEW result, NEW written, End(c, result, written)
  PROVE /\ CallsOK' /\ left' = left
        /\ call'[c].pc = "idle" /\ call'[c].op \in {None, call[c].op}
        /\ result = None => call'[c] = Idle
        /\ result # None => call'[c] = [op |-> call[c].op, pc |-> "idle", arg |-> call[c].arg, seen |-> None, result |-> result]
        /\ crossed'[c] = crossed[c]
        /\ \A d \in Callers \ {c} : Sees(c, d, IF result = None THEN written ELSE {})
  <1>0. call[c] = [op |-> call[c].op, pc |-> call[c].pc, arg |-> call[c].arg, seen |-> call[c].seen, result |-> call[c].result]
    BY DEF CallsOK, Whole
  <1>1. CASE result = None
    <2>1. call' = [d \in Callers |-> IF d = c THEN Idle ELSE call[d]]
      BY <1>1 DEF End, CallsOK
    <2>2. crossed' = [d \in Callers |-> IF d # c /\ call[d].pc # "idle" THEN crossed[d] \cup written ELSE crossed[d]]
      BY <1>1 DEF End, Crossing
    <2>3. CallsOK'
      BY <2>1, <2>2 DEF CallsOK, Whole, Idle
    <2>4. Idle.op = None /\ Idle.pc = "idle"
      BY DEF Idle
    <2> QED
      BY <1>1, <2>1, <2>2, <2>3, <2>4 DEF End, Sees
  <1>2. CASE result # None
    <2>1. call' = [d \in Callers |-> IF d = c THEN [op |-> call[c].op, pc |-> "idle", arg |-> call[c].arg, seen |-> None,
                                                    result |-> result]
                                    ELSE call[d]]
      <3>0. Whole(call[c])
        BY DEF CallsOK
      <3>1. [call[c] EXCEPT !.pc = "idle", !.seen = None, !.result = result] =
              [op |-> call[c].op, pc |-> "idle", arg |-> call[c].arg, seen |-> None, result |-> result]
        BY <3>0, FailedParts
      <3>2. call' = [call EXCEPT ![c] = [call[c] EXCEPT !.pc = "idle", !.seen = None, !.result = result]]
        BY <1>2, Zenon DEF End
      <3> QED
        BY <3>1, <3>2 DEF CallsOK
    <2>2. crossed' = crossed
      BY <1>2 DEF End
    <2>3. CallsOK'
      BY <2>1, <2>2 DEF CallsOK, Whole
    <2> QED
      BY <1>2, <2>1, <2>2, <2>3 DEF End, Sees
  <1> QED
    BY <1>1, <1>2

\* A call of one step.
LEMMA AtomicallyDoes ==
  ASSUME CallsOK, NEW c \in Callers, NEW op, NEW written, Atomically(c, op, written)
  PROVE /\ CallsOK' /\ call' = call /\ op \in DOMAIN left /\ DOMAIN left' = DOMAIN left
        /\ crossed'[c] = crossed[c]
        /\ \A d \in Callers \ {c} : Sees(c, d, written)
  <1>1. crossed' = [d \in Callers |-> IF d # c /\ call[d].pc # "idle" THEN crossed[d] \cup written ELSE crossed[d]]
    BY DEF Atomically, Crossing
  <1>2. call' = call
    BY DEF Atomically
  <1>3. CallsOK'
    BY <1>1, <1>2 DEF CallsOK, Whole
  <1> QED
    BY <1>1, <1>2, <1>3 DEF Atomically, Asked, Sees

-----------------------------------------------------------------------------
(* The first problem that is one.                                          *)

\* Of two problems.
LEMMA FirstOfTwo ==
  ASSUME NEW a, NEW b
  PROVE FirstOf(<<a, b>>) = IF a # None THEN a ELSE b
  <1> DEFINE p == <<a, b>>
  <1>0. DOMAIN p = {1, 2} /\ p[1] = a /\ p[2] = b
    OBVIOUS
  <1>1. CASE a # None
    <2>1. \A i \in DOMAIN p : (p[i] # None /\ \A j \in 1 .. i - 1 : p[j] = None) <=> i = 1
      BY <1>0, <1>1
    <2>2. (CHOOSE i \in DOMAIN p : p[i] # None /\ \A j \in 1 .. i - 1 : p[j] = None) = 1
      BY <1>0, <2>1
    <2> QED
      BY <1>0, <1>1, <2>2 DEF FirstOf
  <1>2. CASE a = None /\ b # None
    <2>1. \A i \in DOMAIN p : (p[i] # None /\ \A j \in 1 .. i - 1 : p[j] = None) <=> i = 2
      BY <1>0, <1>2
    <2>2. (CHOOSE i \in DOMAIN p : p[i] # None /\ \A j \in 1 .. i - 1 : p[j] = None) = 2
      BY <1>0, <2>1
    <2> QED
      BY <1>0, <1>2, <2>2 DEF FirstOf
  <1>3. CASE a = None /\ b = None
    BY <1>0, <1>3 DEF FirstOf
  <1> QED
    BY <1>1, <1>2, <1>3

-----------------------------------------------------------------------------
(* Calls that a step of another service spares: each kind of step keeps    *)
(* the calls sound, and leaves alone all but the caller's operation.       *)

Refusals == {None, "clash", "referenced", "missing", "refused", "failed"}
CallsSound ==
  /\ CallsOK
  /\ \A c \in Callers : call[c].op \in DOMAIN left \cup {None} /\ call[c].result \in Refusals

\* At the start.
LEMMA CallsStartSound ==
  ASSUME NEW allowed, CallsInit(allowed) PROVE CallsSound
  BY CallsStart DEF CallsSound, Refusals, Idle

\* No step of a call.
LEMMA NoCallSpares ==
  ASSUME CallsSound, UNCHANGED callVars, NEW ops PROVE CallsSound' /\ Spares(ops)
  BY NoCall DEF CallsSound, callVars

\* A call begins.
LEMMA BeginSpares ==
  ASSUME CallsSound, NEW c \in Callers, NEW op, NEW pc, NEW arg, NEW seen, Begin(c, op, pc, arg, seen),
         NEW ops, op \notin ops
  PROVE CallsSound' /\ Spares(ops)
  <1>1. CallsOK
    BY DEF CallsSound
  <1>2. /\ CallsOK' /\ call[c].pc = "idle" /\ op \in DOMAIN left /\ DOMAIN left' = DOMAIN left
        /\ call'[c].op = op /\ call'[c].result = None
        /\ \A d \in Callers \ {c} : call'[d] = call[d] /\ crossed'[d] = crossed[d]
    <2>1. /\ CallsOK'
          /\ call[c].pc = "idle" /\ op \in DOMAIN left /\ DOMAIN left' = DOMAIN left
          /\ call'[c] = [op |-> op, pc |-> pc, arg |-> arg, seen |-> seen, result |-> None]
          /\ crossed'[c] = {}
          /\ \A d \in Callers \ {c} : call'[d] = call[d] /\ crossed'[d] = crossed[d]
      BY <1>1, BeginDoes
    <2>2. call'[c].op = op /\ call'[c].result = None
      BY <2>1
    <2> QED
      BY <2>1, <2>2
  <1> QED
    BY <1>2 DEF CallsSound, Spares, Refusals

\* A call goes on.
LEMMA GotoSpares ==
  ASSUME CallsSound, NEW c \in Callers, NEW pc, NEW seen, NEW written, Goto(c, pc, seen, written),
         NEW ops, call[c].op \notin ops
  PROVE CallsSound' /\ Spares(ops)
  <1>1. CallsOK
    BY DEF CallsSound
  <1>2. /\ CallsOK' /\ DOMAIN left' = DOMAIN left
        /\ call'[c].op = call[c].op /\ call'[c].result = call[c].result
        /\ \A d \in Callers \ {c} : call'[d] = call[d] /\ crossed[d] \subseteq crossed'[d]
    <2>1. /\ CallsOK' /\ left' = left
          /\ call'[c] = [op |-> call[c].op, pc |-> pc, arg |-> call[c].arg, seen |-> seen, result |-> call[c].result]
          /\ crossed'[c] = crossed[c]
          /\ \A d \in Callers \ {c} : Sees(c, d, written)
      BY <1>1, GotoDoes
    <2>2. call'[c].op = call[c].op /\ call'[c].result = call[c].result
      BY <2>1
    <2> QED
      BY <2>1, <2>2 DEF Sees
  <1> QED
    BY <1>2 DEF CallsSound, Spares

\* A call reads anew.
LEMMA RereadSpares ==
  ASSUME CallsSound, NEW c \in Callers, NEW pc, NEW seen, Reread(c, pc, seen), NEW ops, call[c].op \notin ops
  PROVE CallsSound' /\ Spares(ops)
  <1>1. CallsOK
    BY DEF CallsSound
  <1>2. /\ CallsOK' /\ DOMAIN left' = DOMAIN left
        /\ call'[c].op = call[c].op /\ call'[c].result = call[c].result
        /\ \A d \in Callers \ {c} : call'[d] = call[d] /\ crossed[d] \subseteq crossed'[d]
    <2>1. /\ CallsOK' /\ left' = left
          /\ call'[c] = [op |-> call[c].op, pc |-> pc, arg |-> call[c].arg, seen |-> seen, result |-> call[c].result]
          /\ crossed'[c] = {}
          /\ \A d \in Callers \ {c} : Sees(c, d, {})
      BY <1>1, RereadDoes
    <2>2. call'[c].op = call[c].op /\ call'[c].result = call[c].result
      BY <2>1
    <2> QED
      BY <2>1, <2>2 DEF Sees
  <1> QED
    BY <1>2 DEF CallsSound, Spares

\* A call ends.
LEMMA EndSpares ==
  ASSUME CallsSound, NEW c \in Callers, NEW result \in Refusals, NEW written, End(c, result, written),
         NEW ops, call[c].op \notin ops, None \notin ops
  PROVE CallsSound' /\ Spares(ops)
  <1>1. Idle.op = None /\ Idle.result = None
    BY DEF Idle
  <1>2. CallsOK
    BY DEF CallsSound
  <1>3. /\ CallsOK' /\ DOMAIN left' = DOMAIN left
        /\ call'[c].op \in {None, call[c].op} /\ call'[c].result \in {None, result}
        /\ \A d \in Callers \ {c} : call'[d] = call[d] /\ crossed[d] \subseteq crossed'[d]
    <2>1. /\ CallsOK' /\ left' = left
          /\ call'[c].pc = "idle" /\ call'[c].op \in {None, call[c].op}
          /\ result = None => call'[c] = Idle
          /\ result # None => call'[c] = [op |-> call[c].op, pc |-> "idle", arg |-> call[c].arg, seen |-> None, result |-> result]
          /\ crossed'[c] = crossed[c]
          /\ \A d \in Callers \ {c} : Sees(c, d, IF result = None THEN written ELSE {})
      BY <1>2, EndDoes
    <2>2. call'[c].result \in {None, result}
      BY <1>1, <2>1
    <2> QED
      BY <2>1, <2>2 DEF Sees
  <1> QED
    BY <1>3 DEF CallsSound, Spares, Refusals

\* A call of one step.
LEMMA AtomicallySpares ==
  ASSUME CallsSound, NEW c \in Callers, NEW op, NEW written, Atomically(c, op, written), NEW ops
  PROVE CallsSound' /\ Spares(ops)
  BY AtomicallyDoes DEF CallsSound, Spares, Sees

\* A call is given up where it was.
LEMMA CrashSpares ==
  ASSUME CallsSound, NEW c \in Callers, NEW op, call' = [call EXCEPT ![c] = Idle],
         left' = [left EXCEPT ![op] = @ - 1], UNCHANGED crossed, NEW ops, call[c].op \notin ops, None \notin ops
  PROVE CallsSound' /\ Spares(ops)
  <1>1. Idle.op = None /\ Idle.result = None /\ Whole(Idle)
    BY DEF Idle, Whole
  <1>2. call' = [d \in Callers |-> IF d = c THEN Idle ELSE call[d]]
    BY DEF CallsSound, CallsOK
  <1>3. DOMAIN left' = DOMAIN left
    OBVIOUS
  <1>4. CallsOK'
    BY <1>1, <1>2 DEF CallsSound, CallsOK, Whole
  <1> QED
    BY <1>1, <1>2, <1>3, <1>4 DEF CallsSound, Spares, Refusals

-----------------------------------------------------------------------------
(* The services beside each other: a step of one spares the calls of all   *)
(* others.                                                                 *)

\* Roster's steps, of more than one each.
RosterOps == RosterCalls \cup {"createInvite", "revoke"}
\* They spare the others.
LEMMA RosterSpares ==
  ASSUME CallsSound, NEW c \in Callers, NEW ops, None \notin ops, ops \cap RosterOps = {}, Step(c)
  PROVE CallsSound' /\ Spares(ops)
  <1>0. "signIn" \notin ops /\ "createUser" \notin ops /\ "createTeam" \notin ops /\ "updateTeam" \notin ops
        /\ "deleteTeam" \notin ops /\ "import" \notin ops /\ "inviteLearner" \notin ops /\ "removeLearner" \notin ops
        /\ "createInvite" \notin ops /\ "revoke" \notin ops
    BY DEF RosterOps, RosterCalls
  <1>1. CASE SignIn(c)
    BY <1>0, <1>1, BeginSpares DEF SignIn
  <1>2. CASE FindOrganization(c)
    BY <1>0, <1>2, GotoSpares DEF FindOrganization, At
  <1>3. CASE CreateOrganization(c)
    BY <1>0, <1>3, GotoSpares, EndSpares DEF CreateOrganization, At, Refusals
  <1>4. CASE WriteUser(c)
    BY <1>0, <1>4, GotoSpares, EndSpares DEF WriteUser, At, Refusals
  <1>5. CASE Accept(c)
    BY <1>0, <1>5, GotoSpares DEF Accept, At
  <1>6. CASE FindTeams(c)
    BY <1>0, <1>6, RereadSpares, EndSpares DEF FindTeams, At, Refusals
  <1>7. CASE FillManager(c)
    BY <1>0, <1>7, EndSpares DEF FillManager, At, Refusals
  <1>8. CASE Crash(c)
    BY <1>0, <1>8, CrashSpares DEF Crash
  <1>9. CASE CreateInvite(c)
    BY <1>0, <1>9, BeginSpares DEF CreateInvite
  <1>10. CASE InsertInvite(c)
    BY <1>0, <1>10, EndSpares DEF InsertInvite, At, Refusals
  <1>11. CASE RevokeInvite(c)
    BY <1>0, <1>11, BeginSpares DEF RevokeInvite
  <1>12. CASE SaveRevoked(c)
    BY <1>0, <1>12, EndSpares DEF SaveRevoked, At, Refusals
  <1>13. CASE Expire(c)
    BY <1>0, <1>13, AtomicallySpares DEF Expire
  <1>14. CASE CreateUser(c)
    BY <1>0, <1>14, BeginSpares DEF CreateUser
  <1>15. CASE InsertUser(c)
    BY <1>0, <1>15, EndSpares DEF InsertUser, At, Refusals
  <1>16. CASE UpdateUser(c)
    BY <1>0, <1>16, AtomicallySpares DEF UpdateUser
  <1>17. CASE CreateTeam(c)
    BY <1>0, <1>17, BeginSpares DEF CreateTeam
  <1>18. CASE InsertTeam(c)
    BY <1>0, <1>18, EndSpares DEF InsertTeam, At, Refusals
  <1>19. CASE UpdateTeam(c)
    BY <1>0, <1>19, BeginSpares DEF UpdateTeam
  <1>20. CASE SaveTeam(c)
    <2> DEFINE result == FirstOf(<<Problem(team[call[c].arg.team] = None, "missing"),
                           Problem(WaitedForBy(call[c].arg.choice.waits, Teams \ {call[c].arg.team}), "clash")>>)
    <2>1. result \in Refusals /\ None \in Refusals
      BY FirstOfTwo DEF Problem, Refusals
    <2>2. call[c].op = "updateTeam" /\ (End(c, result, {}) \/ End(c, None, {<<"choice", call[c].arg.team>>}))
      BY <1>20 DEF SaveTeam, At
    <2> QED
      BY <1>0, <2>1, <2>2, EndSpares
  <1>21. CASE DeleteTeam(c)
    BY <1>0, <1>21, BeginSpares DEF DeleteTeam
  <1>22. CASE RemoveTeam(c)
    <2> DEFINE result == FirstOf(<<Problem(team[call[c].arg] = None, "missing"), Problem(Placed(call[c].arg), "referenced")>>)
    <2>1. result \in Refusals /\ None \in Refusals
      BY FirstOfTwo DEF Problem, Refusals
    <2>2. call[c].op = "deleteTeam" /\ (End(c, result, {}) \/ End(c, None, {<<"deleted", call[c].arg>>}))
      BY <1>22 DEF RemoveTeam, At
    <2> QED
      BY <1>0, <2>1, <2>2, EndSpares
  <1>23. CASE Import(c)
    BY <1>0, <1>23, BeginSpares DEF Import
  <1>24. CASE NextEntry(c)
    BY <1>0, <1>24, GotoSpares, EndSpares DEF NextEntry, At, Refusals
  <1>25. CASE InsertLearner(c)
    <2> DEFINE result == Insertion(call[c].seen[1], call[c].arg.team)
    <2>1. result \in Refusals
      BY FirstOfTwo DEF Problem, Refusals, Insertion
    <2>2. call[c].op = "import" /\ (End(c, result, {}) \/ Goto(c, "next", Tail(call[c].seen),
                    {<<"account", call[c].seen[1]>>, <<"members", call[c].arg.team>>}))
      BY <1>25 DEF InsertLearner, At
    <2> QED
      BY <1>0, <2>1, <2>2, EndSpares, GotoSpares
  <1>26. CASE InviteLearner(c)
    BY <1>0, <1>26, BeginSpares DEF InviteLearner
  <1>27. CASE SaveInvited(c)
    <2>1. PICK result, written : /\ End(c, result, written)
                                 /\ result = IF call[c].seen = {} THEN Insertion(call[c].arg.account, call[c].arg.team)
                                             ELSE FirstOf(<<Problem(\E l \in call[c].seen : learner[l] = None, "missing"),
                                                            Problem(team[call[c].arg.team] = None, "referenced")>>)
      BY <1>27 DEF SaveInvited
    <2>2. result \in Refusals
      BY <2>1, FirstOfTwo DEF Problem, Refusals, Insertion
    <2> QED
      BY <1>0, <1>27, <2>1, <2>2, EndSpares DEF SaveInvited, At
  <1>28. CASE SetStatus(c)
    BY <1>0, <1>28, AtomicallySpares DEF SetStatus
  <1>29. CASE RemoveLearner(c)
    BY <1>0, <1>29, BeginSpares DEF RemoveLearner
  <1>30. CASE DeleteLearner(c)
    BY <1>0, <1>30, EndSpares DEF DeleteLearner, At, Refusals, Problem
  <1>31. CASE Plan(c)
    BY <1>0, <1>31, AtomicallySpares DEF Plan
  <1> QED
    BY <1>1, <1>2, <1>3, <1>4, <1>5, <1>6, <1>7, <1>8, <1>9, <1>10, <1>11, <1>12, <1>13, <1>14,
       <1>15, <1>16, <1>17, <1>18, <1>19, <1>20, <1>21, <1>22, <1>23, <1>24, <1>25, <1>26, <1>27,
       <1>28, <1>29, <1>30, <1>31
       DEF Step

\* Signing in.
AccountOps == {"password", "demo", "callback", "refresh", "logout"}
\* It spares the others, Roster's among them.
LEMMA AccountsSpare ==
  ASSUME CallsSound, NEW c \in Callers, NEW ops, None \notin ops, ops \cap AccountOps = {}, AccountStep(c)
  PROVE CallsSound' /\ Spares(ops)
  <1>0. "password" \notin ops /\ "demo" \notin ops /\ "callback" \notin ops /\ "refresh" \notin ops /\ "logout" \notin ops
    BY DEF AccountOps
  <1>1. CASE PasswordSignIn(c)
    BY <1>0, <1>1, BeginSpares DEF PasswordSignIn
  <1>2. CASE SaveAttempt(c)
    BY <1>0, <1>2, GotoSpares, EndSpares DEF SaveAttempt, At, Refusals
  <1>3. CASE LockEnds(c)
    BY <1>0, <1>3, AtomicallySpares DEF LockEnds
  <1>4. CASE DemoSignIn(c)
    BY <1>0, <1>4, BeginSpares DEF DemoSignIn
  <1>5. CASE StartMicrosoft(c)
    BY <1>0, <1>5, AtomicallySpares DEF StartMicrosoft
  <1>6. CASE Callback(c)
    BY <1>0, <1>6, AtomicallySpares, BeginSpares DEF Callback
  <1>7. CASE ExchangeCode(c)
    BY <1>0, <1>7, GotoSpares, EndSpares DEF ExchangeCode, At, Refusals
  <1>8. CASE TouchUser(c)
    BY <1>0, <1>8, GotoSpares, EndSpares DEF TouchUser, At, Refusals
  <1>9. CASE IssueToken(c)
    BY <1>0, <1>9, EndSpares DEF IssueToken, Refusals
  <1>10. CASE Refresh(c)
    BY <1>0, <1>10, BeginSpares DEF Refresh
  <1>11. CASE CreateToken(c)
    BY <1>0, <1>11, GotoSpares DEF CreateToken, At
  <1>12. CASE RetireToken(c)
    BY <1>0, <1>12, EndSpares DEF RetireToken, At, Refusals
  <1>13. CASE CrashRotation(c)
    BY <1>0, <1>13, CrashSpares DEF CrashRotation, At
  <1>14. CASE Logout(c)
    BY <1>0, <1>14, BeginSpares DEF Logout
  <1>15. CASE RevokeFamily(c)
    BY <1>0, <1>15, EndSpares DEF RevokeFamily, At, Refusals
  <1>16. CASE Expired(c)
    BY <1>0, <1>16, AtomicallySpares DEF Expired
  <1>17. CASE Aged(c)
    BY <1>0, <1>17, AtomicallySpares DEF Aged
  <1>18. CASE SweepTokens(c)
    BY <1>0, <1>18, AtomicallySpares DEF SweepTokens
  <1>19. CASE HandshakeExpires(c)
    BY <1>0, <1>19, AtomicallySpares DEF HandshakeExpires
  <1>20. CASE SweepHandshakes(c)
    BY <1>0, <1>20, AtomicallySpares DEF SweepHandshakes
  <1> QED
    BY <1>1, <1>2, <1>3, <1>4, <1>5, <1>6, <1>7, <1>8, <1>9, <1>10, <1>11, <1>12, <1>13, <1>14,
       <1>15, <1>16, <1>17, <1>18, <1>19, <1>20
       DEF AccountStep

\* Recommendations.
LEMMA RecsSpare ==
  ASSUME CallsSound, NEW c \in Callers, NEW ops, None \notin ops, ops \cap RecCalls = {}, RecStep(c)
  PROVE CallsSound' /\ Spares(ops)
  <1>0. "handle" \notin ops /\ "generate" \notin ops /\ "reject" \notin ops /\ "reorder" \notin ops
        /\ "replace" \notin ops /\ "confirm" \notin ops
    BY DEF RecCalls
  <1>1. CASE Assign(c)
    BY <1>0, <1>1, AtomicallySpares DEF Assign
  <1>2. CASE Generate(c)
    BY <1>0, <1>2, BeginSpares DEF Generate
  <1>3. CASE CreateRec(c)
    BY <1>0, <1>3, GotoSpares DEF CreateRec, Generating
  <1>4. CASE PersistItem(c)
    BY <1>0, <1>4, GotoSpares, EndSpares DEF PersistItem, Generating, Refusals
  <1>5. CASE Notify(c)
    BY <1>0, <1>5, EndSpares DEF Notify, Generating, Refusals
  <1>6. CASE Achieve(c)
    BY <1>0, <1>6, AtomicallySpares DEF Achieve
  <1>7. CASE DeleteContent(c)
    BY <1>0, <1>7, AtomicallySpares DEF DeleteContent
  <1>8. CASE Edit(c)
    BY <1>0, <1>8, BeginSpares DEF Edit
  <1>9. CASE UpdateItem(c)
    BY <1>0, <1>9, EndSpares DEF UpdateItem, At, Refusals
  <1>10. CASE CreateReplacement(c)
    BY <1>0, <1>10, GotoSpares, EndSpares DEF CreateReplacement, At, Refusals
  <1>11. CASE OverrideItem(c)
    BY <1>0, <1>11, EndSpares DEF OverrideItem, At, Refusals
  <1>12. CASE Confirm(c)
    BY <1>0, <1>12, BeginSpares DEF Confirm
  <1>13. CASE ConfirmRec(c)
    BY <1>0, <1>13, EndSpares DEF ConfirmRec, At, Refusals
  <1>14. CASE CrashRec(c)
    BY <1>0, <1>14, CrashSpares DEF CrashRec
  <1> QED
    BY <1>1, <1>2, <1>3, <1>4, <1>5, <1>6, <1>7, <1>8, <1>9, <1>10, <1>11, <1>12, <1>13, <1>14 DEF RecStep

\* The parts of a call.
LEMMA PartsOf ==
  ASSUME NEW y, NEW op, NEW pc, NEW arg, NEW seen, NEW result,
         y = [op |-> op, pc |-> pc, arg |-> arg, seen |-> seen, result |-> result]
  PROVE y.op = op /\ y.pc = pc /\ y.arg = arg /\ y.seen = seen /\ y.result = result
  OBVIOUS

\* Decks: a call that goes on to the next skill.
NextSkill(c, arg, written) ==
  /\ call' = [call EXCEPT ![c].pc = "ask", ![c].arg = arg, ![c].seen = None]
  /\ crossed' = Crossing(c, written) /\ UNCHANGED left
\* It spares the others.
LEMMA NextSkillSpares ==
  ASSUME CallsSound, NEW c \in Callers, NEW arg, NEW written, NextSkill(c, arg, written), NEW ops, call[c].op \notin ops
  PROVE /\ CallsSound' /\ Spares(ops)
        /\ call'[c] = [op |-> call[c].op, pc |-> "ask", arg |-> arg, seen |-> None, result |-> call[c].result]
        /\ crossed'[c] = crossed[c]
        /\ \A d \in Callers \ {c} : Sees(c, d, written)
  <1>1. PICK x : x = call[c] /\ Whole(x)
    BY DEF CallsSound, CallsOK
  <1>2. [x EXCEPT !.pc = "ask", !.arg = arg, !.seen = None] =
          [op |-> x.op, pc |-> "ask", arg |-> arg, seen |-> None, result |-> x.result]
    <2>1. x \in [op : {x.op}, pc : {x.pc}, arg : {x.arg}, seen : {x.seen}, result : {x.result}]
      BY <1>1 DEF Whole
    <2>2. PICK y : y = [x EXCEPT !.pc = "ask", !.arg = arg, !.seen = None]
      BY Zenon
    <2>3. y = [op |-> x.op, pc |-> "ask", arg |-> arg, seen |-> None, result |-> x.result]
      BY <2>1, <2>2
    <2> QED
      BY <2>2, <2>3, Zenon
  <1>3. call' = [d \in Callers |-> IF d = c THEN [op |-> x.op, pc |-> "ask", arg |-> arg, seen |-> None, result |-> x.result]
                                  ELSE call[d]]
    BY <1>1, <1>2 DEF CallsSound, CallsOK, NextSkill
  <1>4. crossed' = [d \in Callers |-> IF d # c /\ call[d].pc # "idle" THEN crossed[d] \cup written ELSE crossed[d]]
    BY DEF Crossing, NextSkill
  <1>5. CallsOK'
    BY <1>3, <1>4 DEF CallsSound, CallsOK, Whole
  <1>6. CallsSound'
    BY <1>1, <1>3, <1>5 DEF CallsSound, NextSkill
  <1>7. call'[c] = [op |-> x.op, pc |-> "ask", arg |-> arg, seen |-> None, result |-> x.result]
    BY <1>3
  <1>8. crossed'[c] = crossed[c]
    BY <1>4
  <1>9. \A d \in Callers \ {c} : Sees(c, d, written)
    BY <1>3, <1>4 DEF Sees
  <1>10. Spares(ops)
    <2>1. call'[c].op = x.op
      BY <1>7, PartsOf
    <2> QED
      BY <1>1, <2>1, <1>9 DEF Spares, Sees
  <1> QED
    BY <1>1, <1>6, <1>7, <1>8, <1>9, <1>10

\* Slides and trainers.
LEMMA DecksSpare ==
  ASSUME CallsSound, NEW c \in Callers, NEW ops, None \notin ops, ops \cap DeckCalls = {}, DeckStep(c)
  PROVE CallsSound' /\ Spares(ops)
  <1>0. "slides" \notin ops /\ "startTrainer" \notin ops /\ "poll" \notin ops
    BY DEF DeckCalls
  <1>1. CASE GenerateSlides(c)
    BY <1>0, <1>1, BeginSpares DEF GenerateSlides
  <1>2. CASE AskSlides(c)
    BY <1>0, <1>2, GotoSpares, EndSpares DEF AskSlides, At, Refusals
  <1>3. CASE FindDeck(c)
    BY <1>0, <1>3, GotoSpares DEF FindDeck, At
  <1>4. CASE SaveDeck(c)
    <2>1. PICK arg : arg = Tail(call[c].arg)
      OBVIOUS
    <2>2. \/ End(c, "referenced", {}) \/ End(c, None, {<<"deck", Head(call[c].arg)>>})
          \/ NextSkill(c, arg, {<<"deck", Head(call[c].arg)>>})
      BY <1>4, <2>1, Zenon DEF SaveDeck, NextSkill
    <2>3. call[c].op = "slides" /\ "referenced" \in Refusals /\ None \in Refusals
      BY <1>4 DEF SaveDeck, At, Refusals
    <2>4. CASE NextSkill(c, arg, {<<"deck", Head(call[c].arg)>>})
      BY <1>0, <2>3, <2>4, NextSkillSpares
    <2> QED
      BY <1>0, <2>2, <2>3, <2>4, EndSpares
  <1>5. CASE DeleteTaught(c)
    BY <1>0, <1>5, AtomicallySpares DEF DeleteTaught
  <1>6. CASE StartTrainer(c)
    BY <1>0, <1>6, BeginSpares DEF StartTrainer
  <1>7. CASE CallTrainer(c)
    BY <1>0, <1>7, GotoSpares, EndSpares DEF CallTrainer, At, Refusals
  <1>8. CASE CreateExternal(c)
    BY <1>0, <1>8, EndSpares DEF CreateExternal, At, Refusals
  <1>9. CASE TrainerMoves(c)
    BY <1>0, <1>9, AtomicallySpares DEF TrainerMoves
  <1>10. CASE Poll(c)
    BY <1>0, <1>10, BeginSpares DEF Poll
  <1>11. CASE AskStatus(c)
    BY <1>0, <1>11, GotoSpares, EndSpares DEF AskStatus, At, Refusals
  <1>12. CASE SaveStatus(c)
    BY <1>0, <1>12, EndSpares DEF SaveStatus, At, Refusals
  <1>13. CASE CrashAnswer(c)
    BY <1>0, <1>13, CrashSpares DEF CrashAnswer
  <1> QED
    BY <1>1, <1>2, <1>3, <1>4, <1>5, <1>6, <1>7, <1>8, <1>9, <1>10, <1>11, <1>12, <1>13 DEF DeckStep

\* Invitations.
LEMMA LettersSpare ==
  ASSUME CallsSound, NEW c \in Callers, NEW ops, None \notin ops, ops \cap LetterCalls = {}, LetterStep(c)
  PROVE CallsSound' /\ Spares(ops)
  <1>0. "createMeeting" \notin ops /\ "updateMeeting" \notin ops /\ "reschedule" \notin ops /\ "cancel" \notin ops
        /\ "runReminder" \notin ops /\ "report" \notin ops
    BY DEF LetterCalls
  <1>1. CASE CreateMeeting(c)
    BY <1>0, <1>1, BeginSpares DEF CreateMeeting
  <1>2. CASE UpdateMeeting(c)
    BY <1>0, <1>2, BeginSpares, AtomicallySpares DEF UpdateMeeting
  <1>3. CASE GraphCreates(c)
    BY <1>0, <1>3, GotoSpares DEF GraphCreates
  <1>4. CASE RecordMeeting(c)
    BY <1>0, <1>4, GotoSpares, EndSpares DEF RecordMeeting, Refusals
  <1>5. CASE QueueMail(c)
    BY <1>0, <1>5, GotoSpares DEF QueueMail, At
  <1>6. CASE QueueReminder(c)
    BY <1>0, <1>6, EndSpares DEF QueueReminder, Refusals
  <1>7. CASE TellMoved(c)
    BY <1>0, <1>7, EndSpares DEF TellMoved, At, Refusals
  <1>8. CASE CrashCreate(c)
    BY <1>0, <1>8, CrashSpares DEF CrashCreate
  <1>9. CASE Reschedule(c)
    BY <1>0, <1>9, BeginSpares DEF Reschedule
  <1>10. CASE MoveRow(c)
    BY <1>0, <1>10, GotoSpares DEF MoveRow, At
  <1>11. CASE QueueMove(c)
    BY <1>0, <1>11, GotoSpares DEF QueueMove, At
  <1>12. CASE Cancel(c)
    BY <1>0, <1>12, BeginSpares DEF Cancel
  <1>13. CASE CancelRow(c)
    BY <1>0, <1>13, GotoSpares DEF CancelRow, At
  <1>14. CASE DropJobs(c)
    BY <1>0, <1>14, EndSpares DEF DropJobs, At, Refusals
  <1>15. CASE Tick(c)
    BY <1>0, <1>15, AtomicallySpares DEF Tick
  <1>16. CASE RunReminder(c)
    BY <1>0, <1>16, BeginSpares, AtomicallySpares DEF RunReminder
  <1>17. CASE MarkReminded(c)
    BY <1>0, <1>17, EndSpares DEF MarkReminded, At, Refusals
  <1>18. CASE RunMail(c)
    BY <1>0, <1>18, AtomicallySpares DEF RunMail
  <1>19. CASE Answer(c)
    BY <1>0, <1>19, AtomicallySpares DEF Answer
  <1>20. CASE DeleteInOutlook(c)
    BY <1>0, <1>20, AtomicallySpares DEF DeleteInOutlook
  <1>21. CASE Report(c)
    BY <1>0, <1>21, BeginSpares, AtomicallySpares DEF Report
  <1>22. CASE WriteAnswer(c)
    BY <1>0, <1>22, EndSpares DEF WriteAnswer, At, Refusals
  <1> QED
    BY <1>1, <1>2, <1>3, <1>4, <1>5, <1>6, <1>7, <1>8, <1>9, <1>10, <1>11, <1>12, <1>13, <1>14,
       <1>15, <1>16, <1>17, <1>18, <1>19, <1>20, <1>21, <1>22
       DEF LetterStep

\* Snapshots.
LEMMA TreesSpare ==
  ASSUME CallsSound, NEW c \in Callers, NEW ops, None \notin ops, ops \cap TreeCalls = {}, TreeStep(c)
  PROVE CallsSound' /\ Spares(ops)
  <1>0. "copyTrack" \notin ops /\ "addSkill" \notin ops /\ "addOutcome" \notin ops /\ "addToLevel" \notin ops
        /\ "upload" \notin ops
    BY DEF TreeCalls
  <1>1. CASE CopyTrack(c)
    BY <1>0, <1>1, BeginSpares DEF CopyTrack
  <1>2. CASE ReadSkills(c)
    BY <1>0, <1>2, GotoSpares DEF ReadSkills, At
  <1>3. CASE ReadOutcomes(c)
    BY <1>0, <1>3, GotoSpares DEF ReadOutcomes, At
  <1>4. CASE ReadContent(c)
    BY <1>0, <1>4, GotoSpares DEF ReadContent, At
  <1>5. CASE WriteTree(c)
    BY <1>0, <1>5, EndSpares DEF WriteTree, At, Refusals
  <1>6. CASE AddSkill(c)
    BY <1>0, <1>6, BeginSpares DEF AddSkill
  <1>7. CASE CreateSkill(c)
    BY <1>0, <1>7, GotoSpares DEF CreateSkill, At
  <1>8. CASE CopySkill(c)
    BY <1>0, <1>8, GotoSpares DEF CopySkill, At
  <1>9. CASE AddOutcome(c)
    BY <1>0, <1>9, BeginSpares DEF AddOutcome
  <1>10. CASE AddToLevel(c)
    BY <1>0, <1>10, BeginSpares DEF AddToLevel
  <1>11. CASE ReadOrder(c)
    BY <1>0, <1>11, GotoSpares DEF ReadOrder
  <1>12. CASE CreateOutcome(c)
    BY <1>0, <1>12, GotoSpares, EndSpares DEF CreateOutcome, Refusals
  <1>13. CASE CopyOutcome(c)
    BY <1>0, <1>13, EndSpares DEF CopyOutcome, Refusals
  <1>14. CASE CrashAdd(c)
    BY <1>0, <1>14, CrashSpares DEF CrashAdd
  <1>15. CASE Publish(c)
    BY <1>0, <1>15, AtomicallySpares DEF Publish
  <1>16. CASE RemoveSkill(c) \/ RemoveOutcome(c) \/ RemoveContent(c)
    BY <1>0, <1>16, AtomicallySpares DEF RemoveSkill, RemoveOutcome, RemoveContent, MarkRemoved
  <1>17. CASE AddContent(c)
    BY <1>0, <1>17, AtomicallySpares DEF AddContent
  <1>18. CASE Upload(c)
    BY <1>0, <1>18, BeginSpares DEF Upload
  <1>19. CASE PutBlob(c)
    BY <1>0, <1>19, GotoSpares DEF PutBlob, At
  <1>20. CASE CreateMedia(c)
    BY <1>0, <1>20, EndSpares DEF CreateMedia, At, Refusals
  <1> QED
    BY <1>1, <1>2, <1>3, <1>4, <1>5, <1>6, <1>7, <1>8, <1>9, <1>10, <1>11, <1>12, <1>13, <1>14,
       <1>15, <1>16, <1>17, <1>18, <1>19, <1>20
       DEF TreeStep

\* Rubrics.
LEMMA RubricsSpare ==
  ASSUME CallsSound, NEW c \in Callers, NEW ops, None \notin ops, ops \cap RubricCalls = {}, RubricStep(c)
  PROVE CallsSound' /\ Spares(ops)
  <1>0. "putBank" \notin ops /\ "putRubric" \notin ops /\ "addQuestion" \notin ops /\ "deleteQuestion" \notin ops
        /\ "context" \notin ops
    BY DEF RubricCalls
  <1>1. CASE PutBank(c)
    BY <1>0, <1>1, BeginSpares DEF PutBank
  <1>2. CASE CreateBank(c)
    BY <1>0, <1>2, GotoSpares, EndSpares DEF CreateBank, At, Refusals
  <1>3. CASE ClearBank(c)
    BY <1>0, <1>3, GotoSpares DEF ClearBank, At
  <1>4. CASE FillBank(c)
    BY <1>0, <1>4, EndSpares DEF FillBank, At, Refusals
  <1>5. CASE AddQuestion(c)
    BY <1>0, <1>5, BeginSpares DEF AddQuestion
  <1>6. CASE InsertQuestion(c)
    BY <1>0, <1>6, EndSpares DEF InsertQuestion, At, Refusals
  <1>7. CASE DeleteQuestion(c)
    BY <1>0, <1>7, BeginSpares DEF DeleteQuestion
  <1>8. CASE RemoveQuestion(c)
    BY <1>0, <1>8, EndSpares DEF RemoveQuestion, At, Refusals
  <1>9. CASE PutRubric(c)
    BY <1>0, <1>9, BeginSpares DEF PutRubric
  <1>10. CASE SaveRubric(c)
    BY <1>0, <1>10, GotoSpares DEF SaveRubric, At
  <1>11. CASE ClearCriteria(c)
    BY <1>0, <1>11, GotoSpares DEF ClearCriteria, At
  <1>12. CASE FillCriteria(c)
    BY <1>0, <1>12, EndSpares DEF FillCriteria, At, Refusals
  <1>13. CASE CrashPut(c)
    BY <1>0, <1>13, CrashSpares DEF CrashPut
  <1>14. CASE Context(c)
    BY <1>0, <1>14, BeginSpares DEF Context
  <1>15. CASE ReadRubric(c)
    BY <1>0, <1>15, GotoSpares DEF ReadRubric, At
  <1>16. CASE ReadCriteria(c)
    BY <1>0, <1>16, EndSpares DEF ReadCriteria, At, Refusals
  <1> QED
    BY <1>1, <1>2, <1>3, <1>4, <1>5, <1>6, <1>7, <1>8, <1>9, <1>10, <1>11, <1>12, <1>13, <1>14,
       <1>15, <1>16
       DEF RubricStep

\* Figures.
LEMMA FiguresSpare ==
  ASSUME CallsSound, NEW c \in Callers, NEW ops, None \notin ops, ops \cap FigureCalls = {}, FigureStep(c)
  PROVE CallsSound' /\ Spares(ops)
  <1>0. "orgReport" \notin ops /\ "trend" \notin ops
    BY DEF FigureCalls
  <1>1. CASE OrgReport(c)
    BY <1>0, <1>1, BeginSpares DEF OrgReport
  <1>2. CASE ReadTeam(c)
    BY <1>0, <1>2, GotoSpares DEF ReadTeam, At
  <1>3. CASE ShowOrg(c)
    BY <1>0, <1>3, EndSpares DEF ShowOrg, At, Refusals
  <1>4. CASE Trend(c)
    BY <1>0, <1>4, BeginSpares DEF Trend
  <1>5. CASE ReadSessions(c)
    BY <1>0, <1>5, EndSpares DEF ReadSessions, At, Refusals
  <1>6. CASE MoveMember(c)
    BY <1>0, <1>6, AtomicallySpares DEF MoveMember
  <1>7. CASE RemoveMember(c)
    BY <1>0, <1>7, AtomicallySpares DEF RemoveMember
  <1>8. CASE CompleteHeld(c)
    BY <1>0, <1>8, AtomicallySpares DEF CompleteHeld
  <1>9. CASE Draft(c)
    BY <1>0, <1>9, AtomicallySpares DEF Draft
  <1>10. CASE MovePlan(c)
    BY <1>0, <1>10, AtomicallySpares DEF MovePlan
  <1> QED
    BY <1>1, <1>2, <1>3, <1>4, <1>5, <1>6, <1>7, <1>8, <1>9, <1>10 DEF FigureStep

\* A step of the portal is one of a service, and spares the calls of all others.
Among(c, ops) ==
  \/ UNCHANGED portalVars /\ Spares(ops)
  \/ /\ c \in Callers /\ AccountStep(c) /\ (ops \cap AccountOps = {} => Spares(ops))
     /\ UNCHANGED <<recVars, deckVars, letterVars, treeVars, rubricVars, figureVars>>
  \/ /\ c \in Callers /\ RosterStep(c) /\ (ops \cap RosterOps = {} => Spares(ops))
     /\ UNCHANGED <<recVars, deckVars, letterVars, treeVars, rubricVars, figureVars>>
  \/ /\ c \in Callers /\ RecStep(c) /\ (ops \cap RecCalls = {} => Spares(ops))
     /\ UNCHANGED <<rosterVars, accountVars, deckVars, letterVars, treeVars, rubricVars, figureVars>>
  \/ /\ c \in Callers /\ DeckStep(c) /\ (ops \cap DeckCalls = {} => Spares(ops))
     /\ UNCHANGED <<rosterVars, accountVars, recVars, letterVars, treeVars, rubricVars, figureVars>>
  \/ /\ c \in Callers /\ LetterStep(c) /\ (ops \cap LetterCalls = {} => Spares(ops))
     /\ UNCHANGED <<rosterVars, accountVars, recVars, deckVars, treeVars, rubricVars, figureVars>>
  \/ /\ c \in Callers /\ TreeStep(c) /\ (ops \cap TreeCalls = {} => Spares(ops))
     /\ UNCHANGED <<rosterVars, accountVars, recVars, deckVars, letterVars, rubricVars, figureVars>>
  \/ /\ c \in Callers /\ RubricStep(c) /\ (ops \cap RubricCalls = {} => Spares(ops))
     /\ UNCHANGED <<rosterVars, accountVars, recVars, deckVars, letterVars, treeVars, figureVars>>
  \/ /\ c \in Callers /\ FigureStep(c) /\ (ops \cap FigureCalls = {} => Spares(ops))
     /\ UNCHANGED <<rosterVars, accountVars, recVars, deckVars, letterVars, treeVars, rubricVars>>
\* Every step is one of these.
LEMMA PortalAmong ==
  ASSUME CallsSound, [PortalNext]_portalVars, NEW ops, None \notin ops
  PROVE CallsSound' /\ \E c : Among(c, ops)
  <1>0. {} \cap AccountOps = {} /\ {} \cap RosterOps = {} /\ {} \cap RecCalls = {} /\ {} \cap DeckCalls = {} /\ {} \cap LetterCalls = {}
        /\ {} \cap TreeCalls = {} /\ {} \cap RubricCalls = {} /\ {} \cap FigureCalls = {} /\ None \notin {}
    OBVIOUS
  <1>1. CASE UNCHANGED portalVars
    <2>1. CallsSound' /\ Spares(ops)
      BY <1>1, NoCallSpares DEF portalVars, allVars, vars
    <2> QED
      BY <1>1, <2>1 DEF Among
  <1>2. ASSUME NEW c \in Callers, PortalStep(c)
        PROVE CallsSound' /\ Among(c, ops)
    <2>1. CASE AccountStep(c) /\ UNCHANGED <<recVars, deckVars, letterVars, treeVars, rubricVars, figureVars>>
      <3>1. CallsSound' /\ (ops \cap AccountOps = {} => Spares(ops))
        BY <1>0, <2>1, AccountsSpare
      <3> QED
        BY <2>1, <3>1 DEF Among
    <2>8. CASE RosterStep(c) /\ UNCHANGED <<recVars, deckVars, letterVars, treeVars, rubricVars, figureVars>>
      <3>1. CallsSound' /\ (ops \cap RosterOps = {} => Spares(ops))
        BY <1>0, <2>8, RosterSpares DEF RosterStep
      <3> QED
        BY <2>8, <3>1 DEF Among
    <2>2. CASE RecStep(c) /\ UNCHANGED <<rosterVars, accountVars, deckVars, letterVars, treeVars, rubricVars, figureVars>>
      <3>1. CallsSound' /\ (ops \cap RecCalls = {} => Spares(ops))
        BY <1>0, <2>2, RecsSpare
      <3> QED
        BY <2>2, <3>1 DEF Among
    <2>3. CASE DeckStep(c) /\ UNCHANGED <<rosterVars, accountVars, recVars, letterVars, treeVars, rubricVars, figureVars>>
      <3>1. CallsSound' /\ (ops \cap DeckCalls = {} => Spares(ops))
        BY <1>0, <2>3, DecksSpare
      <3> QED
        BY <2>3, <3>1 DEF Among
    <2>4. CASE LetterStep(c) /\ UNCHANGED <<rosterVars, accountVars, recVars, deckVars, treeVars, rubricVars, figureVars>>
      <3>1. CallsSound' /\ (ops \cap LetterCalls = {} => Spares(ops))
        BY <1>0, <2>4, LettersSpare
      <3> QED
        BY <2>4, <3>1 DEF Among
    <2>5. CASE TreeStep(c) /\ UNCHANGED <<rosterVars, accountVars, recVars, deckVars, letterVars, rubricVars, figureVars>>
      <3>1. CallsSound' /\ (ops \cap TreeCalls = {} => Spares(ops))
        BY <1>0, <2>5, TreesSpare
      <3> QED
        BY <2>5, <3>1 DEF Among
    <2>6. CASE RubricStep(c) /\ UNCHANGED <<rosterVars, accountVars, recVars, deckVars, letterVars, treeVars, figureVars>>
      <3>1. CallsSound' /\ (ops \cap RubricCalls = {} => Spares(ops))
        BY <1>0, <2>6, RubricsSpare
      <3> QED
        BY <2>6, <3>1 DEF Among
    <2>7. CASE FigureStep(c) /\ UNCHANGED <<rosterVars, accountVars, recVars, deckVars, letterVars, treeVars, rubricVars>>
      <3>1. CallsSound' /\ (ops \cap FigureCalls = {} => Spares(ops))
        BY <1>0, <2>7, FiguresSpare
      <3> QED
        BY <2>7, <3>1 DEF Among
    <2> QED
      BY <1>2, <2>1, <2>2, <2>3, <2>4, <2>5, <2>6, <2>7, <2>8, Zenon DEF PortalStep
  <1> QED
    BY <1>1, <1>2 DEF PortalNext

-----------------------------------------------------------------------------
(* A skill's deck is the last one made for it.  Two generations for one    *)
(* skill may be under way; until one of them is told that a deck was       *)
(* written, there is no deck that it does not know.                        *)

\* What the rows refer to.
DeckTables ==
  /\ outcomes = [s \in Taught |-> outcomes[s]] /\ deck = [d \in Decks |-> deck[d]] /\ made = [m \in Made |-> made[m]]
  /\ trainer = [x \in Trainers |-> trainer[x]] /\ external = [x \in Trainers |-> external[x]]
  /\ \A m \in Made : made[m] # None =>
       made[m] \in [skill : Taught, status : {"ready", "failed"}, generation : 1 .. Generations]
  /\ \A d \in Decks : deck[d] # None =>
       /\ deck[d].skill \in Taught /\ outcomes[deck[d].skill] # None
       /\ deck[d].made \in Made /\ made[deck[d].made] # None /\ deck[d].status = made[deck[d].made].status
  /\ \A x \in Trainers : trainer[x] # None => trainer[x] \in 1 .. 3
  /\ \A x \in Trainers : external[x] # None =>
       /\ external[x] \in [deck : Decks, status : 1 .. 3]
       /\ trainer[x] # None /\ deck[external[x].deck] # None
  /\ doubled \subseteq Taught /\ mislaid \subseteq Taught \cup Trainers

\* What a call holds between the AI trainer's answer and the row.
Busy(x, s) == x.op = "slides" /\ x.pc \in {"find", "save"} /\ Head(x.arg) = s
HeldBy(x) == IF x.pc = "find" THEN x.seen ELSE x.seen.made
AtMost(m, n) == made[m].generation <= made[n].generation
SlidesKnow(x, written) ==
  LET s == Head(x.arg)
  IN /\ x.pc \in {"ask", "find", "save"} /\ x.arg \in Seq(Taught) /\ x.arg # <<>>
     /\ x.pc # "ask" => HeldBy(x) \in Made /\ made[HeldBy(x)] # None
     /\ x.pc = "save" => x.seen.row = None \/ x.seen.row \in DecksOf(s)
     /\ x.pc # "ask" /\ <<"deck", s>> \notin written => \A d \in DecksOf(s) : AtMost(deck[d].made, HeldBy(x))
     /\ x.pc = "save" /\ x.seen.row = None /\ <<"deck", s>> \notin written => DecksOf(s) = {}
TrainerKnows(x) ==
  /\ x.pc \in {"call", "create"} /\ x.arg \in Decks /\ deck[x.arg] # None
  /\ x.pc = "create" => x.seen \in Trainers /\ trainer[x.seen] # None
PollKnows(x) ==
  /\ x.pc \in {"ask", "save"} /\ x.arg \in Trainers /\ external[x.arg] # None
  /\ x.pc = "save" => x.seen \in 1 .. 3
DeckCall(x, written) == x.pc # "idle" =>
  /\ x.op = "slides" => SlidesKnow(x, written)
  /\ x.op = "startTrainer" => TrainerKnows(x)
  /\ x.op = "poll" => PollKnows(x)

\* Whatever was made is no later than the deck, or than what some call holds.
Covered(s, m) ==
  \/ \E d \in DecksOf(s) : AtMost(m, deck[d].made)
  \/ \E c \in Callers : Busy(call[c], s) /\ AtMost(m, HeldBy(call[c]))
Settled(s) ==
  /\ \A d, e \in DecksOf(s) : d = e
  /\ outcomes[s] # None => \A m \in MadeFor(s) : Covered(s, m)
DeckInv ==
  /\ DeckTables
  /\ \A s \in Taught \ (doubled \cup mislaid) : Settled(s)
  /\ \A c \in Callers : DeckCall(call[c], crossed[c])

\* It is what the run checks.
LEMMA DeckInvIsTrue ==
  ASSUME DeckInv PROVE DeckTypeOK /\ DeckIsLatest
  <1>1. DeckTypeOK
    <2>1. DOMAIN Progress = 1 .. 3
      BY DEF Progress
    <2> QED
      BY <2>1 DEF DeckInv, DeckTables, DeckTypeOK
  <1>2. SUFFICES ASSUME NEW s \in Taught \ (doubled \cup mislaid), \A c \in Callers : ~Busy(call[c], s)
                 PROVE /\ Cardinality(DecksOf(s)) <= 1
                       /\ outcomes[s] # None /\ MadeFor(s) # {} =>
                            \E d \in DecksOf(s) : \A m \in MadeFor(s) : AtMost(m, deck[d].made)
    BY <1>1 DEF DeckIsLatest, Busy, AtMost
  <1>3. Settled(s)
    BY DEF DeckInv
  <1>4. Cardinality(DecksOf(s)) <= 1
    <2>1. CASE DecksOf(s) = {}
      BY <2>1, FS_EmptySet
    <2>2. CASE DecksOf(s) # {}
      <3>1. PICK d : DecksOf(s) = {d}
        BY <2>2, <1>3 DEF Settled
      <3> QED
        BY <3>1, FS_Singleton
    <2> QED
      BY <2>1, <2>2
  <1>5. ASSUME outcomes[s] # None, NEW n \in MadeFor(s)
        PROVE \E d \in DecksOf(s) : \A m \in MadeFor(s) : AtMost(m, deck[d].made)
    <2>1. \A m \in MadeFor(s) : \E d \in DecksOf(s) : AtMost(m, deck[d].made)
      BY <1>2, <1>3, <1>5 DEF Settled, Covered
    <2>2. PICK d \in DecksOf(s) : AtMost(n, deck[d].made)
      BY <1>5, <2>1
    <2>3. \A m \in MadeFor(s) : AtMost(m, deck[d].made)
      BY <1>3, <2>1, <2>2 DEF Settled
    <2> QED
      BY <2>2, <2>3
  <1> QED
    BY <1>4, <1>5

\* At the start nothing was made.
LEMMA DeckStart ==
  ASSUME PortalInit PROVE DeckInv
  <1>1. PICK start \in Cases : AccountsInit(start) /\ DeckInit(start.deck)
    BY DEF PortalInit
  <1>2. CallsInit(start.calls)
    BY <1>1 DEF AccountsInit, Init
  <1>3. \A c \in Callers : call[c] = Idle
    BY <1>2, CallsStart
  <1>4. \A c \in Callers : DeckCall(call[c], crossed[c])
    BY <1>3 DEF DeckCall, Idle
  <1>5. start.deck.outcomes \in [Taught -> BOOLEAN \cup {None}]
    BY <1>1, CasesAssumption
  <1>6. DeckTables
    BY <1>1, <1>5 DEF DeckInit, DeckTables
  <1>7. \A s \in Taught : DecksOf(s) = {} /\ MadeFor(s) = {}
    BY <1>1 DEF DeckInit, DecksOf, MadeFor
  <1> QED
    BY <1>4, <1>6, <1>7 DEF DeckInv, Settled

\* Rows stay, and a deck changes only where it is told.
DecksStay(written) ==
  /\ \A m \in Made : made[m] # None => made'[m] = made[m]
  /\ \A d \in Decks : deck[d] # None => deck'[d] # None /\ deck'[d].skill = deck[d].skill
  /\ \A s \in Taught : <<"deck", s>> \notin written =>
       DecksOf(s)' = DecksOf(s) /\ \A d \in DecksOf(s) : deck'[d] = deck[d]
  /\ \A x \in Trainers : (trainer[x] # None => trainer'[x] # None) /\ (external[x] # None => external'[x] # None)

\* A call that is not concerned knows what it knew.
LEMMA OtherDecks ==
  ASSUME DeckTables, NEW x, NEW known, NEW written, DeckCall(x, known), DecksStay(written)
  PROVE DeckCall(x, known \cup written)'
  <1>1. CASE x.pc # "idle" /\ x.op = "slides"
    <2>1. PICK s : s = Head(x.arg)
      OBVIOUS
    <2>2. SlidesKnow(x, known)
      BY <1>1 DEF DeckCall
    <2>3. s \in Taught
      BY <2>1, <2>2 DEF SlidesKnow
    <2>4. x.pc # "ask" => HeldBy(x) \in Made /\ made[HeldBy(x)] # None /\ made'[HeldBy(x)] = made[HeldBy(x)]
      BY <2>2 DEF SlidesKnow, DecksStay
    <2>5. x.pc = "save" => x.seen.row = None \/ x.seen.row \in DecksOf(s)'
      BY <2>1, <2>2 DEF SlidesKnow, DecksStay, DecksOf
    <2>6. ASSUME <<"deck", s>> \notin known \cup written
          PROVE /\ x.pc # "ask" => \A d \in DecksOf(s)' : AtMost(deck[d].made, HeldBy(x))'
                /\ x.pc = "save" /\ x.seen.row = None => DecksOf(s)' = {}
      <3>1. DecksOf(s)' = DecksOf(s) /\ \A d \in DecksOf(s) : deck'[d] = deck[d] /\ deck[d].made \in Made /\ made[deck[d].made] # None
        BY <2>3, <2>6 DEF DecksStay, DeckTables, DecksOf
      <3>2. \A d \in DecksOf(s) : made'[deck'[d].made] = made[deck[d].made]
        BY <3>1 DEF DecksStay
      <3>3. (x.pc # "ask" => \A d \in DecksOf(s) : AtMost(deck[d].made, HeldBy(x)))
            /\ (x.pc = "save" /\ x.seen.row = None => DecksOf(s) = {})
        BY <2>1, <2>2, <2>6 DEF SlidesKnow
      <3> QED
        BY <2>4, <3>1, <3>2, <3>3 DEF AtMost, HeldBy
    <2>7. SlidesKnow(x, known \cup written)'
      BY <2>1, <2>2, <2>4, <2>5, <2>6 DEF SlidesKnow, HeldBy
    <2> QED
      BY <1>1, <2>7 DEF DeckCall
  <1>2. CASE x.pc # "idle" /\ x.op = "startTrainer"
    BY <1>2 DEF DeckCall, TrainerKnows, DecksStay
  <1>3. CASE x.pc # "idle" /\ x.op = "poll"
    BY <1>3 DEF DeckCall, PollKnows, DecksStay
  <1>4. CASE x.pc = "idle" \/ x.op \notin {"slides", "startTrainer", "poll"}
    BY <1>4 DEF DeckCall
  <1> QED
    BY <1>1, <1>2, <1>3, <1>4

\* So a step keeps the invariant if its own call knows what it should, and settles what it must.
LEMMA DeckKeeps ==
  ASSUME DeckInv, NEW c \in Callers, NEW written, DecksStay(written), DeckTables',
         (\A s \in Taught \ (doubled \cup mislaid) : Settled(s))', DeckCall(call[c], crossed[c])',
         \A d \in Callers \ {c} : Sees(c, d, written)
  PROVE DeckInv'
  <1>1. SUFFICES ASSUME NEW d \in Callers \ {c} PROVE DeckCall(call[d], crossed[d])'
    BY DEF DeckInv
  <1>2. PICK x, known, more : x = call[d] /\ known = crossed[d] /\ more = crossed'[d]
    OBVIOUS
  <1>3. DeckCall(x, known) /\ call'[d] = x
    BY <1>2 DEF DeckInv, Sees
  <1>4. CASE x.pc = "idle"
    BY <1>3, <1>4 DEF DeckCall
  <1>5. CASE x.pc # "idle"
    <2>1. more = known \cup written
      BY <1>2, <1>5 DEF Sees
    <2>2. DeckCall(x, more)'
      BY <1>3, <2>1, OtherDecks DEF DeckInv
    <2> QED
      BY <1>2, <1>3, <2>2
  <1> QED
    BY <1>4, <1>5

\* What is settled stays so while decks and what was made stay, and calls keep what they hold.
LEMMA SettledStays ==
  ASSUME DeckInv, NEW s \in Taught, Settled(s), UNCHANGED <<deck, made>>, outcomes'[s] # None => outcomes[s] # None,
         outcomes'[s] # None =>
           \A d \in Callers : Busy(call[d], s) => Busy(call'[d], s) /\ HeldBy(call'[d]) = HeldBy(call[d])
  PROVE Settled(s)'
  <1>1. DecksOf(s)' = DecksOf(s) /\ MadeFor(s)' = MadeFor(s)
    BY DEF DecksOf, MadeFor
  <1>2. ASSUME NEW m, Covered(s, m), outcomes'[s] # None PROVE Covered(s, m)'
    <2>1. CASE \E d \in DecksOf(s) : AtMost(m, deck[d].made)
      BY <1>1, <2>1 DEF Covered, AtMost
    <2>2. CASE \E d \in Callers : Busy(call[d], s) /\ AtMost(m, HeldBy(call[d]))
      <3>1. PICK d \in Callers : Busy(call[d], s) /\ AtMost(m, HeldBy(call[d]))
        BY <2>2
      <3>2. (Busy(call[d], s) /\ AtMost(m, HeldBy(call[d])))'
        BY <1>2, <3>1 DEF AtMost
      <3> QED
        BY <3>2 DEF Covered
    <2> QED
      BY <1>2, <2>1, <2>2 DEF Covered
  <1> QED
    BY <1>1, <1>2 DEF Settled

\* Steps that leave decks, and what was made, alone.
LEMMA DeckQuiet ==
  ASSUME DeckInv, NEW c \in Callers, NEW written, UNCHANGED <<deck, made>>, DeckTables',
         \A s \in Taught : outcomes'[s] # None => outcomes[s] # None,
         \A x \in Trainers : (trainer[x] # None => trainer'[x] # None) /\ (external[x] # None => external'[x] # None),
         doubled \subseteq doubled', mislaid \subseteq mislaid', DeckCall(call[c], crossed[c])',
         \A d \in Callers \ {c} : Sees(c, d, written),
         \A s \in Taught \ (doubled' \cup mislaid') :
           outcomes'[s] # None /\ Busy(call[c], s) => Busy(call'[c], s) /\ HeldBy(call'[c]) = HeldBy(call[c])
  PROVE DeckInv'
  <1>1. DecksStay(written)
    BY DEF DecksStay, DecksOf
  <1>2. ASSUME NEW s \in Taught \ (doubled' \cup mislaid') PROVE Settled(s)'
    <2>1. Settled(s)
      BY <1>2 DEF DeckInv
    <2>2. outcomes'[s] # None =>
            \A d \in Callers : Busy(call[d], s) => Busy(call'[d], s) /\ HeldBy(call'[d]) = HeldBy(call[d])
      BY <1>2 DEF Sees
    <2> QED
      BY <1>2, <2>1, <2>2, SettledStays
  <1> QED
    BY <1>1, <1>2, DeckKeeps

\* A call begins, and nothing is written.
LEMMA DeckBegins ==
  ASSUME CallsSound, DeckInv, NEW c \in Callers, NEW op, NEW pc, NEW arg, NEW seen, Begin(c, op, pc, arg, seen),
         UNCHANGED deckVars, DeckCall([op |-> op, pc |-> pc, arg |-> arg, seen |-> seen, result |-> None], {})
  PROVE DeckInv'
  <1>1. /\ call[c].pc = "idle"
        /\ call'[c] = [op |-> op, pc |-> pc, arg |-> arg, seen |-> seen, result |-> None]
        /\ crossed'[c] = {}
        /\ \A d \in Callers \ {c} : call'[d] = call[d] /\ crossed'[d] = crossed[d]
    BY BeginDoes DEF CallsSound
  <1>2. \A d \in Callers \ {c} : Sees(c, d, {})
    BY <1>1 DEF Sees
  <1>3. PICK y : y = [op |-> op, pc |-> pc, arg |-> arg, seen |-> seen, result |-> None] /\ DeckCall(y, {})
    OBVIOUS
  <1>4. DeckCall(y, {})'
    BY <1>3 DEF deckVars, DeckCall, SlidesKnow, TrainerKnows, PollKnows, HeldBy, AtMost, DecksOf
  <1>5. DeckCall(call[c], crossed[c])'
    BY <1>1, <1>3, <1>4
  <1>6. DeckTables'
    BY DEF deckVars, DeckInv, DeckTables, Generations
  <1>7. \A s : ~Busy(call[c], s)
    BY <1>1 DEF Busy
  <1> QED
    BY <1>2, <1>5, <1>6, <1>7, DeckQuiet DEF deckVars

\* A call goes on, and nothing is written; what it holds it keeps.
LEMMA DeckGoesOn ==
  ASSUME CallsSound, DeckInv, NEW c \in Callers, NEW pc, NEW seen, Goto(c, pc, seen, {}), UNCHANGED deckVars,
         DeckCall([op |-> call[c].op, pc |-> pc, arg |-> call[c].arg, seen |-> seen, result |-> call[c].result], crossed[c]),
         call[c].pc = "find" => pc = "save" /\ seen.made = call[c].seen, call[c].pc # "save"
  PROVE DeckInv'
  <1>1. /\ call'[c] = [op |-> call[c].op, pc |-> pc, arg |-> call[c].arg, seen |-> seen, result |-> call[c].result]
        /\ crossed'[c] = crossed[c]
        /\ \A d \in Callers \ {c} : Sees(c, d, {})
    BY GotoDoes DEF CallsSound
  <1>2. PICK y, w : /\ y = [op |-> call[c].op, pc |-> pc, arg |-> call[c].arg, seen |-> seen, result |-> call[c].result]
                    /\ w = crossed[c]
    OBVIOUS
  <1>3. DeckCall(y, w)
    BY <1>2
  <1>4. DeckCall(y, w)'
    BY <1>3 DEF deckVars, DeckCall, SlidesKnow, TrainerKnows, PollKnows, HeldBy, AtMost, DecksOf
  <1>5. DeckCall(call[c], crossed[c])'
    BY <1>1, <1>2, <1>4
  <1>6. DeckTables'
    BY DEF deckVars, DeckInv, DeckTables, Generations
  <1>7. y.op = call[c].op /\ y.pc = pc /\ y.arg = call[c].arg /\ y.seen = seen /\ call'[c] = y
    BY <1>1, <1>2
  <1>8. \A s : Busy(call[c], s) => Busy(y, s) /\ HeldBy(y) = HeldBy(call[c])
    BY <1>7 DEF Busy, HeldBy
  <1> QED
    BY <1>1, <1>5, <1>6, <1>7, <1>8, DeckQuiet DEF deckVars

\* A list of skills.
LEMMA SkillsInOrder ==
  ASSUME NEW S \in SUBSET Taught, S # {} PROVE SetToSeq(S) \in Seq(Taught) /\ SetToSeq(S) # <<>>
  <1>1. IsFiniteSet(S) /\ Cardinality(S) # 0
    BY IdsAssumption, FS_Subset, FS_EmptySet
  <1>2. PICK n : n = Cardinality(S) /\ n \in Nat /\ n # 0 /\ ExistsBijection(1 .. n, S)
    BY <1>1, FS_CardinalityType
  <1>3. \E f \in [1 .. n -> S] : IsInjective(f)
    BY <1>2 DEF ExistsBijection, Bijection, Injection
  <1>4. PICK f : f = SetToSeq(S)
    OBVIOUS
  <1>5. f \in [1 .. n -> S]
    BY <1>2, <1>3, <1>4 DEF SetToSeq
  <1>6. f \in Seq(Taught) /\ f # <<>>
    BY <1>2, <1>5
  <1> QED
    BY <1>4, <1>6

\* A call is over, and decks, and what was made, are left alone.
LEMMA DeckEnds ==
  ASSUME CallsSound, DeckInv, NEW c \in Callers, NEW result, NEW written, End(c, result, written),
         UNCHANGED <<outcomes, deck, made>>, DeckTables',
         \A x \in Trainers : (trainer[x] # None => trainer'[x] # None) /\ (external[x] # None => external'[x] # None),
         doubled \subseteq doubled', mislaid \subseteq mislaid',
         \A s \in Taught \ mislaid' : outcomes[s] # None => ~Busy(call[c], s)
  PROVE DeckInv'
  <1>1. /\ call'[c].pc = "idle"
        /\ \A d \in Callers \ {c} : Sees(c, d, IF result = None THEN written ELSE {})
    BY EndDoes DEF CallsSound
  <1>2. DeckCall(call[c], crossed[c])'
    BY <1>1 DEF DeckCall
  <1>3. PICK w : w = IF result = None THEN written ELSE {}
    OBVIOUS
  <1>4. \A d \in Callers \ {c} : Sees(c, d, w)
    BY <1>1, <1>3
  <1>5. \A s \in Taught \ (doubled' \cup mislaid') : outcomes'[s] # None => ~Busy(call[c], s)
    OBVIOUS
  <1>6. \A s \in Taught : outcomes'[s] # None => outcomes[s] # None
    OBVIOUS
  <1> QED
    BY <1>2, <1>4, <1>5, <1>6, DeckQuiet

\* Something is made, and is the latest.
LEMMA DeckMade ==
  ASSUME DeckTables, MadeRoom, NEW s \in Taught, NEW status \in {"ready", "failed"},
         made' = [made EXCEPT ![FreshMade] = [skill |-> s, status |-> status, generation |-> Generations + 1]]
  PROVE /\ FreshMade \in Made /\ made[FreshMade] = None /\ made'[FreshMade] # None
        /\ made'[FreshMade] = [skill |-> s, status |-> status, generation |-> Generations + 1]
        /\ Generations \in Nat /\ Generations' = Generations + 1
        /\ \A m \in Made \ {FreshMade} : made'[m] = made[m]
        /\ made' = [m \in Made |-> made'[m]]
        /\ \A m \in Made : made[m] # None => made[m].generation \in 1 .. Generations
        /\ \A m \in Made : made'[m] # None =>
             made'[m] \in [skill : Taught, status : {"ready", "failed"}, generation : 1 .. Generations']
  <1> DEFINE There == {m \in Made : made[m] # None}
  <1>1. FreshMade \in Made /\ made[FreshMade] = None
    BY DEF MadeRoom, FreshMade
  <1>2. IsFiniteSet(There) /\ FreshMade \notin There
    BY <1>1, IdsAssumption, FS_Subset
  <1>3. Generations \in Nat /\ Cardinality(There \cup {FreshMade}) = Generations + 1
    BY <1>2, FS_CardinalityType, FS_AddElement DEF Generations
  <1>4. PICK m0, n, row : m0 = FreshMade /\ n = Generations /\ row = [skill |-> s, status |-> status, generation |-> n + 1]
    OBVIOUS
  <1>5. made' = [m \in Made |-> IF m = m0 THEN row ELSE made[m]]
    BY <1>4 DEF DeckTables
  <1>6. row \in MadeRow
    BY <1>3, <1>4 DEF MadeRow
  <1>7. row # None
    BY <1>6, IdsAssumption
  <1>8. {m \in Made : made'[m] # None} = There \cup {FreshMade}
    BY <1>1, <1>4, <1>5, <1>7
  <1>9. Generations' = Generations + 1
    BY <1>3, <1>8 DEF Generations
  <1>10. \A m \in Made : made[m] # None =>
           made[m] \in [skill : Taught, status : {"ready", "failed"}, generation : 1 .. n]
    BY <1>4 DEF DeckTables
  <1>11. row \in [skill : Taught, status : {"ready", "failed"}, generation : 1 .. n + 1]
    BY <1>3, <1>4
  <1>12. \A m \in Made : made'[m] # None =>
           made'[m] \in [skill : Taught, status : {"ready", "failed"}, generation : 1 .. n + 1]
    BY <1>3, <1>4, <1>5, <1>10, <1>11
  <1>13. made' = [m \in Made |-> made'[m]] /\ made'[m0] = row /\ \A m \in Made \ {m0} : made'[m] = made[m]
    BY <1>1, <1>4, <1>5
  <1>14. \A m \in Made : made[m] # None => made[m].generation \in 1 .. n
    BY <1>10
  <1> QED
    BY <1>1, <1>3, <1>4, <1>7, <1>9, <1>12, <1>13, <1>14

\* What a call for slides knows of itself.
LEMMA SlidesCall ==
  ASSUME DeckInv, NEW c \in Callers, call[c].op = "slides", call[c].pc # "idle"
  PROVE SlidesKnow(call[c], crossed[c]) /\ Head(call[c].arg) \in Taught
  <1>1. SlidesKnow(call[c], crossed[c])
    BY DEF DeckInv, DeckCall
  <1>2. PICK arg : arg = call[c].arg
    OBVIOUS
  <1>3. arg \in Seq(Taught) /\ arg # <<>>
    BY <1>1, <1>2 DEF SlidesKnow
  <1>4. Head(arg) \in Taught
    BY <1>3
  <1> QED
    BY <1>1, <1>2, <1>4

\* The AI trainer makes slides, or does not.
LEMMA AskSlidesKeeps ==
  ASSUME CallsSound, DeckInv, NEW c \in Callers, AskSlides(c)
  PROVE DeckInv'
  <1>1. /\ call[c].op = "slides" /\ call[c].pc = "ask" /\ MadeRoom /\ UNCHANGED <<outcomes, deck, trainer, external, doubled>>
        /\ \A s : ~Busy(call[c], s)
    BY DEF AskSlides, At, Busy
  <1>2. PICK s \in Taught : s = Head(call[c].arg)
    BY <1>1, SlidesCall
  <1>3. SlidesKnow(call[c], crossed[c]) /\ DeckTables
    BY <1>1, SlidesCall DEF DeckInv
  <1>4. CASE End(c, None, {}) /\ UNCHANGED <<made, mislaid>>
    <2>1. DeckTables'
      BY <1>1, <1>3, <1>4 DEF DeckTables, Generations
    <2> QED
      BY <1>1, <1>4, <2>1, DeckEnds
  <1>5. ASSUME NEW status \in {"ready", "failed"},
               made' = [made EXCEPT ![FreshMade] = [skill |-> s, status |-> status, generation |-> Generations + 1]],
               \/ Goto(c, "find", FreshMade, {}) /\ UNCHANGED mislaid
               \/ End(c, None, {}) /\ mislaid' = mislaid \cup {s}
        PROVE DeckInv'
    <2>1. PICK m0, n : m0 = FreshMade /\ n = Generations
      OBVIOUS
    <2>2. /\ m0 \in Made /\ made[m0] = None /\ made'[m0] # None
          /\ made'[m0] = [skill |-> s, status |-> status, generation |-> n + 1]
          /\ n \in Nat /\ Generations' = n + 1
          /\ \A m \in Made \ {m0} : made'[m] = made[m]
          /\ made' = [m \in Made |-> made'[m]]
          /\ \A m \in Made : made[m] # None => made[m].generation \in 1 .. n
          /\ \A m \in Made : made'[m] # None =>
               made'[m] \in [skill : Taught, status : {"ready", "failed"}, generation : 1 .. Generations']
      <3>1. /\ FreshMade \in Made /\ made[FreshMade] = None /\ made'[FreshMade] # None
            /\ made'[FreshMade] = [skill |-> s, status |-> status, generation |-> Generations + 1]
            /\ Generations \in Nat /\ Generations' = Generations + 1
            /\ \A m \in Made \ {FreshMade} : made'[m] = made[m]
            /\ made' = [m \in Made |-> made'[m]]
            /\ \A m \in Made : made[m] # None => made[m].generation \in 1 .. Generations
            /\ \A m \in Made : made'[m] # None =>
                 made'[m] \in [skill : Taught, status : {"ready", "failed"}, generation : 1 .. Generations']
        BY <1>1, <1>3, <1>5, DeckMade
      <3> QED
        BY <2>1, <3>1
    <2>3. made'[m0].generation = n + 1 /\ made'[m0].skill = s
      BY <2>2
    <2>4. \A m \in Made : made[m] # None => made'[m] = made[m] /\ AtMost(m, m0)'
      BY <2>2, <2>3 DEF AtMost
    <2>5. \A d \in Decks : deck[d] # None => deck[d].made \in Made /\ made[deck[d].made] # None
      BY <1>3 DEF DeckTables
    <2>6. DecksStay({})
      BY <1>1, <2>4 DEF DecksStay, DecksOf
    <2>7. DeckTables'
      <3>1. mislaid' \subseteq Taught \cup Trainers
        BY <1>3, <1>5 DEF DeckTables
      <3>2. \A d \in Decks : deck[d] # None => made'[deck[d].made] = made[deck[d].made]
        BY <2>4, <2>5
      <3> QED
        BY <1>1, <1>3, <2>2, <3>1, <3>2 DEF DeckTables
    <2>8. \A d \in Callers \ {c} : Sees(c, d, {})
      <3>1. CASE Goto(c, "find", FreshMade, {})
        BY <3>1, GotoDoes DEF CallsSound
      <3>2. CASE End(c, None, {})
        BY <3>2, EndDoes DEF CallsSound
      <3> QED
        BY <1>5, <3>1, <3>2
    <2>9. Goto(c, "find", FreshMade, {}) =>
            /\ call'[c] = [op |-> "slides", pc |-> "find", arg |-> call[c].arg, seen |-> m0, result |-> call[c].result]
            /\ crossed'[c] = crossed[c]
      <3>1. ASSUME Goto(c, "find", FreshMade, {})
            PROVE /\ call'[c] = [op |-> call[c].op, pc |-> "find", arg |-> call[c].arg, seen |-> FreshMade, result |-> call[c].result]
                  /\ crossed'[c] = crossed[c]
        BY <3>1, GotoDoes DEF CallsSound
      <3> QED
        BY <1>1, <2>1, <3>1
    <2>10. PICK y : y = call'[c]
      OBVIOUS
    <2>11. Goto(c, "find", FreshMade, {}) =>
             y.op = "slides" /\ y.pc = "find" /\ y.arg = call[c].arg /\ y.seen = m0 /\ crossed'[c] = crossed[c]
      BY <2>9, <2>10
    <2>12. DeckCall(call[c], crossed[c])'
      <3>1. CASE End(c, None, {})
        <4>1. call'[c].pc = "idle"
          BY <3>1, EndDoes DEF CallsSound
        <4> QED
          BY <4>1 DEF DeckCall
      <3>2. CASE Goto(c, "find", FreshMade, {})
        <4>1. y.arg \in Seq(Taught) /\ y.arg # <<>> /\ Head(y.arg) = s
          BY <1>2, <1>3, <2>11, <3>2 DEF SlidesKnow
        <4>2. \A d \in DecksOf(s)' : AtMost(deck[d].made, m0)'
          BY <1>1, <2>4, <2>5 DEF DecksOf
        <4>3. \A w : SlidesKnow(y, w)'
          BY <2>2, <2>11, <3>2, <4>1, <4>2 DEF SlidesKnow, HeldBy
        <4>4. \A w : DeckCall(y, w)'
          BY <2>11, <3>2, <4>3 DEF DeckCall
        <4> QED
          BY <2>10, <4>4
      <3> QED
        BY <1>5, <3>1, <3>2
    <2>13. ASSUME NEW r \in Taught \ (doubled' \cup mislaid') PROVE Settled(r)'
      <3>1. Settled(r) /\ DecksOf(r)' = DecksOf(r)
        BY <1>1, <1>5 DEF DeckInv, DecksOf
      <3>2. ASSUME NEW m \in MadeFor(r), Covered(r, m) PROVE Covered(r, m)'
        <4>1. CASE \E d \in DecksOf(r) : AtMost(m, deck[d].made)
          <5>1. PICK d \in DecksOf(r) : AtMost(m, deck[d].made)
            BY <4>1
          <5>2. (AtMost(m, deck[d].made))'
            BY <1>1, <2>4, <2>5, <3>2, <5>1 DEF AtMost, DecksOf, MadeFor
          <5> QED
            BY <3>1, <5>2 DEF Covered
        <4>2. CASE \E d \in Callers : Busy(call[d], r) /\ AtMost(m, HeldBy(call[d]))
          <5>1. PICK d \in Callers : Busy(call[d], r) /\ AtMost(m, HeldBy(call[d]))
            BY <4>2
          <5>2. call'[d] = call[d]
            BY <1>1, <2>8, <5>1 DEF Sees
          <5>3. HeldBy(call[d]) \in Made /\ made[HeldBy(call[d])] # None
            BY <5>1, SlidesCall DEF Busy, SlidesKnow
          <5>4. (Busy(call[d], r) /\ AtMost(m, HeldBy(call[d])))'
            BY <2>4, <3>2, <5>1, <5>2, <5>3 DEF AtMost, MadeFor
          <5> QED
            BY <5>4 DEF Covered
        <4> QED
          BY <3>2, <4>1, <4>2 DEF Covered
      <3>3. ASSUME NEW m \in MadeFor(r)', m \notin MadeFor(r) PROVE Covered(r, m)'
        <4>1. m = m0 /\ r = s
          BY <2>2, <2>3, <3>3 DEF MadeFor
        <4>2. Goto(c, "find", FreshMade, {})
          BY <1>5, <4>1
        <4>3. Head(y.arg) = s /\ Busy(y, s) /\ HeldBy(y) = m0
          BY <1>2, <2>11, <4>2 DEF Busy, HeldBy
        <4>4. AtMost(m0, m0)'
          BY <2>2, <2>3 DEF AtMost
        <4>5. (Busy(call[c], r) /\ AtMost(m, HeldBy(call[c])))'
          BY <2>10, <4>1, <4>3, <4>4
        <4> QED
          BY <4>5 DEF Covered
      <3> QED
        BY <1>1, <3>1, <3>2, <3>3 DEF Settled
    <2> QED
      BY <2>6, <2>7, <2>8, <2>12, <2>13, DeckKeeps
  <1> QED
    BY <1>2, <1>4, <1>5 DEF AskSlides


\* A deck is saved for what was made.
LEMMA SaveDeckKeeps ==
  ASSUME CallsSound, DeckInv, NEW c \in Callers, SaveDeck(c)
  PROVE DeckInv'
  <1>1. /\ call[c].op = "slides" /\ call[c].pc = "save" /\ UNCHANGED <<outcomes, made, trainer, external, mislaid>>
    BY DEF SaveDeck, At
  <1>2. PICK s, m, found : s \in Taught /\ s = Head(call[c].arg) /\ m = call[c].seen.made /\ found = call[c].seen.row
    BY <1>1, SlidesCall
  <1>3. SlidesKnow(call[c], crossed[c]) /\ DeckTables
    BY <1>1, SlidesCall DEF DeckInv
  <1>4. m \in Made /\ made[m] # None /\ (found = None \/ found \in DecksOf(s)) /\ \A r : Busy(call[c], r) => r = s /\ HeldBy(call[c]) = m
    BY <1>1, <1>2, <1>3 DEF SlidesKnow, HeldBy, Busy
  <1>5. <<"deck", s>> \notin crossed[c] => /\ \A d \in DecksOf(s) : AtMost(deck[d].made, m)
                                           /\ found = None => DecksOf(s) = {}
    BY <1>1, <1>2, <1>3 DEF SlidesKnow, HeldBy
  <1>6. CASE found = None /\ outcomes[s] = None
    <2>1. End(c, "referenced", {}) /\ UNCHANGED <<deck, doubled>>
      BY <1>2, <1>6 DEF SaveDeck
    <2>2. DeckTables'
      BY <1>1, <1>3, <2>1 DEF DeckTables, Generations
    <2> QED
      BY <1>1, <1>4, <1>6, <2>1, <2>2, DeckEnds
  <1>7. CASE ~(found = None /\ outcomes[s] = None)
    <2>1. PICK row : row = IF found = None THEN FreshDeck ELSE found
      OBVIOUS
    <2>2. PICK arg : arg = Tail(call[c].arg)
      OBVIOUS
    <2>3. /\ found = None => DeckRoom
          /\ deck' = [deck EXCEPT ![row] = [skill |-> s, made |-> m, status |-> made[m].status]]
          /\ doubled' = IF <<"deck", s>> \in crossed[c] THEN doubled \cup {s} ELSE doubled
          /\ \/ End(c, None, {<<"deck", s>>})
             \/ Len(call[c].arg) # 1 /\ NextSkill(c, arg, {<<"deck", s>>})
      BY <1>2, <1>7, <2>1, <2>2, Zenon DEF SaveDeck, Stale, NextSkill
    <2>4. /\ row \in Decks /\ (deck[row] = None \/ (deck[row] # None /\ deck[row].skill = s)) /\ outcomes[s] # None
          /\ found # None => row = found
      <3>1. CASE found = None
        BY <1>7, <2>1, <2>3, <3>1 DEF DeckRoom, FreshDeck
      <3>2. CASE found # None
        BY <1>3, <1>4, <2>1, <3>2 DEF DecksOf, DeckTables
      <3> QED
        BY <3>1, <3>2
    <2>5. PICK new : new = [skill |-> s, made |-> m, status |-> made[m].status]
      OBVIOUS
    <2>6. made[m] \in [skill : Taught, status : {"ready", "failed"}, generation : 1 .. Generations]
      BY <1>3, <1>4 DEF DeckTables
    <2>7. new \in DeckRow /\ new.skill = s /\ new.made = m /\ new.status = made[m].status
      <3>1. made[m].status \in {"ready", "failed"}
        BY <2>6
      <3> QED
        BY <1>2, <1>4, <2>5, <3>1 DEF DeckRow
    <2>8. new # None
      BY <2>7, IdsAssumption
    <2>9. deck' = [d \in Decks |-> IF d = row THEN new ELSE deck[d]]
      BY <1>3, <2>3, <2>5 DEF DeckTables
    <2>10. /\ \A r \in Taught \ {s} : DecksOf(r)' = DecksOf(r) /\ \A d \in DecksOf(r) : deck'[d] = deck[d]
           /\ row \in DecksOf(s)' /\ DecksOf(s)' = DecksOf(s) \cup {row} /\ deck'[row].made = m
      BY <2>4, <2>7, <2>8, <2>9 DEF DecksOf
    <2>11. DecksStay({<<"deck", s>>})
      <3>1. \A d \in Decks : deck[d] # None => deck'[d] # None /\ deck'[d].skill = deck[d].skill
        BY <2>4, <2>7, <2>8, <2>9
      <3> QED
        BY <1>1, <2>10, <3>1 DEF DecksStay
    <2>12. DeckTables'
      <3>1. \A d \in Decks : deck'[d] # None =>
              /\ deck'[d].skill \in Taught /\ outcomes[deck'[d].skill] # None
              /\ deck'[d].made \in Made /\ made[deck'[d].made] # None /\ deck'[d].status = made[deck'[d].made].status
        <4>1. \A d \in Decks : deck[d] # None =>
                /\ deck[d].skill \in Taught /\ outcomes[deck[d].skill] # None
                /\ deck[d].made \in Made /\ made[deck[d].made] # None /\ deck[d].status = made[deck[d].made].status
          BY <1>3 DEF DeckTables
        <4> QED
          BY <1>2, <1>4, <2>4, <2>7, <2>9, <4>1
      <3>2. doubled' \subseteq Taught /\ deck' = [d \in Decks |-> deck'[d]]
        <4>1. doubled' \in {doubled, doubled \cup {s}} /\ doubled \subseteq Taught
          BY <1>3, <2>3 DEF DeckTables
        <4>2. deck' = [d \in Decks |-> deck'[d]]
          BY <2>9
        <4> QED
          BY <1>2, <4>1, <4>2
      <3>3. \A d \in Decks : deck[d] # None => deck'[d] # None
        BY <2>8, <2>9
      <3>4. Generations' = Generations
        BY <1>1 DEF Generations
      <3>5. \A x \in Trainers : external[x] # None =>
              external[x] \in [deck : Decks, status : 1 .. 3] /\ trainer[x] # None /\ deck'[external[x].deck] # None
        BY <1>3, <3>3 DEF DeckTables
      <3> QED
        BY <1>1, <1>3, <3>1, <3>2, <3>4, <3>5 DEF DeckTables
    <2>13. (\A d \in Callers \ {c} : Sees(c, d, {<<"deck", s>>})) /\ DeckCall(call[c], crossed[c])'
      <3>1. CASE End(c, None, {<<"deck", s>>})
        <4>1. call'[c].pc = "idle" /\ \A d \in Callers \ {c} : Sees(c, d, {<<"deck", s>>})
          BY <3>1, EndDoes DEF CallsSound
        <4> QED
          BY <4>1 DEF DeckCall
      <3>2. CASE Len(call[c].arg) # 1 /\ NextSkill(c, arg, {<<"deck", s>>})
        <4>1. /\ call'[c] = [op |-> call[c].op, pc |-> "ask", arg |-> arg, seen |-> None, result |-> call[c].result]
              /\ \A d \in Callers \ {c} : Sees(c, d, {<<"deck", s>>})
          <5>1. PICK written : written = {<<"deck", s>>}
            OBVIOUS
          <5>2. "none" # call[c].op
            BY <1>1
          <5>3. /\ CallsSound' /\ Spares({"none"})
                /\ call'[c] = [op |-> call[c].op, pc |-> "ask", arg |-> arg, seen |-> None, result |-> call[c].result]
                /\ crossed'[c] = crossed[c]
                /\ \A d \in Callers \ {c} : Sees(c, d, written)
            BY <3>2, <5>1, <5>2, NextSkillSpares
          <5> QED
            BY <5>1, <5>3
        <4>2. PICK y, z : y = call'[c] /\ z = call[c].arg
          OBVIOUS
        <4>3. y.op = "slides" /\ y.pc = "ask" /\ y.arg = Tail(z)
          BY <1>1, <2>2, <4>1, <4>2
        <4>4. z \in Seq(Taught) /\ z # <<>> /\ Len(z) # 1
          BY <1>3, <3>2, <4>2 DEF SlidesKnow
        <4>5. Tail(z) \in Seq(Taught) /\ Tail(z) # <<>>
          <5>1. Tail(z) \in Seq(Taught) /\ Len(Tail(z)) = Len(z) - 1 /\ Len(z) \in Nat
            BY <4>4, HeadTailProperties
          <5>2. Tail(z) = <<>> <=> Len(Tail(z)) = 0
            BY <5>1, EmptySeq
          <5> QED
            BY <4>4, <5>1, <5>2
        <4>6. \A w : SlidesKnow(y, w)'
          BY <4>3, <4>5 DEF SlidesKnow
        <4>7. \A w : DeckCall(y, w)'
          BY <4>3, <4>6 DEF DeckCall
        <4> QED
          BY <4>1, <4>2, <4>7
      <3> QED
        BY <2>3, <3>1, <3>2
    <2>14. ASSUME NEW r \in Taught \ (doubled' \cup mislaid') PROVE Settled(r)'
      <3>1. Settled(r) /\ MadeFor(r)' = MadeFor(r)
        BY <1>1, <2>3 DEF DeckInv, MadeFor
      <3>2. ASSUME NEW n, NEW d \in Callers \ {c}, Busy(call[d], r) /\ AtMost(n, HeldBy(call[d])) PROVE Covered(r, n)'
        <4>1. call'[d] = call[d]
          BY <2>13 DEF Sees
        <4>2. (Busy(call[d], r) /\ AtMost(n, HeldBy(call[d])))'
          BY <1>1, <3>2, <4>1 DEF AtMost
        <4> QED
          BY <4>2 DEF Covered
      <3>3. CASE r # s
        <4>1. DecksOf(r)' = DecksOf(r) /\ \A d \in DecksOf(r) : deck'[d] = deck[d]
          BY <2>10, <3>3
        <4>2. ASSUME NEW n, Covered(r, n) PROVE Covered(r, n)'
          <5>1. CASE \E d \in DecksOf(r) : AtMost(n, deck[d].made)
            BY <1>1, <4>1, <5>1 DEF Covered, AtMost
          <5>2. CASE \E d \in Callers : Busy(call[d], r) /\ AtMost(n, HeldBy(call[d]))
            BY <1>4, <3>2, <3>3, <5>2
          <5> QED
            BY <4>2, <5>1, <5>2 DEF Covered
        <4> QED
          BY <1>1, <3>1, <4>1, <4>2 DEF Settled
      <3>4. CASE r = s
        <4>1. <<"deck", s>> \notin crossed[c]
          BY <2>3, <3>4
        <4>2. DecksOf(s)' = {row}
          <5>1. CASE found = None
            BY <1>5, <2>10, <4>1, <5>1
          <5>2. CASE found # None
            <6>1. DecksOf(s) = {found}
              BY <1>4, <3>1, <3>4, <5>2 DEF Settled
            <6> QED
              BY <2>4, <2>10, <5>2, <6>1
          <5> QED
            BY <5>1, <5>2
        <4>3. ASSUME NEW n \in MadeFor(s), Covered(s, n) PROVE Covered(s, n)'
          <5>1. ASSUME AtMost(n, m) PROVE Covered(s, n)'
            <6>1. AtMost(n, deck[row].made)'
              BY <1>1, <2>10, <5>1 DEF AtMost
            <6> QED
              BY <2>10, <6>1 DEF Covered
          <5>2. CASE \E d \in DecksOf(s) : AtMost(n, deck[d].made)
            <6>1. PICK d \in DecksOf(s) : AtMost(n, deck[d].made) /\ AtMost(deck[d].made, m)
              BY <1>5, <4>1, <5>2
            <6>2. \A o \in Made : made[o] # None => made[o].generation \in Int
              <7>1. \A o \in Made : made[o] # None =>
                      made[o] \in [skill : Taught, status : {"ready", "failed"}, generation : 1 .. Generations]
                BY <1>3 DEF DeckTables
              <7> QED
                BY <7>1
            <6>3. deck[d].made \in Made /\ made[deck[d].made] # None /\ n \in Made /\ made[n] # None
              BY <1>3, <4>3 DEF DecksOf, DeckTables, MadeFor
            <6>4. AtMost(n, m)
              BY <1>4, <6>1, <6>2, <6>3 DEF AtMost
            <6> QED
              BY <5>1, <6>4
          <5>3. CASE \E d \in Callers : Busy(call[d], s) /\ AtMost(n, HeldBy(call[d]))
            BY <1>4, <3>2, <3>4, <5>1, <5>3
          <5> QED
            BY <4>3, <5>2, <5>3 DEF Covered
        <4> QED
          BY <1>1, <3>1, <3>4, <4>2, <4>3 DEF Settled
      <3> QED
        BY <3>3, <3>4
    <2> QED
      BY <2>11, <2>12, <2>13, <2>14, DeckKeeps
  <1> QED
    BY <1>6, <1>7


\* A deck is looked for.
LEMMA FindDeckKeeps ==
  ASSUME CallsSound, DeckInv, NEW c \in Callers, FindDeck(c)
  PROVE DeckInv'
  <1>1. call[c].op = "slides" /\ call[c].pc = "find" /\ UNCHANGED deckVars
    BY DEF FindDeck, At
  <1>2. PICK s, m, w : s \in Taught /\ s = Head(call[c].arg) /\ m = call[c].seen /\ w = crossed[c]
    BY <1>1, SlidesCall
  <1>3. SlidesKnow(call[c], w)
    BY <1>1, <1>2, SlidesCall
  <1>4. PICK row, seen : seen = [made |-> m, row |-> row] /\ Goto(c, "save", seen, {}) /\ (row \in DecksOf(s) \/ (row = None /\ DecksOf(s) = {}))
    BY <1>2 DEF FindDeck, Existing
  <1>5. PICK y : y = [op |-> call[c].op, pc |-> "save", arg |-> call[c].arg, seen |-> seen, result |-> call[c].result]
    OBVIOUS
  <1>6. y.op = "slides" /\ y.pc = "save" /\ y.arg = call[c].arg /\ y.seen.made = m /\ y.seen.row = row /\ seen.made = m
    BY <1>1, <1>4, <1>5
  <1>7. HeldBy(y) = m /\ HeldBy(call[c]) = m
    BY <1>1, <1>2, <1>6 DEF HeldBy
  <1>8. None \notin DecksOf(s)
    BY IdsAssumption DEF DecksOf
  <1>9. SlidesKnow(y, w)
    BY <1>1, <1>2, <1>3, <1>4, <1>6, <1>7, <1>8 DEF SlidesKnow
  <1>10. DeckCall(y, w)
    BY <1>6, <1>9 DEF DeckCall
  <1>11. DeckCall([op |-> call[c].op, pc |-> "save", arg |-> call[c].arg, seen |-> seen, result |-> call[c].result], crossed[c])
    BY <1>2, <1>5, <1>10
  <1> QED
    BY <1>1, <1>2, <1>4, <1>6, <1>11, DeckGoesOn

\* A trainer is called for a meeting, and its row created.
LEMMA CallTrainerKeeps ==
  ASSUME CallsSound, DeckInv, NEW c \in Callers, CallTrainer(c)
  PROVE DeckInv'
  <1>1. /\ call[c].op = "startTrainer" /\ call[c].pc = "call" /\ TrainerRoom /\ UNCHANGED <<outcomes, deck, made, external, doubled>>
        /\ \A s : ~Busy(call[c], s)
    BY DEF CallTrainer, At, Busy
  <1>2. DeckTables /\ TrainerKnows(call[c])
    BY <1>1 DEF DeckInv, DeckCall
  <1>3. CASE End(c, None, {}) /\ UNCHANGED <<trainer, mislaid>>
    <2>1. DeckTables'
      BY <1>1, <1>2, <1>3 DEF DeckTables, Generations
    <2> QED
      BY <1>1, <1>3, <2>1, DeckEnds
  <1>4. PICK x : x = FreshTrainer
    OBVIOUS
  <1>5. CASE /\ trainer' = [trainer EXCEPT ![x] = 1]
             /\ \/ Goto(c, "create", x, {}) /\ UNCHANGED mislaid
                \/ End(c, None, {}) /\ mislaid' = mislaid \cup {x}
    <2>1. x \in Trainers /\ trainer[x] = None
      BY <1>1, <1>4 DEF TrainerRoom, FreshTrainer
    <2>2. trainer' = [z \in Trainers |-> IF z = x THEN 1 ELSE trainer[z]]
      BY <1>2, <1>5 DEF DeckTables
    <2>3. 1 # None
      BY IdsAssumption
    <2>4. DeckTables'
      <3>1. mislaid' \in {mislaid, mislaid \cup {x}} /\ mislaid \subseteq Taught \cup Trainers
        BY <1>2, <1>5 DEF DeckTables
      <3>2. mislaid' \subseteq Taught \cup Trainers
        BY <2>1, <3>1
      <3>3. Generations' = Generations
        BY <1>1 DEF Generations
      <3>4. /\ trainer' = [z \in Trainers |-> trainer'[z]] /\ \A z \in Trainers : trainer'[z] # None => trainer'[z] \in 1 .. 3
            /\ \A z \in Trainers : trainer[z] # None => trainer'[z] # None
        BY <1>2, <2>2, <2>3 DEF DeckTables
      <3> QED
        BY <1>1, <1>2, <3>2, <3>3, <3>4 DEF DeckTables
    <2>5. \A z \in Trainers : (trainer[z] # None => trainer'[z] # None) /\ (external[z] # None => external'[z] # None)
      BY <1>1, <2>2, <2>3
    <2>6. mislaid \subseteq mislaid'
      BY <1>5
    <2>7. CASE End(c, None, {})
      BY <1>1, <2>4, <2>5, <2>6, <2>7, DeckEnds
    <2>8. CASE Goto(c, "create", x, {})
      <3>1. /\ call'[c] = [op |-> call[c].op, pc |-> "create", arg |-> call[c].arg, seen |-> x, result |-> call[c].result]
            /\ \A d \in Callers \ {c} : Sees(c, d, {})
        BY <2>8, GotoDoes DEF CallsSound
      <3>2. PICK y, arg : y = call'[c] /\ arg = call[c].arg
        OBVIOUS
      <3>3. y.op = "startTrainer" /\ y.pc = "create" /\ y.arg = arg /\ y.seen = x
        BY <1>1, <3>1, <3>2
      <3>4. arg \in Decks /\ deck[arg] # None
        BY <1>2, <3>2 DEF TrainerKnows
      <3>5. trainer'[x] = 1
        BY <2>1, <2>2
      <3>6. TrainerKnows(y)'
        BY <1>1, <2>1, <2>3, <3>3, <3>4, <3>5 DEF TrainerKnows
      <3>7. \A w : DeckCall(y, w)'
        BY <3>3, <3>6 DEF DeckCall
      <3>8. DeckCall(call[c], crossed[c])'
        BY <3>2, <3>7
      <3>9. \A s \in Taught : outcomes'[s] # None => outcomes[s] # None
        BY <1>1
      <3>10. doubled \subseteq doubled' /\ UNCHANGED <<deck, made>>
        BY <1>1
      <3>11. \A s \in Taught \ (doubled' \cup mislaid') :
               outcomes'[s] # None /\ Busy(call[c], s) => Busy(call'[c], s) /\ HeldBy(call'[c]) = HeldBy(call[c])
        BY <1>1
      <3> QED
        BY <2>4, <2>5, <2>6, <3>1, <3>8, <3>9, <3>10, <3>11, DeckQuiet
    <2> QED
      BY <1>5, <2>7, <2>8
  <1> QED
    BY <1>3, <1>4, <1>5 DEF CallTrainer

\* Rows of trainers.
LEMMA ExternalKeeps ==
  ASSUME CallsSound, DeckInv, NEW c \in Callers, CreateExternal(c) \/ SaveStatus(c)
  PROVE DeckInv'
  <1>1. /\ UNCHANGED <<outcomes, deck, made, trainer, doubled, mislaid>> /\ DeckTables
        /\ \A s : ~Busy(call[c], s)
    BY DEF CreateExternal, SaveStatus, At, Busy, DeckInv
  <1>2. ASSUME NEW x \in Trainers, NEW row \in ExternalRow, trainer[x] # None, deck[row.deck] # None,
               external' = [external EXCEPT ![x] = row], NEW written, End(c, None, written)
        PROVE DeckInv'
    <2>1. row # None
      BY <1>2, IdsAssumption
    <2>2. external' = [z \in Trainers |-> IF z = x THEN row ELSE external[z]]
      BY <1>1, <1>2 DEF DeckTables
    <2>3. \A z \in Trainers : external[z] # None => external'[z] # None
      BY <2>1, <2>2
    <2>4. DeckTables'
      <3>1. \A z \in Trainers : external[z] # None => external[z] \in [deck : Decks, status : 1 .. 3] /\ trainer[z] # None /\ deck[external[z].deck] # None
        BY <1>1 DEF DeckTables
      <3>2. \A z \in Trainers : external'[z] # None => external'[z] \in [deck : Decks, status : 1 .. 3] /\ trainer[z] # None /\ deck[external'[z].deck] # None
        BY <1>2, <2>2, <3>1 DEF ExternalRow
      <3>3. external' = [z \in Trainers |-> external'[z]]
        BY <2>2
      <3>4. Generations' = Generations
        BY <1>1 DEF Generations
      <3> QED
        BY <1>1, <3>2, <3>3, <3>4 DEF DeckTables
    <2> QED
      BY <1>1, <1>2, <2>3, <2>4, DeckEnds
  <1>3. CASE CreateExternal(c)
    <2>1. PICK x, d : x = call[c].seen /\ d = call[c].arg
      OBVIOUS
    <2>2. TrainerKnows(call[c]) /\ call[c].pc = "create"
      BY <1>3 DEF CreateExternal, At, DeckInv, DeckCall
    <2>3. x \in Trainers /\ trainer[x] # None /\ d \in Decks /\ deck[d] # None
      BY <2>1, <2>2 DEF TrainerKnows
    <2>4. PICK row : row = [deck |-> d, status |-> 1]
      OBVIOUS
    <2>5. row \in ExternalRow /\ row.deck = d
      BY <2>3, <2>4 DEF ExternalRow
    <2>6. external' = [external EXCEPT ![x] = row] /\ End(c, None, {})
      BY <1>3, <2>1, <2>4 DEF CreateExternal
    <2> QED
      BY <1>2, <2>3, <2>5, <2>6
  <1>4. CASE SaveStatus(c)
    <2>1. PICK x, n : x = call[c].arg /\ n = call[c].seen
      OBVIOUS
    <2>2. PollKnows(call[c]) /\ call[c].pc = "save"
      BY <1>4 DEF SaveStatus, At, DeckInv, DeckCall
    <2>3. x \in Trainers /\ external[x] # None /\ n \in 1 .. 3
      BY <2>1, <2>2 DEF PollKnows
    <2>4. PICK old : old = external[x] /\ old \in [deck : Decks, status : 1 .. 3] /\ trainer[x] # None /\ deck[old.deck] # None
      BY <1>1, <2>3 DEF DeckTables
    <2>5. PICK row : row = [old EXCEPT !.status = n]
      OBVIOUS
    <2>6. row \in ExternalRow /\ row.deck = old.deck
      BY <2>3, <2>4, <2>5 DEF ExternalRow
    <2>7. external' = [external EXCEPT ![x].status = n] /\ End(c, None, {<<"polled", x>>})
      BY <1>4, <2>1 DEF SaveStatus
    <2>8. external' = [external EXCEPT ![x] = row]
      BY <2>4, <2>5, <2>7
    <2> QED
      BY <1>2, <2>3, <2>4, <2>6, <2>7, <2>8
  <1> QED
    BY <1>3, <1>4

\* The server goes down.
LEMMA CrashAnswerKeeps ==
  ASSUME CallsSound, DeckInv, NEW c \in Callers, CrashAnswer(c)
  PROVE DeckInv'
  <1>1. /\ call[c].op \in {"slides", "startTrainer"} /\ call[c].pc \in {"find", "save", "create"}
        /\ call' = [call EXCEPT ![c] = Idle]
        /\ mislaid' = mislaid \cup {IF call[c].op = "slides" THEN Head(call[c].arg) ELSE call[c].seen}
        /\ UNCHANGED <<outcomes, deck, made, trainer, external, doubled, crossed>> /\ DeckTables
    BY DEF CrashAnswer, DeckInv
  <1>2. call' = [d \in Callers |-> IF d = c THEN Idle ELSE call[d]]
    BY <1>1 DEF CallsSound, CallsOK
  <1>3. (\A d \in Callers \ {c} : Sees(c, d, {})) /\ DeckCall(call[c], crossed[c])'
    BY <1>1, <1>2 DEF Sees, DeckCall, Idle
  <1>4. \A s : Busy(call[c], s) => s \in mislaid'
    BY <1>1 DEF Busy
  <1>5. mislaid' \subseteq Taught \cup Trainers
    <2>1. mislaid \subseteq Taught \cup Trainers
      BY <1>1 DEF DeckTables
    <2>2. CASE call[c].op = "slides"
      BY <1>1, <2>1, <2>2, SlidesCall
    <2>3. CASE call[c].op = "startTrainer"
      <3>1. TrainerKnows(call[c])
        BY <1>1, <2>3 DEF DeckInv, DeckCall
      <3>2. call[c].seen \in Trainers
        BY <1>1, <3>1 DEF TrainerKnows
      <3> QED
        BY <1>1, <2>1, <2>3, <3>2
    <2> QED
      BY <1>1, <2>2, <2>3
  <1>6. DeckTables'
    BY <1>1, <1>5, ZenonT(40) DEF DeckTables, Generations
  <1>7. /\ UNCHANGED <<deck, made>> /\ mislaid \subseteq mislaid' /\ doubled \subseteq doubled'
        /\ \A s \in Taught : outcomes'[s] # None => outcomes[s] # None
        /\ \A x \in Trainers : (trainer[x] # None => trainer'[x] # None) /\ (external[x] # None => external'[x] # None)
    BY <1>1
  <1>8. \A s \in Taught \ (doubled' \cup mislaid') :
          outcomes'[s] # None /\ Busy(call[c], s) => Busy(call'[c], s) /\ HeldBy(call'[c]) = HeldBy(call[c])
    BY <1>4
  <1> QED
    BY <1>3, <1>6, <1>7, <1>8, DeckQuiet


\* Every step of slides and trainers.
LEMMA DecksKeep ==
  ASSUME CallsSound, DeckInv, NEW c \in Callers, DeckStep(c)
  PROVE DeckInv'
  <1>0. DeckTables
    BY DEF DeckInv
  <1>1. CASE GenerateSlides(c)
    <2>1. PICK list : list = SetToSeq(WithOutcomes) /\ Begin(c, "slides", "ask", list, None) /\ UNCHANGED deckVars
      BY <1>1 DEF GenerateSlides
    <2>2. WithOutcomes # {} /\ WithOutcomes \in SUBSET Taught
      BY <1>1 DEF GenerateSlides, WithOutcomes
    <2>3. list \in Seq(Taught) /\ list # <<>>
      BY <2>1, <2>2, SkillsInOrder
    <2>4. PICK y : y = [op |-> "slides", pc |-> "ask", arg |-> list, seen |-> None, result |-> None]
      OBVIOUS
    <2>5. y.op = "slides" /\ y.pc = "ask" /\ y.arg = list
      BY <2>4
    <2>6. DeckCall(y, {})
      BY <2>3, <2>5 DEF DeckCall, SlidesKnow
    <2>7. DeckCall([op |-> "slides", pc |-> "ask", arg |-> list, seen |-> None, result |-> None], {})
      BY <2>4, <2>6
    <2> QED
      BY <2>1, <2>7, DeckBegins
  <1>2. CASE AskSlides(c)
    BY <1>2, AskSlidesKeeps
  <1>3. CASE FindDeck(c)
    BY <1>3, FindDeckKeeps
  <1>4. CASE SaveDeck(c)
    BY <1>4, SaveDeckKeeps
  <1>5. CASE DeleteTaught(c)
    <2>1. PICK s \in Taught : outcomes[s] # None /\ DecksOf(s) = {} /\ outcomes' = [outcomes EXCEPT ![s] = None]
      BY <1>5 DEF DeleteTaught
    <2>2. Atomically(c, "deleteTaught", {}) /\ UNCHANGED <<deck, made, trainer, external, doubled, mislaid>>
      BY <1>5 DEF DeleteTaught
    <2>3. call[c].pc = "idle" /\ call' = call /\ \A d \in Callers \ {c} : Sees(c, d, {})
      BY <2>2, AtomicallyDoes DEF CallsSound, Atomically, Asked
    <2>4. outcomes' = [r \in Taught |-> IF r = s THEN None ELSE outcomes[r]]
      BY <1>0, <2>1 DEF DeckTables
    <2>5. DeckTables'
      <3>1. \A d \in Decks : deck[d] # None => outcomes'[deck[d].skill] = outcomes[deck[d].skill]
        BY <1>0, <2>1, <2>4 DEF DeckTables, DecksOf
      <3>2. outcomes' = [r \in Taught |-> outcomes'[r]]
        BY <2>4
      <3>3. Generations' = Generations
        BY <2>2 DEF Generations
      <3> QED
        BY <1>0, <2>2, <3>1, <3>2, <3>3 DEF DeckTables
    <2>6. DeckCall(call[c], crossed[c])'
      BY <2>3 DEF DeckCall
    <2>7. \A r : ~Busy(call[c], r)
      BY <2>3 DEF Busy
    <2>8. \A r \in Taught : outcomes'[r] # None => outcomes[r] # None
      BY <2>4
    <2>9. doubled \subseteq doubled' /\ mislaid \subseteq mislaid'
          /\ \A x \in Trainers : (trainer[x] # None => trainer'[x] # None) /\ (external[x] # None => external'[x] # None)
      BY <2>2
    <2> QED
      BY <2>2, <2>3, <2>5, <2>6, <2>7, <2>8, <2>9, DeckQuiet
  <1>6. CASE StartTrainer(c)
    <2>1. PICK d \in Decks : deck[d] # None /\ Begin(c, "startTrainer", "call", d, None) /\ UNCHANGED deckVars
      BY <1>6 DEF StartTrainer
    <2>2. PICK y : y = [op |-> "startTrainer", pc |-> "call", arg |-> d, seen |-> None, result |-> None]
      OBVIOUS
    <2>3. y.op = "startTrainer" /\ y.pc = "call" /\ y.arg = d
      BY <2>2
    <2>4. DeckCall(y, {})
      BY <2>1, <2>3 DEF DeckCall, TrainerKnows
    <2>5. DeckCall([op |-> "startTrainer", pc |-> "call", arg |-> d, seen |-> None, result |-> None], {})
      BY <2>2, <2>4
    <2> QED
      BY <2>1, <2>5, DeckBegins
  <1>7. CASE CallTrainer(c)
    BY <1>7, CallTrainerKeeps
  <1>8. CASE CreateExternal(c) \/ SaveStatus(c)
    BY <1>8, ExternalKeeps
  <1>9. CASE TrainerMoves(c)
    <2>1. PICK x \in Trainers : trainer[x] # None /\ trainer[x] < 3 /\ trainer' = [trainer EXCEPT ![x] = @ + 1]
      <3>1. Len(Progress) = 3
        BY DEF Progress
      <3> QED
        BY <1>9, <3>1 DEF TrainerMoves
    <2>2. Atomically(c, "trainerMoves", {}) /\ UNCHANGED <<outcomes, deck, made, external, doubled, mislaid>>
      BY <1>9 DEF TrainerMoves
    <2>3. call[c].pc = "idle" /\ call' = call /\ \A d \in Callers \ {c} : Sees(c, d, {})
      BY <2>2, AtomicallyDoes DEF CallsSound, Atomically, Asked
    <2>4. trainer' = [z \in Trainers |-> IF z = x THEN trainer[x] + 1 ELSE trainer[z]]
      BY <1>0, <2>1 DEF DeckTables
    <2>5. trainer[x] + 1 \in 1 .. 3 /\ trainer[x] + 1 # None
      BY <1>0, <2>1, IdsAssumption DEF DeckTables
    <2>6. \A z \in Trainers : (trainer'[z] # None => trainer'[z] \in 1 .. 3) /\ (trainer[z] # None => trainer'[z] # None)
      BY <1>0, <2>4, <2>5 DEF DeckTables
    <2>7. DeckTables'
      BY <1>0, <2>2, <2>4, <2>6 DEF DeckTables, Generations
    <2>8. DeckCall(call[c], crossed[c])'
      BY <2>3 DEF DeckCall
    <2>9. \A r : ~Busy(call[c], r)
      BY <2>3 DEF Busy
    <2>10. doubled \subseteq doubled' /\ mislaid \subseteq mislaid'
          /\ \A z \in Trainers : (trainer[z] # None => trainer'[z] # None) /\ (external[z] # None => external'[z] # None)
      BY <2>2, <2>6
    <2>11. \A r \in Taught : outcomes'[r] # None => outcomes[r] # None
      BY <2>2
    <2> QED
      BY <2>2, <2>3, <2>7, <2>8, <2>9, <2>10, <2>11, DeckQuiet
  <1>10. CASE Poll(c)
    <2>1. PICK x \in Trainers : external[x] # None /\ Begin(c, "poll", "ask", x, None) /\ UNCHANGED deckVars
      BY <1>10 DEF Poll
    <2>2. PICK y : y = [op |-> "poll", pc |-> "ask", arg |-> x, seen |-> None, result |-> None]
      OBVIOUS
    <2>3. y.op = "poll" /\ y.pc = "ask" /\ y.arg = x
      BY <2>2
    <2>4. DeckCall(y, {})
      BY <2>1, <2>3 DEF DeckCall, PollKnows
    <2>5. DeckCall([op |-> "poll", pc |-> "ask", arg |-> x, seen |-> None, result |-> None], {})
      BY <2>2, <2>4
    <2> QED
      BY <2>1, <2>5, DeckBegins
  <1>11. CASE AskStatus(c)
    <2>1. call[c].op = "poll" /\ call[c].pc = "ask" /\ UNCHANGED deckVars
      BY <1>11 DEF AskStatus, At
    <2>2. PICK x : x = call[c].arg
      OBVIOUS
    <2>3. PollKnows(call[c])
      BY <2>1 DEF DeckInv, DeckCall
    <2>4. x \in Trainers /\ external[x] # None
      BY <2>2, <2>3 DEF PollKnows
    <2>5. trainer[x] \in 1 .. 3
      BY <1>0, <2>4 DEF DeckTables
    <2>6. CASE Goto(c, "save", trainer[x], {})
      <3>1. PICK n, y : n = trainer[x] /\ y = [op |-> call[c].op, pc |-> "save", arg |-> call[c].arg, seen |-> n, result |-> call[c].result]
        OBVIOUS
      <3>2. y.op = "poll" /\ y.pc = "save" /\ y.arg = x /\ y.seen = n
        BY <2>1, <2>2, <3>1
      <3>3. PollKnows(y)
        BY <2>4, <2>5, <3>1, <3>2 DEF PollKnows
      <3>4. \A w : DeckCall(y, w)
        BY <3>2, <3>3 DEF DeckCall
      <3>5. DeckCall([op |-> call[c].op, pc |-> "save", arg |-> call[c].arg, seen |-> n, result |-> call[c].result], crossed[c])
        BY <3>1, <3>4
      <3>6. Goto(c, "save", n, {}) /\ call[c].pc # "find" /\ call[c].pc # "save"
        BY <2>1, <2>6, <3>1
      <3> QED
        BY <2>1, <3>5, <3>6, DeckGoesOn
    <2>7. CASE End(c, None, {})
      <3>1. DeckTables'
        BY <1>0, <2>1 DEF deckVars, DeckTables, Generations
      <3>2. \A s : ~Busy(call[c], s)
        BY <2>1 DEF Busy
      <3>3. UNCHANGED <<outcomes, deck, made, trainer, external, doubled, mislaid>>
        BY <2>1 DEF deckVars
      <3>4. /\ UNCHANGED <<outcomes, deck, made>> /\ doubled \subseteq doubled' /\ mislaid \subseteq mislaid'
            /\ \A z \in Trainers : (trainer[z] # None => trainer'[z] # None) /\ (external[z] # None => external'[z] # None)
        BY <3>3
      <3> QED
        BY <2>7, <3>1, <3>2, <3>4, DeckEnds
    <2> QED
      BY <1>11, <2>2, <2>6, <2>7 DEF AskStatus, Answered
  <1>12. CASE CrashAnswer(c)
    BY <1>12, CrashAnswerKeeps
  <1> QED
    BY <1>1, <1>2, <1>3, <1>4, <1>5, <1>6, <1>7, <1>8, <1>9, <1>10, <1>11, <1>12 DEF DeckStep

\* Steps beside them.
LEMMA DecksBeside ==
  ASSUME CallsSound, DeckInv, Spares({"slides", "startTrainer", "poll"}), UNCHANGED deckVars
  PROVE DeckInv'
  <1>1. DeckTables'
    BY DEF deckVars, DeckInv, DeckTables, Generations
  <1>2. ASSUME NEW d \in Callers PROVE DeckCall(call[d], crossed[d])'
    <2>1. PICK y, w, more : y = call'[d] /\ w = crossed[d] /\ more = crossed'[d]
      OBVIOUS
    <2>2. CASE y.op \in {"slides", "startTrainer", "poll"}
      <3>1. y = call[d] /\ w \subseteq more
        BY <2>1, <2>2 DEF Spares
      <3>2. DeckCall(y, w)
        BY <2>1, <3>1 DEF DeckInv
      <3>3. DeckCall(y, more)
        BY <3>1, <3>2 DEF DeckCall, SlidesKnow
      <3>4. DeckCall(y, more)'
        BY <3>3 DEF deckVars, DeckCall, SlidesKnow, TrainerKnows, PollKnows, HeldBy, AtMost, DecksOf
      <3> QED
        BY <2>1, <3>4
    <2>3. CASE y.op \notin {"slides", "startTrainer", "poll"}
      <3>1. \A v : DeckCall(y, v)'
        BY <2>3 DEF DeckCall
      <3> QED
        BY <2>1, <3>1
    <2> QED
      BY <2>2, <2>3
  <1>3. ASSUME NEW s \in Taught \ (doubled' \cup mislaid') PROVE Settled(s)'
    <2>1. Settled(s)
      BY <1>3 DEF deckVars, DeckInv
    <2>2. \A d \in Callers : Busy(call[d], s) => call'[d] = call[d]
      BY DEF Spares, Busy
    <2>3. UNCHANGED <<deck, made>> /\ (outcomes'[s] # None => outcomes[s] # None)
      BY DEF deckVars
    <2>4. outcomes'[s] # None =>
            \A d \in Callers : Busy(call[d], s) => Busy(call'[d], s) /\ HeldBy(call'[d]) = HeldBy(call[d])
      BY <2>2
    <2> QED
      BY <1>3, <2>1, <2>3, <2>4, SettledStays
  <1> QED
    BY <1>1, <1>2, <1>3 DEF DeckInv


\* A step of the portal is one of slides and trainers, or spares them.
DeckOps == {"slides", "startTrainer", "poll"}
LEMMA DecksAmong ==
  ASSUME CallsSound, [PortalNext]_portalVars
  PROVE /\ CallsSound'
        /\ (\E c \in Callers : DeckStep(c)) \/ (Spares(DeckOps) /\ UNCHANGED deckVars)
  <1>1. None \notin DeckOps
    BY PortalAssumption DEF DeckOps, DeckCalls
  <1>2. /\ DeckOps \cap AccountOps = {} /\ DeckOps \cap RosterOps = {} /\ DeckOps \cap RecCalls = {} /\ DeckOps \cap LetterCalls = {}
        /\ DeckOps \cap TreeCalls = {} /\ DeckOps \cap RubricCalls = {} /\ DeckOps \cap FigureCalls = {}
    BY DEF DeckOps, AccountOps, RosterOps, RosterCalls, RecCalls, LetterCalls, TreeCalls, RubricCalls, FigureCalls
  <1>3. PICK c : Among(c, DeckOps) /\ CallsSound'
    BY <1>1, PortalAmong
  <1> QED
    BY <1>2, <1>3 DEF Among, portalVars

\* TrainerDecks: what the run checks of slides holds for any number of skills, decks and
\* requests at once: unless two generations overlapped or an answer was lost, a skill has
\* one deck, the last that the AI trainer made for it.
THEOREM DecksAreLatest == PortalSpec => []DeckIsLatest
  <1>1. PortalInit => CallsSound /\ DeckInv
    <2>1. PortalInit => CallsSound
      BY CallsStartSound DEF PortalInit, AccountsInit, Init
    <2> QED
      BY <2>1, DeckStart
  <1>2. CallsSound /\ DeckInv /\ [PortalNext]_portalVars => (CallsSound /\ DeckInv)'
    BY DecksAmong, DecksKeep, DecksBeside DEF DeckOps
  <1>3. DeckInv => DeckIsLatest
    BY DeckInvIsTrue
  <1> QED
    BY <1>1, <1>2, <1>3, PTL DEF PortalSpec

\* And its rows refer to what is there.
THEOREM DecksTyped == PortalSpec => []DeckTypeOK
  <1>1. PortalInit => CallsSound /\ DeckInv
    <2>1. PortalInit => CallsSound
      BY CallsStartSound DEF PortalInit, AccountsInit, Init
    <2> QED
      BY <2>1, DeckStart
  <1>2. CallsSound /\ DeckInv /\ [PortalNext]_portalVars => (CallsSound /\ DeckInv)'
    BY DecksAmong, DecksKeep, DecksBeside DEF DeckOps
  <1>3. DeckInv => DeckTypeOK
    BY DeckInvIsTrue
  <1> QED
    BY <1>1, <1>2, <1>3, PTL DEF PortalSpec


-----------------------------------------------------------------------------
(* A login is one session, and five wrong passwords lock an account.  What *)
(* a rotation has not retired yet is left aside, unless another rotation   *)
(* of the same token has been seen.                                        *)

\* The tables of sign-ins.
AccountTables ==
  /\ login = [p \in People |-> login[p]] /\ streak = [p \in People |-> streak[p]] /\ token = [t \in Tokens |-> token[t]]
  /\ \A p \in People : streak[p] \in Nat /\ (login[p] # None => login[p] \in LoginRow)
  /\ \A t \in Tokens : token[t] # None =>
       /\ token[t] \in TokenRow /\ t \in issued /\ token[t].family \in issued
       /\ token[t].old => token[t].revoked \/ token[t].expired
  /\ handshake \in [Handshakes -> {"unused", "waiting", "expired", "gone"}]
  /\ issued \subseteq Tokens /\ ended \subseteq issued /\ overlapped \subseteq Tokens \cup People

\* What a call holds.
AttemptKnows(x, written) ==
  /\ x.arg.right \in BOOLEAN /\ login[x.arg.person] # None /\ x.seen \in Nat
  /\ <<"attempt", x.arg.person>> \notin written => x.seen = login[x.arg.person].failures
RotationKnows(x, written) ==
  /\ x.arg \in Tokens /\ token[x.arg] # None /\ token[x.arg].family = x.seen /\ ~token[x.arg].old
  /\ x.pc = "create" /\ <<"rotated", x.arg>> \notin written /\ <<"ended", x.seen>> \notin written =>
       ~token[x.arg].revoked /\ ~token[x.arg].expired /\ (x.seen \in ended => x.seen \in overlapped)
AccountCall(x, written) == x.pc # "idle" =>
  /\ x.op \in {"password", "demo", "callback"} => x.arg.person \in People
  /\ x.op = "password" /\ x.pc = "verified" => AttemptKnows(x, written)
  /\ x.op \in {"refresh", "logout"} => x.seen \in issued
  /\ x.op = "refresh" /\ x.pc \in {"create", "retire"} => RotationKnows(x, written)

\* A family's rotations, and its tokens.
Retiring(x, f) == x.op = "refresh" /\ x.pc = "retire" /\ x.seen = f
ToRetire(f) == {t \in Tokens : \E c \in Callers : Retiring(call[c], f) /\ call[c].arg = t}
Late(f) == \E c \in Callers : Retiring(call[c], f) /\ <<"rotated", call[c].arg>> \in crossed[c]
OneSession(f) ==
  /\ f \in ended => Live(f) = {}
  /\ ~Late(f) => \A t, u \in Live(f) \ ToRetire(f) : t = u
Counted(p) == login[p] # None =>
  login[p].failures = streak[p] /\ (login[p].locked # "no" <=> login[p].failures >= 5)
AccountInv ==
  /\ AccountTables
  /\ \A p \in People \ overlapped : Counted(p)
  /\ \A f \in Tokens \ overlapped : OneSession(f)
  /\ \A c \in Callers : AccountCall(call[c], crossed[c])

\* It is what the run checks.
LEMMA AccountInvIsTrue ==
  ASSUME AccountInv PROVE SignInHolds
  <1>1. ASSUME NEW f \in issued \ overlapped, \A c \in Callers : ~Retiring(call[c], f)
        PROVE Cardinality(Live(f)) <= 1 /\ (f \in ended => Live(f) = {})
    <2>1. f \in Tokens \ overlapped /\ ~Late(f) /\ ToRetire(f) = {}
      BY <1>1 DEF AccountInv, AccountTables, Late, ToRetire
    <2>2. OneSession(f)
      BY <2>1 DEF AccountInv
    <2>3. \A t, u \in Live(f) : t = u
      BY <2>1, <2>2 DEF OneSession
    <2>4. CASE Live(f) = {}
      BY <2>4, FS_EmptySet
    <2>5. CASE Live(f) # {}
      <3>1. PICK t : Live(f) = {t}
        BY <2>3, <2>5
      <3>2. Cardinality(Live(f)) = 1
        BY <3>1, FS_Singleton
      <3> QED
        BY <2>2, <3>2 DEF OneSession
    <2> QED
      BY <2>4, <2>5
  <1>2. FamilyIsOneSession
    BY <1>1 DEF FamilyIsOneSession, Retiring, At
  <1>3. ASSUME NEW p \in People \ overlapped, login[p] # None
        PROVE login[p].locked # "no" <=> streak[p] >= MaxFailedAttempts
    BY <1>3 DEF AccountInv, Counted, MaxFailedAttempts
  <1> QED
    BY <1>2, <1>3 DEF SignInHolds, LockedAfterFive


\* At the start nobody is signed in.
LEMMA AccountStart ==
  ASSUME PortalInit PROVE AccountInv
  <1>1. PICK start \in Cases : AccountsInit(start)
    BY DEF PortalInit
  <1>2. CallsInit(start.calls)
    BY <1>1 DEF AccountsInit, Init
  <1>3. \A c \in Callers : call[c] = Idle
    BY <1>2, CallsStart
  <1>4. \A c \in Callers : AccountCall(call[c], crossed[c])
    BY <1>3 DEF AccountCall, Idle
  <1>5. /\ start.login \in [People -> LoginRow \cup {None}]
        /\ \A p \in People : start.login[p] # None => (start.login[p].locked # "no" <=> start.login[p].failures >= 5)
    BY <1>1, CasesAssumption DEF MaxFailedAttempts
  <1>6. /\ login \in [People -> LoginRow \cup {None}]
        /\ \A p \in People : login[p] # None => (login[p].locked # "no" <=> login[p].failures >= 5)
        /\ streak = [p \in People |-> IF login[p] = None THEN 0 ELSE login[p].failures]
        /\ token = [t \in Tokens |-> None] /\ issued = {} /\ ended = {} /\ overlapped = {}
        /\ handshake = [h \in Handshakes |-> "unused"]
    BY <1>1, <1>5 DEF AccountsInit
  <1>7. \A p \in People : streak[p] \in Nat
    BY <1>6 DEF LoginRow
  <1>8. AccountTables
    BY <1>6, <1>7 DEF AccountTables
  <1>9. \A p \in People : Counted(p)
    BY <1>6 DEF Counted
  <1>10. \A f : Live(f) = {}
    BY <1>6 DEF Live, FamilyOf
  <1> QED
    BY <1>4, <1>8, <1>9, <1>10 DEF AccountInv, OneSession

\* What a call may rely on: rows stay, and change only where it is told.
AccountsStay(written) ==
  /\ issued \subseteq issued'
  /\ \A p \in People : login[p] # None =>
       login'[p] # None /\ (<<"attempt", p>> \notin written => login'[p].failures = login[p].failures)
  /\ \A f \in issued : (f \in overlapped => f \in overlapped') /\ (<<"ended", f>> \notin written /\ f \in ended' => f \in ended)
TokensStay(written) == \A t \in Tokens : token[t] # None /\ ~token[t].old =>
  /\ token'[t] # None /\ token'[t].family = token[t].family /\ ~token'[t].old
  /\ <<"rotated", t>> \notin written /\ <<"ended", token[t].family>> \notin written /\ ~token[t].revoked /\ ~token[t].expired =>
       ~token'[t].revoked /\ ~token'[t].expired

\* A call that is not concerned knows what it knew.
LEMMA OtherAccounts ==
  ASSUME AccountTables, NEW x, NEW known, NEW written, AccountCall(x, known), AccountsStay(written),
         x.op \in {"refresh", "logout"} /\ x.pc # "idle" => TokensStay(written)
  PROVE AccountCall(x, known \cup written)'
  <1>1. CASE x.pc # "idle" /\ x.op = "password" /\ x.pc = "verified"
    <2>1. AttemptKnows(x, known) /\ x.arg.person \in People
      BY <1>1 DEF AccountCall
    <2>2. AttemptKnows(x, known \cup written)'
      BY <2>1 DEF AttemptKnows, AccountsStay
    <2> QED
      BY <1>1, <2>1, <2>2 DEF AccountCall
  <1>2. CASE x.pc # "idle" /\ x.op \in {"refresh", "logout"}
    <2>1. x.seen \in issued /\ x.seen \in issued' /\ TokensStay(written)
      BY <1>2 DEF AccountCall, AccountsStay
    <2>2. CASE x.op = "refresh" /\ x.pc \in {"create", "retire"}
      <3>1. RotationKnows(x, known)
        BY <1>2, <2>2 DEF AccountCall
      <3>2. RotationKnows(x, known \cup written)'
        BY <2>1, <3>1 DEF RotationKnows, TokensStay, AccountsStay
      <3> QED
        BY <1>2, <2>1, <3>2 DEF AccountCall
    <2> QED
      BY <1>2, <2>1, <2>2 DEF AccountCall
  <1>3. CASE x.pc = "idle" \/ (x.op \notin {"refresh", "logout"} /\ ~(x.op = "password" /\ x.pc = "verified"))
    BY <1>3 DEF AccountCall
  <1> QED
    BY <1>1, <1>2, <1>3

\* So a step keeps the invariant if its own call knows what it should, and what it writes is counted.
LEMMA AccountKeeps ==
  ASSUME AccountInv, NEW c \in Callers, NEW written, AccountsStay(written),
         TokensStay(written) \/ \A d \in Callers : ~HoldsToken(d),
         AccountTables', (\A p \in People \ overlapped : Counted(p))', (\A f \in Tokens \ overlapped : OneSession(f))',
         AccountCall(call[c], crossed[c])', \A d \in Callers \ {c} : Sees(c, d, written)
  PROVE AccountInv'
  <1>1. SUFFICES ASSUME NEW d \in Callers \ {c} PROVE AccountCall(call[d], crossed[d])'
    BY DEF AccountInv
  <1>2. PICK x, known, more : x = call[d] /\ known = crossed[d] /\ more = crossed'[d]
    OBVIOUS
  <1>3. AccountCall(x, known) /\ call'[d] = x
    BY <1>2 DEF AccountInv, Sees
  <1>4. CASE x.pc = "idle"
    BY <1>3, <1>4 DEF AccountCall
  <1>5. CASE x.pc # "idle"
    <2>1. more = known \cup written
      BY <1>2, <1>5 DEF Sees
    <2>2. x.op \in {"refresh", "logout"} /\ x.pc # "idle" => TokensStay(written)
      BY <1>2 DEF HoldsToken
    <2>3. AccountCall(x, more)'
      BY <1>3, <2>1, <2>2, OtherAccounts DEF AccountInv
    <2> QED
      BY <1>2, <1>3, <2>3
  <1> QED
    BY <1>4, <1>5

\* A family stays one session while its rotations go on and it has no new token.
LEMMA SessionStays ==
  ASSUME NEW f, OneSession(f), Live(f)' \subseteq Live(f), f \in ended' => f \in ended \/ Live(f)' = {},
         \A d \in Callers : Retiring(call[d], f) =>
           Retiring(call'[d], f) /\ call'[d].arg = call[d].arg /\ crossed[d] \subseteq crossed'[d]
  PROVE OneSession(f)'
  <1>1. ToRetire(f) \subseteq ToRetire(f)'
    <2>1. ASSUME NEW t \in Tokens, NEW d \in Callers, Retiring(call[d], f), call[d].arg = t
          PROVE (Retiring(call[d], f) /\ call[d].arg = t)'
      BY <2>1
    <2> QED
      BY <2>1 DEF ToRetire
  <1>2. Late(f) => Late(f)'
    <2>1. ASSUME NEW d \in Callers, Retiring(call[d], f), <<"rotated", call[d].arg>> \in crossed[d]
          PROVE (Retiring(call[d], f) /\ <<"rotated", call[d].arg>> \in crossed[d])'
      BY <2>1
    <2> QED
      BY <2>1 DEF Late
  <1> QED
    BY <1>1, <1>2 DEF OneSession

\* A step that changes no row of these.
LEMMA AccountQuiet ==
  ASSUME AccountInv, NEW c \in Callers, UNCHANGED <<login, token, issued, streak, ended, overlapped>>, AccountTables',
         AccountCall(call[c], crossed[c])', ~At(c, "refresh", "retire"), \A d \in Callers \ {c} : Sees(c, d, {})
  PROVE AccountInv'
  <1>1. AccountsStay({}) /\ TokensStay({})
    BY DEF AccountsStay, TokensStay
  <1>2. (\A p \in People \ overlapped : Counted(p))'
    BY DEF AccountInv, Counted
  <1>3. ASSUME NEW f \in Tokens \ overlapped' PROVE OneSession(f)'
    <2>1. OneSession(f) /\ Live(f)' = Live(f)
      BY <1>3 DEF AccountInv, Live, FamilyOf
    <2>2. \A d \in Callers : Retiring(call[d], f) => d # c /\ call'[d] = call[d] /\ crossed[d] \subseteq crossed'[d]
      BY DEF Retiring, Sees, At
    <2> QED
      BY <2>1, <2>2, SessionStays
  <1> QED
    BY <1>1, <1>2, <1>3, AccountKeeps


\* A call begins.
LEMMA AccountBegins ==
  ASSUME CallsSound, AccountInv, NEW c \in Callers, NEW op, NEW pc, NEW arg, NEW seen, Begin(c, op, pc, arg, seen),
         UNCHANGED <<login, token, issued, streak, ended, overlapped>>,
         handshake' \in [Handshakes -> {"unused", "waiting", "expired", "gone"}],
         AccountCall([op |-> op, pc |-> pc, arg |-> arg, seen |-> seen, result |-> None], {})
  PROVE AccountInv'
  <1>1. /\ call[c].pc = "idle"
        /\ call'[c] = [op |-> op, pc |-> pc, arg |-> arg, seen |-> seen, result |-> None]
        /\ crossed'[c] = {}
        /\ \A d \in Callers \ {c} : call'[d] = call[d] /\ crossed'[d] = crossed[d]
    BY BeginDoes DEF CallsSound
  <1>2. \A d \in Callers \ {c} : Sees(c, d, {})
    BY <1>1 DEF Sees
  <1>3. PICK y : y = [op |-> op, pc |-> pc, arg |-> arg, seen |-> seen, result |-> None] /\ AccountCall(y, {})
    OBVIOUS
  <1>4. AccountCall(y, {})'
    BY <1>3 DEF AccountCall, AttemptKnows, RotationKnows
  <1>5. AccountCall(call[c], crossed[c])'
    BY <1>1, <1>3, <1>4
  <1>6. AccountTables'
    BY DEF AccountInv, AccountTables
  <1>7. ~At(c, "refresh", "retire")
    BY <1>1 DEF At
  <1> QED
    BY <1>2, <1>5, <1>6, <1>7, AccountQuiet

\* A sign-in goes on, or ends, and writes nothing.
LEMMA AccountGoesOn ==
  ASSUME CallsSound, AccountInv, NEW c \in Callers, call[c].op \in {"password", "demo", "callback"}, call[c].pc # "idle",
         (\E pc \in {"user", "issue"} : Goto(c, pc, None, {})) \/ End(c, None, {}), UNCHANGED accountVars
  PROVE AccountInv'
  <1>1. call[c].arg.person \in People
    BY DEF AccountInv, AccountCall
  <1>2. \A d \in Callers \ {c} : Sees(c, d, {})
    BY GotoDoes, EndDoes DEF CallsSound
  <1>3. CASE End(c, None, {})
    <2>1. call'[c].pc = "idle"
      BY <1>3, EndDoes DEF CallsSound
    <2>2. AccountCall(call[c], crossed[c])' /\ AccountTables' /\ ~At(c, "refresh", "retire")
      BY <2>1 DEF accountVars, AccountCall, AccountInv, AccountTables, At
    <2> QED
      BY <1>2, <2>2, AccountQuiet DEF accountVars
  <1>4. ASSUME NEW pc \in {"user", "issue"}, Goto(c, pc, None, {}) PROVE AccountInv'
    <2>1. call'[c] = [op |-> call[c].op, pc |-> pc, arg |-> call[c].arg, seen |-> None, result |-> call[c].result]
      BY <1>4, GotoDoes DEF CallsSound
    <2>2. PICK y : y = call'[c]
      OBVIOUS
    <2>3. y.op = call[c].op /\ y.pc = pc /\ y.arg = call[c].arg
      BY <2>1, <2>2
    <2>4. \A w : AccountCall(y, w)'
      BY <1>1, <2>3 DEF AccountCall
    <2>5. AccountCall(call[c], crossed[c])' /\ AccountTables' /\ ~At(c, "refresh", "retire")
      BY <2>2, <2>4 DEF accountVars, AccountInv, AccountTables, At
    <2> QED
      BY <1>2, <2>5, AccountQuiet DEF accountVars
  <1> QED
    BY <1>3, <1>4

\* A password was right or wrong.
LEMMA AttemptKeeps ==
  ASSUME CallsSound, AccountInv, NEW c \in Callers, SaveAttempt(c)
  PROVE AccountInv'
  <1>1. PICK p, right, n, w : p = call[c].arg.person /\ right = call[c].arg.right /\ n = call[c].seen /\ w = {<<"attempt", p>>}
    OBVIOUS
  <1>2. /\ call[c].op = "password" /\ call[c].pc = "verified"
        /\ login' = [login EXCEPT ![p] = AfterAttempt(n, right)]
        /\ streak' = [streak EXCEPT ![p] = IF right THEN 0 ELSE @ + 1]
        /\ overlapped' = IF <<"attempt", p>> \in crossed[c] THEN overlapped \cup {p}
                         ELSE IF right THEN overlapped \ {p} ELSE overlapped
        /\ IF right THEN Goto(c, "issue", None, w) ELSE End(c, None, w)
        /\ UNCHANGED <<token, issued, handshake, ended>>
    BY <1>1 DEF SaveAttempt, At, Stale
  <1>3. /\ p \in People /\ right \in BOOLEAN /\ login[p] # None /\ n \in Nat
        /\ <<"attempt", p>> \notin crossed[c] => n = login[p].failures
    BY <1>1, <1>2 DEF AccountInv, AccountCall, AttemptKnows
  <1>4. AccountTables
    BY DEF AccountInv
  <1>5. PICK row : row = AfterAttempt(n, right)
    OBVIOUS
  <1>6. /\ row \in LoginRow /\ row.failures = (IF right THEN 0 ELSE n + 1)
        /\ row.locked # "no" <=> row.failures >= 5
    BY <1>3, <1>5 DEF AfterAttempt, LoginRow, Lock, MaxFailedAttempts
  <1>7. row # None
    BY <1>6, IdsAssumption
  <1>8. /\ login' = [q \in People |-> IF q = p THEN row ELSE login[q]]
        /\ streak' = [q \in People |-> IF q = p THEN IF right THEN 0 ELSE streak[p] + 1 ELSE streak[q]]
    BY <1>2, <1>4, <1>5 DEF AccountTables
  <1>9. p \notin Tokens
    BY <1>3, IdsAssumption
  <1>10. overlapped' \subseteq Tokens \cup People /\ \A f \in Tokens : f \in overlapped <=> f \in overlapped'
    BY <1>2, <1>3, <1>4, <1>9 DEF AccountTables
  <1>11. AccountTables'
    <2>1. \A q \in People : streak'[q] \in Nat /\ (login'[q] # None => login'[q] \in LoginRow)
      BY <1>3, <1>4, <1>6, <1>8 DEF AccountTables
    <2>2. login' = [q \in People |-> login'[q]] /\ streak' = [q \in People |-> streak'[q]]
      BY <1>8
    <2> QED
      BY <1>2, <1>4, <1>10, <2>1, <2>2 DEF AccountTables
  <1>12. AccountsStay(w) /\ TokensStay(w)
    BY <1>1, <1>2, <1>4, <1>7, <1>8, <1>10 DEF AccountsStay, TokensStay, AccountTables
  <1>13. ASSUME NEW q \in People \ overlapped' PROVE Counted(q)'
    <2>1. CASE q = p
      <3>1. n = login[p].failures /\ (~right => p \notin overlapped)
        BY <1>2, <1>3, <1>13, <2>1
      <3>2. ~right => n = streak[p]
        BY <1>3, <3>1 DEF AccountInv, Counted
      <3>3. login'[p] = row /\ streak'[p] = row.failures
        BY <1>3, <1>6, <1>8, <3>2
      <3> QED
        BY <1>6, <2>1, <3>3 DEF Counted
    <2>2. CASE q # p
      <3>1. Counted(q) /\ login'[q] = login[q] /\ streak'[q] = streak[q]
        BY <1>2, <1>8, <1>13, <2>2 DEF AccountInv
      <3> QED
        BY <3>1 DEF Counted
    <2> QED
      BY <2>1, <2>2
  <1>14. (\A d \in Callers \ {c} : Sees(c, d, w)) /\ AccountCall(call[c], crossed[c])'
    <2>1. CASE Goto(c, "issue", None, w)
      <3>1. /\ call'[c] = [op |-> call[c].op, pc |-> "issue", arg |-> call[c].arg, seen |-> None, result |-> call[c].result]
            /\ \A d \in Callers \ {c} : Sees(c, d, w)
        BY <2>1, GotoDoes DEF CallsSound
      <3>2. PICK y : y = call'[c]
        OBVIOUS
      <3>3. y.op = "password" /\ y.pc = "issue" /\ y.arg.person = p
        BY <1>1, <1>2, <3>1, <3>2
      <3>4. \A v : AccountCall(y, v)'
        BY <1>3, <3>3 DEF AccountCall
      <3> QED
        BY <3>1, <3>2, <3>4
    <2>2. CASE End(c, None, w)
      <3>1. call'[c].pc = "idle" /\ \A d \in Callers \ {c} : Sees(c, d, w)
        BY <2>2, EndDoes DEF CallsSound
      <3> QED
        BY <3>1 DEF AccountCall
    <2> QED
      BY <1>2, <2>1, <2>2
  <1>15. ASSUME NEW f \in Tokens \ overlapped' PROVE OneSession(f)'
    <2>1. OneSession(f) /\ Live(f)' = Live(f) /\ ended' = ended
      BY <1>2, <1>10, <1>15 DEF AccountInv, Live, FamilyOf
    <2>2. \A d \in Callers : Retiring(call[d], f) => d # c /\ call'[d] = call[d] /\ crossed[d] \subseteq crossed'[d]
      BY <1>2, <1>14 DEF Retiring, Sees
    <2> QED
      BY <2>1, <2>2, SessionStays
  <1> QED
    BY <1>11, <1>12, <1>13, <1>14, <1>15, AccountKeeps


\* A token is issued.
LEMMA TokenIssued ==
  ASSUME AccountTables, TokenRoom, NEW n, n = FreshToken, NEW p \in People, NEW f \in issued \cup {n},
         token' = Issued(p, f), issued' = issued \cup {n}, UNCHANGED <<login, handshake, streak, ended>>,
         overlapped' \subseteq Tokens \cup People
  PROVE /\ AccountTables' /\ n \in Tokens /\ n \notin issued /\ token[n] = None /\ token'[n].family = f
        /\ \A t \in Tokens \ {n} : token'[t] = token[t]
        /\ \A g : Live(g)' = IF g = f THEN Live(g) \cup {n} ELSE Live(g)
  <1>1. n \in Tokens /\ n \notin issued
    BY DEF TokenRoom, FreshToken
  <1>2. token[n] = None /\ f \in Tokens
    BY <1>1 DEF AccountTables
  <1>3. PICK row : row = [user |-> p, family |-> f, revoked |-> FALSE, expired |-> FALSE, old |-> FALSE]
    OBVIOUS
  <1>4. row \in TokenRow /\ row.family = f /\ ~row.revoked /\ ~row.expired /\ ~row.old
    BY <1>2, <1>3 DEF TokenRow
  <1>5. row # None
    BY <1>4, IdsAssumption
  <1>6. token' = [t \in Tokens |-> IF t = n THEN row ELSE token[t]]
    BY <1>3 DEF AccountTables, Issued
  <1>7. AccountTables'
    <2>1. \A t \in Tokens : token'[t] # None =>
            /\ token'[t] \in TokenRow /\ t \in issued' /\ token'[t].family \in issued'
            /\ token'[t].old => token'[t].revoked \/ token'[t].expired
      BY <1>4, <1>6 DEF AccountTables
    <2>2. token' = [t \in Tokens |-> token'[t]] /\ issued' \subseteq Tokens /\ ended' \subseteq issued'
      BY <1>1, <1>6 DEF AccountTables
    <2> QED
      BY <2>1, <2>2 DEF AccountTables
  <1>8. ASSUME NEW g PROVE Live(g)' = IF g = f THEN Live(g) \cup {n} ELSE Live(g)
    BY <1>1, <1>2, <1>4, <1>5, <1>6 DEF Live, FamilyOf
  <1> QED
    BY <1>1, <1>2, <1>4, <1>6, <1>7, <1>8

\* A login begins a family.
LEMMA IssueKeeps ==
  ASSUME CallsSound, AccountInv, NEW c \in Callers, IssueToken(c)
  PROVE AccountInv'
  <1>1. PICK n, p : n = FreshToken /\ p = call[c].arg.person
    OBVIOUS
  <1>2. /\ call[c].op \in {"password", "demo", "callback"} /\ call[c].pc = "issue" /\ TokenRoom
        /\ token' = Issued(p, n) /\ issued' = issued \cup {n} /\ End(c, None, {})
        /\ UNCHANGED <<login, handshake, streak, ended, overlapped>>
    BY <1>1 DEF IssueToken
  <1>3. p \in People /\ AccountTables /\ overlapped' \subseteq Tokens \cup People /\ n \in issued \cup {n}
    BY <1>1, <1>2 DEF AccountInv, AccountCall, AccountTables
  <1>4. /\ AccountTables' /\ n \in Tokens /\ n \notin issued /\ token[n] = None /\ token'[n].family = n
        /\ \A t \in Tokens \ {n} : token'[t] = token[t]
        /\ \A g : Live(g)' = IF g = n THEN Live(g) \cup {n} ELSE Live(g)
    BY <1>1, <1>2, <1>3, TokenIssued
  <1>5. Live(n) = {} /\ n \notin ended
    BY <1>3, <1>4 DEF Live, FamilyOf, AccountTables
  <1>6. call'[c].pc = "idle" /\ \A d \in Callers \ {c} : Sees(c, d, {})
    BY <1>2, EndDoes DEF CallsSound
  <1>7. AccountCall(call[c], crossed[c])'
    BY <1>6 DEF AccountCall
  <1>8. AccountsStay({}) /\ TokensStay({})
    BY <1>2, <1>4 DEF AccountsStay, TokensStay
  <1>9. (\A q \in People \ overlapped : Counted(q))'
    BY <1>2 DEF AccountInv, Counted
  <1>10. ASSUME NEW f \in Tokens \ overlapped' PROVE OneSession(f)'
    <2>1. CASE f = n
      <3>1. Live(f)' = {n} /\ f \notin ended'
        BY <1>2, <1>4, <1>5, <2>1
      <3> QED
        BY <3>1 DEF OneSession
    <2>2. CASE f # n
      <3>1. OneSession(f) /\ Live(f)' = Live(f) /\ ended' = ended
        BY <1>2, <1>4, <1>10, <2>2 DEF AccountInv
      <3>2. \A d \in Callers : Retiring(call[d], f) => d # c /\ call'[d] = call[d] /\ crossed[d] \subseteq crossed'[d]
        BY <1>2, <1>6 DEF Retiring, Sees
      <3> QED
        BY <3>1, <3>2, SessionStays
    <2> QED
      BY <2>1, <2>2
  <1> QED
    BY <1>4, <1>6, <1>7, <1>8, <1>9, <1>10, AccountKeeps

\* A rotation adds a token beside the one it will retire.
LEMMA CreateTokenKeeps ==
  ASSUME CallsSound, AccountInv, NEW c \in Callers, CreateToken(c)
  PROVE AccountInv'
  <1>1. PICK n, t, f, w : n = FreshToken /\ t = call[c].arg /\ f = call[c].seen /\ w = {<<"rotated", t>>}
    OBVIOUS
  <1>2. /\ call[c].op = "refresh" /\ call[c].pc = "create" /\ TokenRoom
        /\ token' = Issued(token[t].user, f) /\ issued' = issued \cup {n}
        /\ overlapped' = IF <<"rotated", t>> \in crossed[c] \/ <<"ended", f>> \in crossed[c]
                         THEN overlapped \cup {f} ELSE overlapped
        /\ Goto(c, "retire", f, w) /\ UNCHANGED <<login, handshake, streak, ended>>
    BY <1>1 DEF CreateToken, At, Stale
  <1>3. /\ AccountTables /\ RotationKnows(call[c], crossed[c]) /\ f \in issued
    BY <1>1, <1>2 DEF AccountInv, AccountCall
  <1>4. /\ t \in Tokens /\ token[t] # None /\ token[t].family = f /\ ~token[t].old
        /\ <<"rotated", t>> \notin crossed[c] /\ <<"ended", f>> \notin crossed[c] =>
             ~token[t].revoked /\ ~token[t].expired /\ (f \in ended => f \in overlapped)
    BY <1>1, <1>2, <1>3 DEF RotationKnows
  <1>5. PICK p \in People : p = token[t].user
    BY <1>3, <1>4 DEF AccountTables, TokenRow
  <1>6. overlapped' \subseteq Tokens \cup People /\ f \in Tokens
    BY <1>2, <1>3 DEF AccountTables
  <1>7. /\ AccountTables' /\ n \in Tokens /\ n \notin issued /\ token[n] = None /\ token'[n].family = f
        /\ \A u \in Tokens \ {n} : token'[u] = token[u]
        /\ \A g : Live(g)' = IF g = f THEN Live(g) \cup {n} ELSE Live(g)
    BY <1>1, <1>2, <1>3, <1>5, <1>6, TokenIssued
  <1>8. /\ call'[c] = [op |-> call[c].op, pc |-> "retire", arg |-> call[c].arg, seen |-> f, result |-> call[c].result]
        /\ crossed'[c] = crossed[c] /\ \A d \in Callers \ {c} : Sees(c, d, w)
    BY <1>2, GotoDoes DEF CallsSound
  <1>9. PICK y : y = call'[c]
    OBVIOUS
  <1>10. y.op = "refresh" /\ y.pc = "retire" /\ y.arg = t /\ y.seen = f
    BY <1>1, <1>2, <1>8, <1>9
  <1>11. AccountCall(call[c], crossed[c])'
    <2>1. token'[t] = token[t] /\ f \in issued'
      BY <1>2, <1>3, <1>4, <1>7
    <2>2. \A v : RotationKnows(y, v)'
      BY <1>4, <1>10, <2>1 DEF RotationKnows
    <2>3. \A v : AccountCall(y, v)'
      BY <1>10, <2>1, <2>2 DEF AccountCall
    <2> QED
      BY <1>9, <2>3
  <1>12. AccountsStay(w) /\ TokensStay(w)
    <2>1. issued \subseteq issued' /\ overlapped \subseteq overlapped'
      BY <1>2
    <2>2. \A u \in Tokens : token[u] # None => token'[u] = token[u]
      BY <1>7
    <2> QED
      BY <1>2, <2>1, <2>2 DEF AccountsStay, TokensStay
  <1>13. (\A q \in People \ overlapped : Counted(q))'
    BY <1>2 DEF AccountInv, Counted
  <1>14. ASSUME NEW g \in Tokens \ overlapped' PROVE OneSession(g)'
    <2>1. OneSession(g) /\ g \notin overlapped
      BY <1>2, <1>14 DEF AccountInv
    <2>2. CASE g # f
      <3>1. Live(g)' = Live(g) /\ ended' = ended
        BY <1>2, <1>7, <2>2
      <3>2. \A d \in Callers : Retiring(call[d], g) => d # c /\ call'[d] = call[d] /\ crossed[d] \subseteq crossed'[d]
        BY <1>2, <1>8 DEF Retiring, Sees
      <3> QED
        BY <2>1, <3>1, <3>2, SessionStays
    <2>3. CASE g = f
      <3>1. t \in Live(f) /\ f \notin ended /\ ended' = ended
        BY <1>2, <1>4, <1>14, <2>1, <2>3 DEF Live, FamilyOf
      <3>2. Live(f)' = Live(f) \cup {n}
        BY <1>7
      <3>3. ASSUME NEW d \in Callers, Retiring(call[d], f)
            PROVE (Retiring(call[d], f))' /\ call'[d] = call[d] /\ crossed'[d] = crossed[d] \cup w
        BY <1>2, <1>8, <3>3 DEF Retiring, Sees
      <3>4. Late(f) => Late(f)'
        BY <3>3 DEF Late
      <3>5. (t \in ToRetire(f)) => Late(f)'
        <4>1. ASSUME NEW d \in Callers, Retiring(call[d], f), call[d].arg = t
              PROVE (Retiring(call[d], f) /\ <<"rotated", call[d].arg>> \in crossed[d])'
          BY <1>1, <3>3, <4>1
        <4> QED
          BY <4>1 DEF ToRetire, Late
      <3>6. ToRetire(f) \cup {t} \subseteq ToRetire(f)'
        <4>1. Retiring(y, f)
          BY <1>10 DEF Retiring
        <4>2. (Retiring(call[c], f) /\ call[c].arg = t)'
          BY <1>9, <1>10, <4>1
        <4>3. ASSUME NEW u \in Tokens, NEW d \in Callers, Retiring(call[d], f), call[d].arg = u
              PROVE (Retiring(call[d], f) /\ call[d].arg = u)'
          BY <3>3, <4>3
        <4> QED
          BY <1>4, <4>2, <4>3 DEF ToRetire
      <3>7. ~Late(f)' => \A u, v \in Live(f)' \ ToRetire(f)' : u = v
        BY <2>1, <2>3, <3>1, <3>2, <3>4, <3>5, <3>6 DEF OneSession
      <3> QED
        BY <2>3, <3>1, <3>7 DEF OneSession
    <2> QED
      BY <2>2, <2>3
  <1> QED
    BY <1>7, <1>8, <1>11, <1>12, <1>13, <1>14, AccountKeeps


\* A rotation retires its token.
LEMMA RetireKeeps ==
  ASSUME CallsSound, AccountInv, NEW c \in Callers, RetireToken(c)
  PROVE AccountInv'
  <1>1. PICK t, f, w : t = call[c].arg /\ f = call[c].seen /\ w = {<<"rotated", t>>}
    OBVIOUS
  <1>2. /\ call[c].op = "refresh" /\ call[c].pc = "retire"
        /\ token' = [token EXCEPT ![t].revoked = TRUE]
        /\ overlapped' = IF <<"rotated", t>> \in crossed[c] THEN overlapped \cup {f} ELSE overlapped
        /\ End(c, None, w) /\ UNCHANGED <<login, issued, handshake, streak, ended>>
    BY <1>1 DEF RetireToken, At, Stale
  <1>3. /\ AccountTables /\ RotationKnows(call[c], crossed[c]) /\ f \in issued
    BY <1>1, <1>2 DEF AccountInv, AccountCall
  <1>4. t \in Tokens /\ token[t] # None /\ token[t].family = f /\ ~token[t].old
    BY <1>1, <1>3 DEF RotationKnows
  <1>5. PICK row : row = [token[t] EXCEPT !.revoked = TRUE]
    OBVIOUS
  <1>6. token[t] \in TokenRow
    BY <1>3, <1>4 DEF AccountTables
  <1>7. row \in TokenRow /\ row.family = f /\ row.revoked /\ row.old = token[t].old
    BY <1>4, <1>5, <1>6 DEF TokenRow
  <1>8. token' = [u \in Tokens |-> IF u = t THEN row ELSE token[u]]
    BY <1>2, <1>3, <1>5 DEF AccountTables
  <1>9. row # None
    BY <1>7, IdsAssumption
  <1>10. AccountTables'
    <2>1. \A u \in Tokens : token'[u] # None =>
             /\ token'[u] \in TokenRow /\ u \in issued /\ token'[u].family \in issued
             /\ token'[u].old => token'[u].revoked \/ token'[u].expired
      BY <1>3, <1>4, <1>7, <1>8 DEF AccountTables
    <2>2. token' = [u \in Tokens |-> token'[u]]
      BY <1>8
    <2>3. overlapped' \subseteq Tokens \cup People
      BY <1>2, <1>3 DEF AccountTables
    <2>4. UNCHANGED <<login, issued, handshake, streak, ended>>
      BY <1>2
    <2> QED
      BY <1>3, <2>1, <2>2, <2>3, <2>4 DEF AccountTables
  <1>11. \A g : Live(g)' = Live(g) \ {t}
    BY <1>4, <1>7, <1>8 DEF Live, FamilyOf
  <1>12. call'[c].pc = "idle" /\ \A d \in Callers \ {c} : Sees(c, d, w)
    BY <1>2, EndDoes DEF CallsSound
  <1>13. AccountCall(call[c], crossed[c])'
    BY <1>12 DEF AccountCall
  <1>14. AccountsStay(w) /\ TokensStay(w)
    <2>1. overlapped \subseteq overlapped'
      BY <1>2
    <2>2. TokensStay(w)
      BY <1>1, <1>4, <1>7, <1>8, <1>9 DEF TokensStay
    <2> QED
      BY <1>2, <2>1, <2>2 DEF AccountsStay
  <1>15. (\A q \in People \ overlapped : Counted(q))'
    BY <1>2 DEF AccountInv, Counted
  <1>16. ASSUME NEW g \in Tokens \ overlapped' PROVE OneSession(g)'
    <2>1. OneSession(g) /\ g \notin overlapped /\ ended' = ended
      BY <1>2, <1>16 DEF AccountInv
    <2>2. \A d \in Callers \ {c} : Retiring(call[d], g) => call'[d] = call[d] /\ crossed[d] \subseteq crossed'[d]
      BY <1>12 DEF Sees
    <2>3. CASE g # f
      <3>1. \A d \in Callers : Retiring(call[d], g) => d # c
        BY <1>1, <2>3 DEF Retiring
      <3>2. Live(g)' \subseteq Live(g)
        BY <1>11
      <3> QED
        BY <2>1, <2>2, <3>1, <3>2, SessionStays
    <2>4. CASE g = f
      <3>1. <<"rotated", t>> \notin crossed[c]
        BY <1>2, <1>16, <2>4
      <3>2. Late(f) => Late(f)'
        <4>1. ASSUME NEW d \in Callers, Retiring(call[d], f), <<"rotated", call[d].arg>> \in crossed[d]
              PROVE (Retiring(call[d], f) /\ <<"rotated", call[d].arg>> \in crossed[d])'
          <5>1. d # c
            BY <1>1, <3>1, <4>1
          <5> QED
            BY <2>2, <2>4, <4>1, <5>1
        <4> QED
          BY <4>1 DEF Late
      <3>3. ToRetire(f) \subseteq ToRetire(f)' \cup {t}
        <4>1. ASSUME NEW u \in Tokens \ {t}, NEW d \in Callers, Retiring(call[d], f), call[d].arg = u
              PROVE (Retiring(call[d], f) /\ call[d].arg = u)'
          <5>1. d # c
            BY <1>1, <4>1
          <5> QED
            BY <2>2, <2>4, <4>1, <5>1
        <4> QED
          BY <4>1 DEF ToRetire
      <3>4. Live(f)' = Live(f) \ {t}
        BY <1>11
      <3>5. ~Late(f)' => \A u, v \in Live(f)' \ ToRetire(f)' : u = v
        BY <2>1, <2>4, <3>2, <3>3, <3>4 DEF OneSession
      <3>6. f \in ended' => Live(f)' = {}
        BY <2>1, <2>4, <3>4 DEF OneSession
      <3> QED
        BY <2>4, <3>5, <3>6 DEF OneSession
    <2> QED
      BY <2>3, <2>4
  <1> QED
    BY <1>10, <1>12, <1>13, <1>14, <1>15, <1>16, AccountKeeps

\* The server goes down in a rotation.
LEMMA CrashRotationKeeps ==
  ASSUME CallsSound, AccountInv, NEW c \in Callers, CrashRotation(c)
  PROVE AccountInv'
  <1>1. PICK f : f = call[c].seen
    OBVIOUS
  <1>2. /\ call[c].op = "refresh" /\ call[c].pc = "retire" /\ call' = [call EXCEPT ![c] = Idle]
        /\ overlapped' = overlapped \cup {f}
        /\ UNCHANGED <<login, token, issued, handshake, streak, ended, crossed>> /\ AccountTables
    BY <1>1 DEF CrashRotation, At, AccountInv
  <1>3. f \in issued
    BY <1>1, <1>2 DEF AccountInv, AccountCall
  <1>4. call' = [d \in Callers |-> IF d = c THEN Idle ELSE call[d]]
    BY <1>2 DEF CallsSound, CallsOK
  <1>5. (\A d \in Callers \ {c} : Sees(c, d, {})) /\ AccountCall(call[c], crossed[c])'
    BY <1>2, <1>4 DEF Sees, AccountCall, Idle
  <1>6. AccountTables'
    BY <1>2, <1>3 DEF AccountTables
  <1>7. AccountsStay({}) /\ TokensStay({})
    BY <1>2 DEF AccountsStay, TokensStay
  <1>8. (\A q \in People \ overlapped : Counted(q))'
    BY <1>2 DEF AccountInv, Counted
  <1>9. ASSUME NEW g \in Tokens \ overlapped' PROVE OneSession(g)'
    <2>1. OneSession(g) /\ g # f /\ Live(g)' = Live(g) /\ ended' = ended
      BY <1>2, <1>9 DEF AccountInv, Live, FamilyOf
    <2>2. \A d \in Callers : Retiring(call[d], g) => d # c /\ call'[d] = call[d] /\ crossed[d] \subseteq crossed'[d]
      BY <1>1, <1>2, <1>4, <2>1 DEF Retiring
    <2> QED
      BY <2>1, <2>2, SessionStays
  <1> QED
    BY <1>5, <1>6, <1>7, <1>8, <1>9, AccountKeeps


\* A family is ended.
LEMMA RevokeKeeps ==
  ASSUME CallsSound, AccountInv, NEW c \in Callers, RevokeFamily(c)
  PROVE AccountInv'
  <1>1. PICK f, w : f = call[c].seen /\ w = {<<"ended", f>>}
    OBVIOUS
  <1>2. /\ call[c].op \in {"refresh", "logout"} /\ call[c].pc = "reuse"
        /\ token' = [t \in Tokens |-> IF t \in FamilyOf(f) THEN [token[t] EXCEPT !.revoked = TRUE] ELSE token[t]]
        /\ ended' = ended \cup {f} /\ End(c, None, w)
        /\ UNCHANGED <<login, issued, handshake, streak, overlapped>>
    BY <1>1 DEF RevokeFamily, At, Revoked
  <1>3. AccountTables /\ f \in issued /\ f \in Tokens
    BY <1>1, <1>2 DEF AccountInv, AccountCall, AccountTables
  <1>4. ASSUME NEW t \in Tokens
        PROVE /\ t \notin FamilyOf(f) => token'[t] = token[t]
              /\ t \in FamilyOf(f) => /\ token'[t] \in TokenRow /\ token'[t].family = f /\ token'[t].revoked
                                      /\ token'[t].old = token[t].old
    <2>1. CASE t \notin FamilyOf(f)
      BY <1>2, <2>1
    <2>2. CASE t \in FamilyOf(f)
      <3>1. PICK old : old = token[t] /\ old \in TokenRow /\ old.family = f
        BY <1>3, <2>2 DEF AccountTables, FamilyOf
      <3>2. PICK row : row = [old EXCEPT !.revoked = TRUE]
        OBVIOUS
      <3>3. row \in TokenRow /\ row.family = f /\ row.revoked /\ row.old = old.old
        BY <3>1, <3>2 DEF TokenRow
      <3>4. token'[t] = row
        BY <1>2, <2>2, <3>1, <3>2
      <3> QED
        BY <2>2, <3>1, <3>3, <3>4
    <2> QED
      BY <2>1, <2>2
  <1>5. \A t \in FamilyOf(f) : token'[t] # None
    BY <1>4, IdsAssumption DEF FamilyOf
  <1>6. AccountTables'
    <2>1. \A t \in Tokens : token'[t] # None =>
             /\ token'[t] \in TokenRow /\ t \in issued /\ token'[t].family \in issued
             /\ token'[t].old => token'[t].revoked \/ token'[t].expired
      BY <1>3, <1>4 DEF AccountTables, FamilyOf
    <2>2. token' = [t \in Tokens |-> token'[t]]
      BY <1>2
    <2>3. ended' \subseteq issued
      BY <1>2, <1>3 DEF AccountTables
    <2>4. UNCHANGED <<login, issued, handshake, streak, overlapped>>
      BY <1>2
    <2> QED
      BY <1>3, <2>1, <2>2, <2>3, <2>4 DEF AccountTables
  <1>7. \A g : Live(g)' = IF g = f THEN {} ELSE Live(g)
    <2>1. ASSUME NEW g, g # f, NEW t \in Tokens PROVE t \in Live(g)' <=> t \in Live(g)
      BY <1>4, <2>1 DEF Live, FamilyOf
    <2>2. ASSUME NEW t \in Live(f)' PROVE FALSE
      BY <1>4, <2>2 DEF Live, FamilyOf
    <2> QED
      BY <2>1, <2>2 DEF Live, FamilyOf
  <1>8. call'[c].pc = "idle" /\ \A d \in Callers \ {c} : Sees(c, d, w)
    BY <1>2, EndDoes DEF CallsSound
  <1>9. AccountCall(call[c], crossed[c])'
    BY <1>8 DEF AccountCall
  <1>10. AccountsStay(w) /\ TokensStay(w)
    <2>1. TokensStay(w)
      <3>1. ASSUME NEW t \in Tokens, token[t] # None, ~token[t].old
            PROVE /\ token'[t] # None /\ token'[t].family = token[t].family /\ ~token'[t].old
                  /\ <<"rotated", t>> \notin w /\ <<"ended", token[t].family>> \notin w /\ ~token[t].revoked /\ ~token[t].expired =>
                       ~token'[t].revoked /\ ~token'[t].expired
        <4>1. CASE t \in FamilyOf(f)
          <5>1. token[t].family = f
            BY <4>1 DEF FamilyOf
          <5> QED
            BY <1>1, <1>4, <1>5, <3>1, <4>1, <5>1
        <4>2. CASE t \notin FamilyOf(f)
          BY <1>4, <3>1, <4>2
        <4> QED
          BY <4>1, <4>2
      <3> QED
        BY <3>1 DEF TokensStay
    <2>2. \A g : <<"ended", g>> \notin w /\ g \in ended' => g \in ended
      BY <1>1, <1>2
    <2>3. UNCHANGED <<login, issued, overlapped>>
      BY <1>2
    <2> QED
      BY <2>1, <2>2, <2>3 DEF AccountsStay
  <1>11. (\A q \in People \ overlapped : Counted(q))'
    BY <1>2 DEF AccountInv, Counted
  <1>12. ASSUME NEW g \in Tokens \ overlapped' PROVE OneSession(g)'
    <2>1. OneSession(g) /\ Live(g)' \subseteq Live(g) /\ (g \in ended' => g \in ended \/ Live(g)' = {})
      BY <1>2, <1>7, <1>12 DEF AccountInv
    <2>2. \A d \in Callers : Retiring(call[d], g) => d # c /\ call'[d] = call[d] /\ crossed[d] \subseteq crossed'[d]
      BY <1>2, <1>8 DEF Retiring, Sees
    <2> QED
      BY <2>1, <2>2, SessionStays
  <1> QED
    BY <1>6, <1>8, <1>9, <1>10, <1>11, <1>12, AccountKeeps

\* Time passes over tokens, and the sweep takes the old ones.
LEMMA TokensAge ==
  ASSUME CallsSound, AccountInv, NEW c \in Callers, NEW op, Atomically(c, op, {}), token' = [t \in Tokens |-> token'[t]],
         UNCHANGED <<login, issued, handshake, streak, ended, overlapped>>,
         TokensStay({}) \/ \A d \in Callers : ~HoldsToken(d),
         \A t \in Tokens : token'[t] # None =>
           /\ token[t] # None /\ token'[t] \in TokenRow /\ token'[t].family = token[t].family
           /\ (token[t].revoked => token'[t].revoked) /\ (token[t].expired => token'[t].expired)
           /\ token'[t].old => token'[t].revoked \/ token'[t].expired
  PROVE AccountInv'
  <1>1. call' = call /\ call[c].pc = "idle" /\ crossed'[c] = crossed[c] /\ \A d \in Callers \ {c} : Sees(c, d, {})
    BY AtomicallyDoes DEF CallsSound, Atomically, Asked
  <1>2. AccountTables'
    BY DEF AccountInv, AccountTables
  <1>3. AccountsStay({})
    BY DEF AccountsStay
  <1>4. (\A q \in People \ overlapped : Counted(q))'
    BY DEF AccountInv, Counted
  <1>5. \A f : Live(f)' \subseteq Live(f)
    <2>1. ASSUME NEW f, NEW t \in Live(f)' PROVE t \in Live(f)
      <3>1. t \in Tokens /\ token'[t] # None /\ token'[t].family = f /\ ~token'[t].revoked /\ ~token'[t].expired
        BY <2>1 DEF Live, FamilyOf
      <3>2. token[t] # None /\ token[t].family = f /\ ~token[t].revoked /\ ~token[t].expired
        BY <3>1
      <3> QED
        BY <3>1, <3>2 DEF Live, FamilyOf
    <2> QED
      BY <2>1
  <1>6. ASSUME NEW g \in Tokens \ overlapped' PROVE OneSession(g)'
    <2>1. OneSession(g) /\ Live(g)' \subseteq Live(g) /\ ended' = ended
      BY <1>5, <1>6 DEF AccountInv
    <2>2. \A d \in Callers : Retiring(call[d], g) => call'[d] = call[d] /\ crossed[d] \subseteq crossed'[d]
      BY <1>1 DEF Retiring, Sees
    <2> QED
      BY <2>1, <2>2, SessionStays
  <1>7. AccountCall(call[c], crossed[c])'
    BY <1>1 DEF AccountCall
  <1> QED
    BY <1>1, <1>2, <1>3, <1>4, <1>6, <1>7, AccountKeeps


\* Every step of signing in and out.
LEMMA AccountsKeep ==
  ASSUME CallsSound, AccountInv, NEW c \in Callers, AccountStep(c)
  PROVE AccountInv'
  <1>0. AccountTables
    BY DEF AccountInv
  <1>1. CASE PasswordSignIn(c)
    <2>1. PICK p \in People, right \in BOOLEAN :
            /\ login[p] # None /\ Begin(c, "password", "verified", [person |-> p, right |-> right], login[p].failures)
      BY <1>1 DEF PasswordSignIn
    <2>2. PICK arg, n, y : /\ arg = [person |-> p, right |-> right] /\ n = login[p].failures
                           /\ y = [op |-> "password", pc |-> "verified", arg |-> arg, seen |-> n, result |-> None]
      OBVIOUS
    <2>3. y.op = "password" /\ y.pc = "verified" /\ y.arg.person = p /\ y.arg.right = right /\ y.seen = n
      BY <2>2
    <2>4. n \in Nat
      BY <1>0, <2>1, <2>2 DEF AccountTables, LoginRow
    <2>5. AccountCall(y, {})
      BY <2>1, <2>2, <2>3, <2>4 DEF AccountCall, AttemptKnows
    <2>6. AccountCall([op |-> "password", pc |-> "verified", arg |-> arg, seen |-> n, result |-> None], {})
      BY <2>2, <2>5
    <2>7. Begin(c, "password", "verified", arg, n) /\ UNCHANGED accountVars
      BY <1>1, <2>1, <2>2 DEF PasswordSignIn
    <2> QED
      BY <1>0, <2>6, <2>7, AccountBegins DEF accountVars, AccountTables
  <1>2. CASE SaveAttempt(c)
    BY <1>2, AttemptKeeps
  <1>3. CASE LockEnds(c)
    <2>1. PICK p \in People : login[p] # None /\ login[p].locked = "running" /\ login' = [login EXCEPT ![p].locked = "over"]
      BY <1>3 DEF LockEnds
    <2>2. Atomically(c, "lockEnds", {}) /\ UNCHANGED <<token, issued, handshake, streak, ended, overlapped>>
      BY <1>3 DEF LockEnds
    <2>3. PICK old, row : old = login[p] /\ row = [old EXCEPT !.locked = "over"]
      OBVIOUS
    <2>4. old \in LoginRow
      BY <1>0, <2>1, <2>3 DEF AccountTables
    <2>5. row \in LoginRow /\ row.failures = old.failures /\ row.locked = "over"
      BY <2>3, <2>4 DEF LoginRow, Lock
    <2>6. row # None
      BY <2>5, IdsAssumption
    <2>7. login' = [q \in People |-> IF q = p THEN row ELSE login[q]]
      BY <1>0, <2>1, <2>3 DEF AccountTables
    <2>8. call' = call /\ call[c].pc = "idle" /\ crossed'[c] = crossed[c] /\ \A d \in Callers \ {c} : Sees(c, d, {})
      BY <2>2, AtomicallyDoes DEF CallsSound, Atomically, Asked
    <2>9. AccountTables'
      <3>1. (\A q \in People : login'[q] # None => login'[q] \in LoginRow) /\ login' = [q \in People |-> login'[q]]
        BY <1>0, <2>5, <2>7 DEF AccountTables
      <3> QED
        BY <1>0, <2>2, <3>1 DEF AccountTables
    <2>10. AccountsStay({}) /\ TokensStay({})
      BY <2>2, <2>3, <2>5, <2>6, <2>7 DEF AccountsStay, TokensStay
    <2>11. ASSUME NEW q \in People \ overlapped' PROVE Counted(q)'
      <3>1. Counted(q) /\ streak' = streak
        BY <2>2, <2>11 DEF AccountInv
      <3> QED
        BY <2>1, <2>3, <2>5, <2>7, <3>1 DEF Counted
    <2>12. ASSUME NEW g \in Tokens \ overlapped' PROVE OneSession(g)'
      <3>1. OneSession(g) /\ Live(g)' = Live(g) /\ ended' = ended
        BY <2>2, <2>12 DEF AccountInv, Live, FamilyOf
      <3>2. \A d \in Callers : Retiring(call[d], g) => call'[d] = call[d] /\ crossed[d] \subseteq crossed'[d]
        BY <2>8 DEF Retiring, Sees
      <3> QED
        BY <3>1, <3>2, SessionStays
    <2>13. AccountCall(call[c], crossed[c])'
      BY <2>8 DEF AccountCall
    <2> QED
      BY <2>8, <2>9, <2>10, <2>11, <2>12, <2>13, AccountKeeps
  <1>4. CASE DemoSignIn(c)
    <2>1. PICK p \in People : Begin(c, "demo", "issue", [person |-> p], None) /\ UNCHANGED accountVars
      BY <1>4 DEF DemoSignIn
    <2>2. PICK arg, y : arg = [person |-> p] /\ y = [op |-> "demo", pc |-> "issue", arg |-> arg, seen |-> None, result |-> None]
      OBVIOUS
    <2>3. y.op = "demo" /\ y.arg.person = p
      BY <2>2
    <2>4. AccountCall(y, {})
      BY <2>3 DEF AccountCall
    <2>5. AccountCall([op |-> "demo", pc |-> "issue", arg |-> arg, seen |-> None, result |-> None], {})
      BY <2>2, <2>4
    <2> QED
      BY <1>0, <2>1, <2>2, <2>5, AccountBegins DEF accountVars, AccountTables
  <1>5. CASE StartMicrosoft(c) \/ HandshakeExpires(c) \/ SweepHandshakes(c)
    <2>1. PICK op : /\ Atomically(c, op, {}) /\ UNCHANGED <<login, token, issued, streak, ended, overlapped>>
                    /\ handshake' \in [Handshakes -> {"unused", "waiting", "expired", "gone"}]
      BY <1>0, <1>5 DEF StartMicrosoft, HandshakeExpires, SweepHandshakes, AccountTables
    <2>2. call' = call /\ call[c].pc = "idle" /\ \A d \in Callers \ {c} : Sees(c, d, {})
      BY <2>1, AtomicallyDoes DEF CallsSound, Atomically, Asked
    <2>3. AccountTables' /\ AccountCall(call[c], crossed[c])' /\ ~At(c, "refresh", "retire")
      BY <1>0, <2>1, <2>2 DEF AccountTables, AccountCall, At
    <2> QED
      BY <2>1, <2>2, <2>3, AccountQuiet
  <1>6. CASE Callback(c)
    <2>1. PICK p \in People, h \in Handshakes :
            /\ handshake' = [handshake EXCEPT ![h] = "gone"]
            /\ Atomically(c, "callback", {}) \/ Begin(c, "callback", "exchange", [person |-> p], None)
      BY <1>6 DEF Callback
    <2>2. /\ UNCHANGED <<login, token, issued, streak, ended, overlapped>>
          /\ handshake' \in [Handshakes -> {"unused", "waiting", "expired", "gone"}]
      BY <1>0, <1>6, <2>1 DEF Callback, AccountTables
    <2>3. CASE Atomically(c, "callback", {})
      <3>1. call' = call /\ call[c].pc = "idle" /\ \A d \in Callers \ {c} : Sees(c, d, {})
        BY <2>3, AtomicallyDoes DEF CallsSound, Atomically, Asked
      <3>2. AccountTables' /\ AccountCall(call[c], crossed[c])' /\ ~At(c, "refresh", "retire")
        BY <1>0, <2>2, <3>1 DEF AccountTables, AccountCall, At
      <3> QED
        BY <2>2, <3>1, <3>2, AccountQuiet
    <2>4. CASE Begin(c, "callback", "exchange", [person |-> p], None)
      <3>1. PICK arg, y : /\ arg = [person |-> p]
                          /\ y = [op |-> "callback", pc |-> "exchange", arg |-> arg, seen |-> None, result |-> None]
        OBVIOUS
      <3>2. y.op = "callback" /\ y.arg.person = p
        BY <3>1
      <3>3. AccountCall(y, {})
        BY <3>2 DEF AccountCall
      <3>4. AccountCall([op |-> "callback", pc |-> "exchange", arg |-> arg, seen |-> None, result |-> None], {})
        BY <3>1, <3>3
      <3>5. Begin(c, "callback", "exchange", arg, None)
        BY <2>4, <3>1
      <3> QED
        BY <2>2, <3>4, <3>5, AccountBegins
    <2> QED
      BY <2>1, <2>3, <2>4
  <1>7. CASE ExchangeCode(c) \/ TouchUser(c)
    <2>1. /\ call[c].op = "callback" /\ call[c].pc # "idle" /\ UNCHANGED accountVars
          /\ (\E pc \in {"user", "issue"} : Goto(c, pc, None, {})) \/ End(c, None, {})
      BY <1>7 DEF ExchangeCode, TouchUser, At
    <2> QED
      BY <2>1, AccountGoesOn
  <1>8. CASE IssueToken(c)
    BY <1>8, IssueKeeps
  <1>9. CASE Refresh(c) \/ Logout(c)
    <2>1. PICK t, op, pc, f :
            /\ t \in Tokens /\ token[t] # None /\ f = token[t].family /\ Begin(c, op, pc, t, f) /\ UNCHANGED accountVars
            /\ op \in {"refresh", "logout"} /\ pc \in {"reuse", "create"}
            /\ pc = "create" => ~token[t].revoked /\ ~token[t].expired
      BY <1>9 DEF Refresh, Logout
    <2>2. f \in issued /\ issued \subseteq Tokens /\ (token[t].old => token[t].revoked \/ token[t].expired)
      BY <1>0, <2>1 DEF AccountTables
    <2>3. pc = "create" => (f \in ended => f \in overlapped)
      <3>1. ASSUME pc = "create", f \notin overlapped PROVE f \notin ended
        <4>1. t \in Live(f)
          BY <2>1, <3>1 DEF Live, FamilyOf
        <4>2. OneSession(f)
          BY <2>2, <3>1 DEF AccountInv
        <4> QED
          BY <4>1, <4>2 DEF OneSession
      <3> QED
        BY <3>1
    <2>4. PICK y : y = [op |-> op, pc |-> pc, arg |-> t, seen |-> f, result |-> None]
      OBVIOUS
    <2>5. y.op = op /\ y.pc = pc /\ y.arg = t /\ y.seen = f
      BY <2>4
    <2>6. AccountCall(y, {})
      BY <2>1, <2>2, <2>3, <2>5 DEF AccountCall, RotationKnows
    <2>7. AccountCall([op |-> op, pc |-> pc, arg |-> t, seen |-> f, result |-> None], {})
      BY <2>4, <2>6
    <2> QED
      BY <1>0, <2>1, <2>7, AccountBegins DEF accountVars, AccountTables
  <1>10. CASE CreateToken(c)
    BY <1>10, CreateTokenKeeps
  <1>11. CASE RetireToken(c)
    BY <1>11, RetireKeeps
  <1>12. CASE CrashRotation(c)
    BY <1>12, CrashRotationKeeps
  <1>13. CASE RevokeFamily(c)
    BY <1>13, RevokeKeeps
  <1>14. CASE Expired(c) \/ Aged(c)
    <2>1. PICK t, old, row, op :
            /\ t \in Tokens /\ token[t] # None /\ old = token[t] /\ token' = [token EXCEPT ![t] = row]
            /\ \/ row = [old EXCEPT !.expired = TRUE]
               \/ row = [old EXCEPT !.old = TRUE] /\ (old.revoked \/ old.expired)
            /\ (\A d \in Callers : ~HoldsToken(d)) /\ Atomically(c, op, {})
      <3>1. CASE Expired(c)
        <4>1. PICK t \in Tokens : token[t] # None /\ token' = [token EXCEPT ![t].expired = TRUE]
          BY <3>1 DEF Expired
        <4>2. PICK old, row : old = token[t] /\ row = [old EXCEPT !.expired = TRUE]
          OBVIOUS
        <4>3. token' = [token EXCEPT ![t] = row]
          BY <4>1, <4>2
        <4> QED
          BY <3>1, <4>1, <4>2, <4>3 DEF Expired
      <3>2. CASE Aged(c)
        <4>1. PICK t \in Tokens : token[t] # None /\ token' = [token EXCEPT ![t].old = TRUE] /\ (token[t].revoked \/ token[t].expired)
          BY <3>2 DEF Aged
        <4>2. PICK old, row : old = token[t] /\ row = [old EXCEPT !.old = TRUE]
          OBVIOUS
        <4>3. token' = [token EXCEPT ![t] = row]
          BY <4>1, <4>2
        <4> QED
          BY <3>2, <4>1, <4>2, <4>3 DEF Aged
      <3> QED
        BY <1>14, <3>1, <3>2
    <2>2. old \in TokenRow /\ (old.old => old.revoked \/ old.expired)
      BY <1>0, <2>1 DEF AccountTables
    <2>3. /\ row \in TokenRow /\ row.family = old.family /\ (old.revoked => row.revoked) /\ (old.expired => row.expired)
          /\ row.old => row.revoked \/ row.expired
      BY <2>1, <2>2 DEF TokenRow
    <2>4. token' = [u \in Tokens |-> IF u = t THEN row ELSE token[u]]
      BY <1>0, <2>1 DEF AccountTables
    <2>5. UNCHANGED <<login, issued, handshake, streak, ended, overlapped>>
      BY <1>14 DEF Expired, Aged
    <2>6. token' = [u \in Tokens |-> token'[u]]
      BY <2>4
    <2>7. \A u \in Tokens : token'[u] # None =>
           /\ token[u] # None /\ token'[u] \in TokenRow /\ token'[u].family = token[u].family
           /\ (token[u].revoked => token'[u].revoked) /\ (token[u].expired => token'[u].expired)
           /\ token'[u].old => token'[u].revoked \/ token'[u].expired
      <3>1. ASSUME NEW u \in Tokens, token'[u] # None, u # t
            PROVE /\ token[u] # None /\ token'[u] = token[u] /\ token[u] \in TokenRow
                  /\ token[u].old => token[u].revoked \/ token[u].expired
        BY <1>0, <2>4, <3>1 DEF AccountTables
      <3>2. token'[t] = row
        BY <2>1, <2>4
      <3> QED
        BY <2>1, <2>3, <3>1, <3>2
    <2>8. (\A d \in Callers : ~HoldsToken(d)) /\ Atomically(c, op, {})
      BY <2>1
    <2> QED
      BY <2>5, <2>6, <2>7, <2>8, TokensAge
  <1>15. CASE SweepTokens(c)
    <2>1. /\ token' = [t \in Tokens |-> IF token[t] # None /\ token[t].old THEN None ELSE token[t]]
          /\ Atomically(c, "sweep", {}) /\ UNCHANGED <<login, issued, handshake, streak, ended, overlapped>>
      BY <1>15 DEF SweepTokens
    <2>2. token' = [t \in Tokens |-> token'[t]] /\ TokensStay({})
      BY <2>1 DEF TokensStay
    <2>3. \A u \in Tokens : token'[u] # None =>
           /\ token[u] # None /\ token'[u] \in TokenRow /\ token'[u].family = token[u].family
           /\ (token[u].revoked => token'[u].revoked) /\ (token[u].expired => token'[u].expired)
           /\ token'[u].old => token'[u].revoked \/ token'[u].expired
      BY <1>0, <2>1 DEF AccountTables
    <2> QED
      BY <2>1, <2>2, <2>3, TokensAge
  <1> QED
    BY <1>1, <1>2, <1>3, <1>4, <1>5, <1>6, <1>7, <1>8, <1>9, <1>10, <1>11, <1>12, <1>13, <1>14, <1>15 DEF AccountStep

\* Steps beside them.
LEMMA AccountsBeside ==
  ASSUME CallsSound, AccountInv, Spares(AccountOps), UNCHANGED accountVars
  PROVE AccountInv'
  <1>1. AccountTables'
    BY DEF accountVars, AccountInv, AccountTables
  <1>2. ASSUME NEW d \in Callers PROVE AccountCall(call[d], crossed[d])'
    <2>1. PICK y, w, more : y = call'[d] /\ w = crossed[d] /\ more = crossed'[d]
      OBVIOUS
    <2>2. CASE y.op \in AccountOps
      <3>1. y = call[d] /\ w \subseteq more
        BY <2>1, <2>2 DEF Spares
      <3>2. AccountCall(y, w)
        BY <2>1, <3>1 DEF AccountInv
      <3>3. AccountCall(y, more)
        BY <3>1, <3>2 DEF AccountCall, AttemptKnows, RotationKnows
      <3>4. AccountCall(y, more)'
        BY <3>3 DEF accountVars, AccountCall, AttemptKnows, RotationKnows
      <3> QED
        BY <2>1, <3>4
    <2>3. CASE y.op \notin AccountOps
      <3>1. \A v : AccountCall(y, v)'
        BY <2>3 DEF AccountCall, AccountOps
      <3> QED
        BY <2>1, <3>1
    <2> QED
      BY <2>2, <2>3
  <1>3. (\A q \in People \ overlapped : Counted(q))'
    BY DEF accountVars, AccountInv, Counted
  <1>4. ASSUME NEW f \in Tokens \ overlapped' PROVE OneSession(f)'
    <2>1. OneSession(f) /\ Live(f)' = Live(f) /\ ended' = ended
      BY <1>4 DEF accountVars, AccountInv, Live, FamilyOf
    <2>2. \A d \in Callers : Retiring(call[d], f) => call'[d] = call[d] /\ crossed[d] \subseteq crossed'[d]
      BY DEF Spares, Retiring, AccountOps
    <2> QED
      BY <2>1, <2>2, SessionStays
  <1> QED
    BY <1>1, <1>2, <1>3, <1>4 DEF AccountInv


\* A step of the portal is one of signing in, or spares it.
LEMMA AccountsAmong ==
  ASSUME CallsSound, [PortalNext]_portalVars
  PROVE /\ CallsSound'
        /\ (\E c \in Callers : AccountStep(c)) \/ (Spares(AccountOps) /\ UNCHANGED accountVars)
  <1>1. None \notin AccountOps
    BY PortalAssumption DEF AccountOps, AccountCalls
  <1>2. /\ AccountOps \cap RosterOps = {} /\ AccountOps \cap RecCalls = {} /\ AccountOps \cap LetterCalls = {}
        /\ AccountOps \cap DeckCalls = {} /\ AccountOps \cap TreeCalls = {} /\ AccountOps \cap RubricCalls = {}
        /\ AccountOps \cap FigureCalls = {}
    BY DEF AccountOps, RosterOps, RosterCalls, RecCalls, DeckCalls, LetterCalls, TreeCalls, RubricCalls, FigureCalls
  <1>3. PICK c : Among(c, AccountOps) /\ CallsSound'
    BY <1>1, PortalAmong
  <1> QED
    BY <1>2, <1>3 DEF Among, RosterStep, portalVars, allVars

\* Accounts: what the run checks of signing in holds for any number of people, tokens and
\* requests at once: a login's family has one token that works at most, and none once it
\* was ended; an account is locked by five wrong passwords in a row and by no fewer.
THEOREM SignInIsSound == PortalSpec => []SignInHolds
  <1>1. PortalInit => CallsSound /\ AccountInv
    <2>1. PortalInit => CallsSound
      BY CallsStartSound DEF PortalInit, AccountsInit, Init
    <2> QED
      BY <2>1, AccountStart
  <1>2. CallsSound /\ AccountInv /\ [PortalNext]_portalVars => (CallsSound /\ AccountInv)'
    BY AccountsAmong, AccountsKeep, AccountsBeside
  <1>3. AccountInv => SignInHolds
    BY AccountInvIsTrue
  <1> QED
    BY <1>1, <1>2, <1>3, PTL DEF PortalSpec


-----------------------------------------------------------------------------
(* The delayed jobs of a session follow it, and an answer is kept with its *)
(* meeting.  Of the calls that move or cancel a session one at most has    *)
(* written, unless they overlap; an answer that the invitation lacks is on *)
(* its way.                                                                *)

\* The tables of invitations.
LetterTables ==
  /\ clock \in 0 .. Horizon /\ session \in SessionRow /\ updates \in Nat
  /\ session.status = "INVITED" => session.event \in Letters
  /\ outlook = [w \in Meetings |-> outlook[w]] /\ letter = [w \in Meetings |-> letter[w]]
  /\ \A w \in Meetings : /\ outlook[w] # None => outlook[w] \in OutlookRow
                         /\ letter[w] # None => letter[w] \in LetterRow /\ outlook[w] # None
  /\ astray \subseteq Meetings
  /\ mixed \in BOOLEAN /\ hushed \in BOOLEAN

\* What a call about the session holds, unless another has written it.
Meddling == {"createMeeting", "updateMeeting", "reschedule", "cancel"}
Meddles(x) == x.op \in Meddling /\ x.pc # "idle"
Wrote(x) ==
  \/ x.op = "createMeeting" /\ x.pc \in {"mail", "remind"}
  \/ x.op = "reschedule" /\ x.pc \in {"queue", "remind"}
  \/ x.op = "cancel" /\ x.pc = "drop"
MeetingKnows(x) ==
  /\ x.arg = session.start /\ session.status # "CANCELLED"
  /\ x.pc \in {"graph", "record"} => session.event = None
  /\ x.pc \in {"mail", "remind"} => session.status = "INVITED"
MoveKnows(x) ==
  /\ session.status # "CANCELLED"
  /\ x.pc \in {"queue", "remind"} => x.arg.start = session.start
LetterKnows(x) ==
  /\ x.op = "createMeeting" => MeetingKnows(x)
  /\ x.op = "reschedule" => MoveKnows(x)
  /\ x.op = "updateMeeting" => session.status # "CANCELLED"
  /\ x.op = "cancel" /\ x.pc = "drop" => session.status = "CANCELLED"
\* What is told of an answer.
Told(w, n) == /\ n.meeting = w /\ n.nth \in 1 .. outlook[w].nth /\ n.answer \in Answers
              /\ n.nth = outlook[w].nth => n.answer = outlook[w].answer
Recording(x) == x.op \in {"createMeeting", "updateMeeting"} /\ x.pc = "record"
ReportKnows(x) == x.arg \in Letters /\ Told(x.arg, x.seen)
LetterCall(x, written) == x.pc # "idle" =>
  /\ x.op = "createMeeting" => x.pc \in {"graph", "record", "mail", "remind"}
  /\ x.op = "updateMeeting" => x.pc \in {"graph", "record", "moved"}
  /\ x.op = "reschedule" => x.pc \in {"write", "queue", "remind"} /\ x.arg.start \in 1 .. Horizon /\ x.arg.silent \in BOOLEAN
  /\ x.op = "cancel" => x.pc \in {"write", "drop"}
  /\ x.op \in Meddling /\ <<"session", None>> \notin written => LetterKnows(x)
  /\ Recording(x) => x.seen \in Meetings /\ outlook[x.seen] # None /\ letter[x.seen] = None
  /\ x.op = "report" => ReportKnows(x)
  /\ x.op = "runReminder" => x.arg \in Letters

\* The jobs, when no two calls about the session have overlapped.
Apart == ~mixed /\ \A c \in Callers : Meddles(call[c]) => <<"session", None>> \notin crossed[c]
Reminded == session.start - ReminderLead > clock => reminders = {session.start - ReminderLead}
Between(op, pcs) == \E c \in Callers : call[c].op = op /\ call[c].pc \in pcs
Updating == updates > 0 \/ Between("updateMeeting", {"graph", "record", "moved"})
JobsFollow ==
  /\ \A c, d \in Callers : Wrote(call[c]) /\ Wrote(call[d]) => c = d
  /\ session.status = "CANCELLED" /\ ~Between("cancel", {"drop"}) => reminders = {} /\ mails = {}
  /\ session.status # "CANCELLED" /\ ~Between("reschedule", {"queue"}) => reminders \subseteq {session.start - ReminderLead}
  /\ Between("reschedule", {"remind"}) => reminders = {}
  /\ session.status # "CANCELLED" /\ (session.status = "INVITED" \/ Updating) =>
       Reminded \/ Between("reschedule", {"queue", "remind"}) \/ Between("createMeeting", {"mail", "remind"})
  /\ session.event = None \/ Between("createMeeting", {"mail"}) => mails = {}
  /\ ~Updating /\ ~hushed /\ ~Between("reschedule", {"queue"}) /\ ~Between("cancel", {"drop"}) =>
       mails \subseteq {session.start - MailLead}

\* The answers.
OnItsWay(w) ==
  \/ \E n \in notices : n.meeting = w /\ n.nth = outlook[w].nth
  \/ \E c \in Callers : At(c, "report", "write") /\ call[c].arg = w /\ call[c].seen.nth = outlook[w].nth
Kept(w) == letter[w] # None /\ letter[w].nth = outlook[w].nth
AnswerOf(w) == outlook[w] # None =>
  /\ outlook[w].nth = 0 => outlook[w].answer = "PENDING"
  /\ letter[w] # None =>
       /\ letter[w].nth <= outlook[w].nth
       /\ letter[w].nth = outlook[w].nth => letter[w].rsvp = outlook[w].answer
  /\ outlook[w].nth = 0 \/ w \in astray \/ OnItsWay(w) \/ Kept(w)
LetterInv ==
  /\ LetterTables
  /\ \A n \in notices : n.meeting \in Meetings /\ outlook[n.meeting] # None /\ Told(n.meeting, n)
  /\ \A w \in Meetings : AnswerOf(w)
  /\ \A c, d \in Callers : Recording(call[c]) /\ Recording(call[d]) /\ call[c].seen = call[d].seen => c = d
  /\ \A c \in Callers : LetterCall(call[c], crossed[c])
  /\ Apart => JobsFollow


\* It is what the run checks.
LEMMA LetterInvIsTrue ==
  ASSUME LetterInv PROVE InvitationsHold /\ LetterTypeOK
  <1>1. RemindersFollow
    <2>1. SUFFICES ASSUME \A c \in Callers : call[c].pc = "idle", ~mixed
                   PROVE /\ session.status = "CANCELLED" => reminders = {} /\ mails = {}
                         /\ session.status # "CANCELLED" => reminders \subseteq {session.start - ReminderLead}
                         /\ session.status = "INVITED" /\ session.start - ReminderLead > clock =>
                              reminders = {session.start - ReminderLead}
                         /\ updates = 0 /\ ~hushed => mails \subseteq {session.start - MailLead}
      BY DEF RemindersFollow
    <2>2. JobsFollow
      BY <2>1 DEF LetterInv, Apart, Meddles
    <2>3. ASSUME NEW op, NEW pcs, "idle" \notin pcs PROVE ~Between(op, pcs)
      BY <2>1, <2>3 DEF Between
    <2>4. /\ ~Between("cancel", {"drop"}) /\ ~Between("reschedule", {"queue"})
          /\ ~Between("reschedule", {"queue", "remind"}) /\ ~Between("createMeeting", {"mail", "remind"})
          /\ ~Between("updateMeeting", {"graph", "record", "moved"})
      BY <2>3
    <2>5. ~Updating <=> updates = 0
      BY <2>4 DEF Updating, LetterInv, LetterTables
    <2> QED
      BY <2>2, <2>4, <2>5 DEF JobsFollow, Reminded
  <1>2. ASSUME NEW w \in Letters, w \notin astray, ~\E c \in Callers : call[c].op = "report" /\ call[c].pc # "idle"
        PROVE /\ letter[w].nth <= outlook[w].nth
              /\ (\A n \in notices : n.meeting # w) => letter[w].rsvp = outlook[w].answer
    <2>1. w \in Meetings /\ letter[w] # None /\ outlook[w] # None /\ letter[w] \in LetterRow /\ outlook[w] \in OutlookRow
      BY <1>2 DEF LetterInv, LetterTables, Letters
    <2>2. AnswerOf(w)
      BY <2>1 DEF LetterInv
    <2>3. \A n \in notices : n.meeting # w => ~(n.meeting = w /\ n.nth = outlook[w].nth)
      OBVIOUS
    <2>4. (\A n \in notices : n.meeting # w) => ~OnItsWay(w)
      BY <1>2 DEF OnItsWay, At
    <2>5. letter[w].nth \in Nat /\ outlook[w].nth \in Nat
      BY <2>1 DEF LetterRow, OutlookRow
    <2> QED
      BY <1>2, <2>1, <2>2, <2>4, <2>5 DEF AnswerOf, Kept
  <1>3. AnswersAreTheirs
    BY <1>2 DEF AnswersAreTheirs
  <1>4. LetterTypeOK
    <2>1. LetterTables
      BY DEF LetterInv
    <2>2. session.start \in 1 .. Horizon /\ session.status \in {"SCHEDULED", "INVITED", "CANCELLED"}
      BY <2>1 DEF LetterTables, SessionRow
    <2>3. \A w \in Letters : outlook[w] # None /\ letter[w].rsvp \in {"PENDING", "ACCEPTED", "DECLINED"}
      BY <2>1 DEF LetterTables, Letters, LetterRow, Answers
    <2> QED
      BY <2>1, <2>2, <2>3 DEF LetterTypeOK, LetterTables
  <1> QED
    BY <1>1, <1>3, <1>4 DEF InvitationsHold

\* At the start nothing is queued, and nobody has answered.
LEMMA LetterStart ==
  ASSUME PortalInit PROVE LetterInv
  <1>1. PICK start \in Cases : AccountsInit(start) /\ LetterInit(start.letter)
    BY DEF PortalInit
  <1>2. CallsInit(start.calls)
    BY <1>1 DEF AccountsInit, Init
  <1>3. \A c \in Callers : call[c].pc = "idle"
    BY <1>2, CallsStart DEF Idle
  <1>4. start.letter.at \in 1 .. Horizon /\ Horizon \in Nat
    BY <1>1, CasesAssumption, IdsAssumption
  <1>5. /\ clock = 0 /\ session = [status |-> "SCHEDULED", start |-> start.letter.at, event |-> None]
        /\ outlook = [w \in Meetings |-> None] /\ letter = [w \in Meetings |-> None]
        /\ reminders = {} /\ mails = {} /\ updates = 0 /\ notices = {}
        /\ hushed = FALSE /\ mixed = FALSE /\ astray = {}
    BY <1>1 DEF LetterInit
  <1>6. session \in SessionRow /\ session.status = "SCHEDULED"
    BY <1>4, <1>5 DEF SessionRow
  <1>7. LetterTables
    <2>1. /\ outlook = [w \in Meetings |-> outlook[w]] /\ letter = [w \in Meetings |-> letter[w]]
          /\ \A w \in Meetings : outlook[w] = None /\ letter[w] = None
      BY <1>5
    <2>2. clock \in 0 .. Horizon /\ updates \in Nat
      BY <1>4, <1>5
    <2>3. astray \subseteq Meetings /\ mixed \in BOOLEAN /\ hushed \in BOOLEAN
      BY <1>5
    <2> QED
      BY <1>6, <2>1, <2>2, <2>3 DEF LetterTables
  <1>8. \A c \in Callers : LetterCall(call[c], crossed[c]) /\ ~Wrote(call[c]) /\ ~Recording(call[c])
    BY <1>3 DEF LetterCall, Wrote, Recording
  <1>9. ~Updating
    BY <1>3, <1>5 DEF Updating, Between
  <1>10. JobsFollow
    BY <1>5, <1>6, <1>8, <1>9 DEF JobsFollow
  <1> QED
    BY <1>5, <1>7, <1>8, <1>10 DEF LetterInv, AnswerOf

\* Of a call that goes on alone.
LEMMA BetweenOne ==
  ASSUME NEW c \in Callers, \A d \in Callers \ {c} : call'[d] = call[d], NEW op, NEW pcs
  PROVE /\ Between(op, pcs)' => Between(op, pcs) \/ (call'[c].op = op /\ call'[c].pc \in pcs)
        /\ Between(op, pcs) => Between(op, pcs)' \/ (call[c].op = op /\ call[c].pc \in pcs)
        /\ call[c].op = op /\ call[c].pc \in pcs => Between(op, pcs)
        /\ call'[c].op = op /\ call'[c].pc \in pcs => Between(op, pcs)'
  BY DEF Between

\* What a call may rely on.
LettersStay(c, written) ==
  /\ <<"session", None>> \notin written => session' = session
  /\ \A w \in Meetings : /\ outlook[w] # None => outlook'[w] # None
                         /\ letter[w] # None => letter'[w] # None
                         /\ letter[w] = None => letter'[w] = None \/ (Recording(call[c]) /\ w = call[c].seen)
                         /\ outlook[w] # None => \A n : Told(w, n) => Told(w, n)'

\* A call that is not concerned knows what it knew.
LEMMA OtherLetters ==
  ASSUME LetterTables, NEW c, NEW x, NEW known, NEW written, LetterCall(x, known), LettersStay(c, written),
         Recording(x) /\ Recording(call[c]) => x.seen # call[c].seen
  PROVE LetterCall(x, known \cup written)'
  <1>1. SUFFICES ASSUME x.pc # "idle" PROVE LetterCall(x, known \cup written)'
    BY DEF LetterCall
  <1>2. x.op \in Meddling /\ <<"session", None>> \notin known \cup written => LetterKnows(x)'
    <2>1. SUFFICES ASSUME x.op \in Meddling, <<"session", None>> \notin known \cup written PROVE LetterKnows(x)'
      OBVIOUS
    <2>2. LetterKnows(x) /\ session' = session
      BY <1>1, <2>1 DEF LetterCall, LettersStay
    <2> QED
      BY <2>2 DEF LetterKnows, MeetingKnows, MoveKnows
  <1>3. Recording(x) => x.seen \in Meetings /\ outlook'[x.seen] # None /\ letter'[x.seen] = None
    BY <1>1 DEF LetterCall, LettersStay
  <1>4. x.op = "report" => ReportKnows(x)'
    <2>1. SUFFICES ASSUME x.op = "report" PROVE ReportKnows(x)'
      OBVIOUS
    <2>2. x.arg \in Meetings /\ letter[x.arg] # None /\ outlook[x.arg] # None /\ Told(x.arg, x.seen)
      BY <1>1, <2>1 DEF LetterCall, ReportKnows, Letters, LetterTables
    <2>3. letter'[x.arg] # None /\ Told(x.arg, x.seen)'
      BY <2>2 DEF LettersStay
    <2> QED
      BY <2>2, <2>3 DEF ReportKnows, Letters
  <1>5. x.op = "runReminder" => x.arg \in Letters'
    BY <1>1 DEF LetterCall, LettersStay, Letters
  <1> QED
    BY <1>1, <1>2, <1>3, <1>4, <1>5 DEF LetterCall

\* So a step keeps the invariant if its own call knows what it should, and what it writes is followed.
LEMMA LetterKeeps ==
  ASSUME LetterInv, NEW c \in Callers, NEW written, LettersStay(c, written), LetterTables',
         (\A n \in notices : n.meeting \in Meetings /\ outlook[n.meeting] # None /\ Told(n.meeting, n))',
         (\A w \in Meetings : AnswerOf(w))',
         Recording(call'[c]) => \A d \in Callers \ {c} : Recording(call[d]) => call[d].seen # call'[c].seen,
         LetterCall(call[c], crossed[c])', \A d \in Callers \ {c} : Sees(c, d, written), (Apart => JobsFollow)'
  PROVE LetterInv'
  <1>1. ASSUME NEW d \in Callers \ {c} PROVE LetterCall(call[d], crossed[d])'
    <2>1. PICK x, known, more : x = call[d] /\ known = crossed[d] /\ more = crossed'[d]
      OBVIOUS
    <2>2. LetterCall(x, known) /\ call'[d] = x
      BY <2>1 DEF LetterInv, Sees
    <2>3. CASE x.pc = "idle"
      BY <2>2, <2>3 DEF LetterCall
    <2>4. CASE x.pc # "idle"
      <3>1. more = known \cup written
        BY <2>1, <2>4 DEF Sees
      <3>2. Recording(x) /\ Recording(call[c]) => x.seen # call[c].seen
        BY <2>1 DEF LetterInv
      <3>3. LetterCall(x, more)'
        BY <2>2, <3>1, <3>2, OtherLetters DEF LetterInv
      <3> QED
        BY <2>1, <2>2, <3>3
    <2> QED
      BY <2>3, <2>4
  <1>2. (\A d, e \in Callers : Recording(call[d]) /\ Recording(call[e]) /\ call[d].seen = call[e].seen => d = e)'
    <2>1. SUFFICES ASSUME NEW d \in Callers, NEW e \in Callers, Recording(call'[d]), Recording(call'[e]),
                          call'[d].seen = call'[e].seen, d # e
                   PROVE FALSE
      BY DEF Recording
    <2>2. \A b \in Callers \ {c} : call'[b] = call[b]
      BY DEF Sees
    <2>3. CASE d # c /\ e # c
      BY <2>1, <2>2, <2>3 DEF LetterInv
    <2>4. CASE d = c
      BY <2>1, <2>2, <2>4
    <2>5. CASE e = c
      BY <2>1, <2>2, <2>5
    <2> QED
      BY <2>3, <2>4, <2>5
  <1> QED
    BY <1>1, <1>2 DEF LetterInv

\* The answers stay where they were.
LEMMA AnswersStay ==
  ASSUME LetterInv, NEW c \in Callers, UNCHANGED <<outlook, letter, notices, astray>>, ~At(c, "report", "write"),
         \A d \in Callers \ {c} : call'[d] = call[d]
  PROVE /\ (\A n \in notices : n.meeting \in Meetings /\ outlook[n.meeting] # None /\ Told(n.meeting, n))'
        /\ (\A w \in Meetings : AnswerOf(w))'
  <1>1. (\A n \in notices : n.meeting \in Meetings /\ outlook[n.meeting] # None /\ Told(n.meeting, n))'
    BY DEF LetterInv, Told
  <1>2. ASSUME NEW w \in Meetings PROVE AnswerOf(w)'
    <2>1. AnswerOf(w)
      BY DEF LetterInv
    <2>2. OnItsWay(w) => OnItsWay(w)'
      <3>1. ASSUME NEW d \in Callers, At(d, "report", "write"), call[d].arg = w, call[d].seen.nth = outlook[w].nth
            PROVE (At(d, "report", "write") /\ call[d].arg = w /\ call[d].seen.nth = outlook[w].nth)'
        BY <3>1 DEF At
      <3> QED
        BY <3>1 DEF OnItsWay
    <2>3. Kept(w)' <=> Kept(w)
      BY DEF Kept
    <2> QED
      BY <2>1, <2>2, <2>3 DEF AnswerOf
  <1> QED
    BY <1>1, <1>2


\* Calls that are apart after a step were apart before it; and one that writes is the only one.
LEMMA ApartBefore ==
  ASSUME NEW c \in Callers, NEW written, \A d \in Callers \ {c} : Sees(c, d, written), Apart', mixed => mixed',
         Meddles(call[c]) /\ <<"session", None>> \in crossed[c] =>
           mixed' \/ (Meddles(call'[c]) /\ <<"session", None>> \in crossed'[c])
  PROVE /\ Apart
        /\ <<"session", None>> \in written => \A d \in Callers \ {c} : ~Meddles(call[d])
  <1>1. ~mixed' /\ \A d \in Callers : Meddles(call'[d]) => <<"session", None>> \notin crossed'[d]
    BY DEF Apart, Meddles
  <1>2. ASSUME NEW d \in Callers, Meddles(call[d]) PROVE <<"session", None>> \notin crossed[d]
    <2>1. CASE d = c
      BY <1>1, <1>2, <2>1
    <2>2. CASE d # c
      <3>1. call'[d] = call[d] /\ crossed[d] \subseteq crossed'[d]
        BY <2>2 DEF Sees
      <3> QED
        BY <1>1, <1>2, <3>1
    <2> QED
      BY <2>1, <2>2
  <1>3. ASSUME NEW d \in Callers \ {c}, <<"session", None>> \in written, Meddles(call[d]) PROVE FALSE
    <2>1. call'[d] = call[d] /\ crossed'[d] = crossed[d] \cup written
      BY <1>3 DEF Sees, Meddles
    <2> QED
      BY <1>1, <1>3, <2>1
  <1> QED
    BY <1>1, <1>2, <1>3 DEF Apart

\* One that begins, or goes on, and has written nothing.
LEMMA JobsStay ==
  ASSUME JobsFollow, NEW c \in Callers, \A d \in Callers \ {c} : call'[d] = call[d],
         UNCHANGED <<session, clock, reminders, mails, hushed>>, ~Wrote(call[c]), ~Wrote(call'[c]), Updating' <=> Updating
  PROVE JobsFollow'
  <1>1. /\ ~(call[c].op = "reschedule" /\ call[c].pc \in {"queue", "remind"}) /\ ~(call[c].op = "cancel" /\ call[c].pc \in {"drop"})
        /\ ~(call[c].op = "createMeeting" /\ call[c].pc \in {"mail", "remind"})
        /\ ~(call'[c].op = "reschedule" /\ call'[c].pc \in {"queue", "remind"}) /\ ~(call'[c].op = "cancel" /\ call'[c].pc \in {"drop"})
        /\ ~(call'[c].op = "createMeeting" /\ call'[c].pc \in {"mail", "remind"})
    BY DEF Wrote
  <1>2. /\ Between("reschedule", {"queue"})' <=> Between("reschedule", {"queue"})
        /\ Between("reschedule", {"remind"})' <=> Between("reschedule", {"remind"})
        /\ Between("reschedule", {"queue", "remind"})' <=> Between("reschedule", {"queue", "remind"})
        /\ Between("createMeeting", {"mail"})' <=> Between("createMeeting", {"mail"})
        /\ Between("createMeeting", {"mail", "remind"})' <=> Between("createMeeting", {"mail", "remind"})
        /\ Between("cancel", {"drop"})' <=> Between("cancel", {"drop"})
    BY <1>1, BetweenOne
  <1>3. (\A d, e \in Callers : Wrote(call[d]) /\ Wrote(call[e]) => d = e)'
    <2>1. ASSUME NEW d \in Callers, NEW e \in Callers, Wrote(call'[d]), Wrote(call'[e]) PROVE d = e
      <3>1. d # c /\ e # c /\ call'[d] = call[d] /\ call'[e] = call[e]
        BY <2>1
      <3> QED
        BY <2>1, <3>1 DEF JobsFollow
    <2> QED
      BY <2>1 DEF Wrote
  <1>4. Reminded' <=> Reminded
    BY DEF Reminded
  <1> QED
    BY <1>2, <1>3, <1>4 DEF JobsFollow

\* A job is run, or time passes.
LEMMA JobsRun ==
  ASSUME JobsFollow, UNCHANGED <<call, session, updates, hushed>>, reminders' \subseteq reminders, mails' \subseteq mails,
         Reminded => Reminded'
  PROVE JobsFollow'
  <1>1. \A op, pcs : Between(op, pcs)' <=> Between(op, pcs)
    BY DEF Between
  <1>2. Updating' <=> Updating
    BY <1>1 DEF Updating
  <1>3. (\A d, e \in Callers : Wrote(call[d]) /\ Wrote(call[e]) => d = e)'
    BY DEF JobsFollow, Wrote
  <1> QED
    BY <1>1, <1>2, <1>3 DEF JobsFollow

\* A call has written the session while no other was under way, or goes on from there, or ends.
LEMMA OneWrote ==
  ASSUME NEW c \in Callers, \A d \in Callers \ {c} : call'[d] = call[d],
         \/ Wrote(call[c]) /\ \A d, e \in Callers : Wrote(call[d]) /\ Wrote(call[e]) => d = e
         \/ \A d \in Callers \ {c} : ~Meddles(call[d])
  PROVE /\ (\A d, e \in Callers : Wrote(call[d]) /\ Wrote(call[e]) => d = e)'
        /\ Between("reschedule", {"queue"})' <=> call'[c].op = "reschedule" /\ call'[c].pc \in {"queue"}
        /\ Between("reschedule", {"remind"})' <=> call'[c].op = "reschedule" /\ call'[c].pc \in {"remind"}
        /\ Between("reschedule", {"queue", "remind"})' <=> call'[c].op = "reschedule" /\ call'[c].pc \in {"queue", "remind"}
        /\ Between("createMeeting", {"mail"})' <=> call'[c].op = "createMeeting" /\ call'[c].pc \in {"mail"}
        /\ Between("createMeeting", {"mail", "remind"})' <=> call'[c].op = "createMeeting" /\ call'[c].pc \in {"mail", "remind"}
        /\ Between("cancel", {"drop"})' <=> call'[c].op = "cancel" /\ call'[c].pc \in {"drop"}
  <1>1. ASSUME NEW d \in Callers \ {c} PROVE ~Wrote(call[d]) /\ ~Wrote(call'[d])
    <2>1. call'[d] = call[d]
      OBVIOUS
    <2>2. ~Wrote(call[d])
      BY DEF Wrote, Meddles, Meddling
    <2> QED
      BY <2>1, <2>2
  <1>2. (\A d, e \in Callers : Wrote(call[d]) /\ Wrote(call[e]) => d = e)'
    <2>1. ASSUME NEW d \in Callers, NEW e \in Callers, Wrote(call'[d]), Wrote(call'[e]) PROVE d = e
      BY <1>1, <2>1
    <2> QED
      BY <2>1 DEF Wrote
  <1>3. ASSUME NEW d \in Callers \ {c}
        PROVE /\ call'[d].op = "reschedule" => call'[d].pc \notin {"queue", "remind"}
              /\ call'[d].op = "createMeeting" => call'[d].pc \notin {"mail", "remind"}
              /\ call'[d].op = "cancel" => call'[d].pc # "drop"
    BY <1>1 DEF Wrote
  <1> QED
    BY <1>2, <1>3 DEF Between


\* A step that changes no answer.
LEMMA LetterQuiet ==
  ASSUME LetterInv, NEW c \in Callers, NEW written, UNCHANGED <<outlook, letter, notices, astray>>, ~At(c, "report", "write"),
         <<"session", None>> \in written \/ session' = session, LetterTables',
         Recording(call'[c]) => \A d \in Callers \ {c} : Recording(call[d]) => call[d].seen # call'[c].seen,
         LetterCall(call[c], crossed[c])', \A d \in Callers \ {c} : Sees(c, d, written), (Apart => JobsFollow)'
  PROVE LetterInv'
  <1>1. LettersStay(c, written)
    BY DEF LettersStay, Told
  <1>2. \A d \in Callers \ {c} : call'[d] = call[d]
    BY DEF Sees
  <1>3. /\ (\A n \in notices : n.meeting \in Meetings /\ outlook[n.meeting] # None /\ Told(n.meeting, n))'
        /\ (\A w \in Meetings : AnswerOf(w))'
    BY <1>2, AnswersStay
  <1> QED
    BY <1>1, <1>3, LetterKeeps

\* A call begins.
LEMMA LetterBegins ==
  ASSUME CallsSound, LetterInv, NEW c \in Callers, NEW op, NEW pc, NEW arg, NEW seen, Begin(c, op, pc, arg, seen),
         UNCHANGED <<clock, session, outlook, letter, reminders, mails, notices, hushed, mixed, astray>>,
         LetterCall([op |-> op, pc |-> pc, arg |-> arg, seen |-> seen, result |-> None], {}), pc # "record",
         op \in {"reschedule", "cancel"} => pc = "write", op = "createMeeting" => pc = "graph",
         \/ op # "updateMeeting" /\ updates' = updates
         \/ op = "updateMeeting" /\ pc \in {"graph", "moved"} /\ updates > 0 /\ updates' = updates - 1
  PROVE LetterInv'
  <1>1. /\ call[c].pc = "idle"
        /\ call'[c] = [op |-> op, pc |-> pc, arg |-> arg, seen |-> seen, result |-> None]
        /\ crossed'[c] = {}
        /\ \A d \in Callers \ {c} : call'[d] = call[d] /\ crossed'[d] = crossed[d]
    BY BeginDoes DEF CallsSound
  <1>2. \A d \in Callers \ {c} : Sees(c, d, {})
    BY <1>1 DEF Sees
  <1>3. PICK y : y = [op |-> op, pc |-> pc, arg |-> arg, seen |-> seen, result |-> None] /\ LetterCall(y, {})
    OBVIOUS
  <1>4. y.op = op /\ y.pc = pc /\ y = call'[c]
    BY <1>1, <1>3
  <1>5. LetterCall(y, {})'
    BY <1>3 DEF LetterCall, LetterKnows, MeetingKnows, MoveKnows, ReportKnows, Told, Letters
  <1>6. LetterCall(call[c], crossed[c])'
    BY <1>1, <1>4, <1>5
  <1>7. LetterTables'
    <2>1. updates' \in Nat
      BY DEF LetterInv, LetterTables
    <2> QED
      BY <2>1 DEF LetterInv, LetterTables, Letters
  <1>8. ~At(c, "report", "write") /\ ~Recording(call'[c]) /\ ~Wrote(call[c]) /\ ~Wrote(call'[c]) /\ ~Meddles(call[c])
    BY <1>1, <1>4 DEF At, Recording, Wrote, Meddles
  <1>9. Updating' <=> Updating
    <2>1. /\ Between("updateMeeting", {"graph", "record", "moved"})' =>
               Between("updateMeeting", {"graph", "record", "moved"}) \/ op = "updateMeeting"
          /\ Between("updateMeeting", {"graph", "record", "moved"}) => Between("updateMeeting", {"graph", "record", "moved"})'
          /\ op = "updateMeeting" /\ pc \in {"graph", "moved"} => Between("updateMeeting", {"graph", "record", "moved"})'
      BY <1>1, <1>4, BetweenOne
    <2> QED
      BY <2>1 DEF Updating
  <1>10. (Apart => JobsFollow)'
    <2>1. SUFFICES ASSUME Apart' PROVE JobsFollow'
      OBVIOUS
    <2>2. Apart
      BY <1>2, <1>8, <2>1, ApartBefore
    <2>3. JobsFollow
      BY <2>2 DEF LetterInv
    <2> QED
      BY <1>1, <1>8, <1>9, <2>3, JobsStay
  <1> QED
    BY <1>2, <1>6, <1>7, <1>8, <1>10, LetterQuiet

\* A step of the clock, or a job that is run.
LEMMA LetterRuns ==
  ASSUME CallsSound, LetterInv, NEW c \in Callers, NEW op, Atomically(c, op, {}),
         UNCHANGED <<session, outlook, letter, updates, notices, hushed, mixed, astray>>,
         reminders' \subseteq reminders, mails' \subseteq mails, clock' \in 0 .. Horizon, Reminded => Reminded'
  PROVE LetterInv'
  <1>1. call' = call /\ crossed'[c] = crossed[c] /\ \A d \in Callers \ {c} : Sees(c, d, {})
    BY AtomicallyDoes DEF CallsSound
  <1>2. LettersStay(c, {})
    BY DEF LettersStay, Told
  <1>3. PICK y, w : y = call[c] /\ w = crossed[c] /\ LetterCall(y, w)
    BY DEF LetterInv
  <1>4. LetterCall(y, w)'
    BY <1>3 DEF LetterCall, LetterKnows, MeetingKnows, MoveKnows, ReportKnows, Told, Letters
  <1>5. LetterCall(call[c], crossed[c])'
    BY <1>1, <1>3, <1>4
  <1>6. LetterTables'
    BY DEF LetterInv, LetterTables, Letters
  <1>7. /\ (\A n \in notices : n.meeting \in Meetings /\ outlook[n.meeting] # None /\ Told(n.meeting, n))'
        /\ (\A v \in Meetings : AnswerOf(v))'
    BY <1>1 DEF LetterInv, AnswerOf, Kept, OnItsWay, At, Told
  <1>8. (Apart => JobsFollow)'
    <2>1. SUFFICES ASSUME Apart' PROVE JobsFollow'
      OBVIOUS
    <2>2. Apart
      BY <1>1, <2>1, ApartBefore
    <2>3. JobsFollow
      BY <2>2 DEF LetterInv
    <2> QED
      BY <1>1, <2>3, JobsRun
  <1>9. Recording(call'[c]) => \A d \in Callers \ {c} : Recording(call[d]) => call[d].seen # call'[c].seen
    BY <1>1 DEF LetterInv
  <1> QED
    BY <1>1, <1>2, <1>5, <1>6, <1>7, <1>8, <1>9, LetterKeeps


\* A call about the session goes on.
LEMMA LetterWrites ==
  ASSUME CallsSound, LetterInv, NEW c \in Callers, NEW written, Meddles(call[c]), Untouched(c),
         UNCHANGED <<outlook, letter, notices, astray>>, <<"session", None>> \in written \/ session' = session, LetterTables',
         crossed'[c] = crossed[c], LetterCall(call[c], crossed[c])', ~Recording(call'[c]),
         \A d \in Callers \ {c} : Sees(c, d, written),
         /\ JobsFollow /\ <<"session", None>> \notin crossed[c]
         /\ <<"session", None>> \in written => \A d \in Callers \ {c} : ~Meddles(call[d])
         => JobsFollow'
  PROVE LetterInv'
  <1>1. mixed \in BOOLEAN /\ (mixed => mixed') /\ (<<"session", None>> \in crossed[c] => mixed')
    BY DEF LetterInv, LetterTables, Untouched, Stale
  <1>2. (Apart => JobsFollow)'
    <2>1. SUFFICES ASSUME Apart' PROVE JobsFollow'
      OBVIOUS
    <2>2. Apart /\ (<<"session", None>> \in written => \A d \in Callers \ {c} : ~Meddles(call[d]))
      BY <1>1, <2>1, ApartBefore
    <2>3. <<"session", None>> \notin crossed[c]
      BY <2>2 DEF Apart
    <2> QED
      BY <2>2, <2>3 DEF LetterInv
  <1>3. ~At(c, "report", "write")
    BY DEF Meddles, Meddling, At
  <1> QED
    BY <1>2, <1>3, LetterQuiet

\* Whether the meeting is to be updated.
LEMMA UpdatingStays ==
  ASSUME NEW c \in Callers, \A d \in Callers \ {c} : call'[d] = call[d], updates' = updates,
         call[c].op # "updateMeeting", call'[c].op # "updateMeeting" \/ call'[c].pc = "idle"
  PROVE Updating' <=> Updating
  <1>1. Between("updateMeeting", {"graph", "record", "moved"})' <=> Between("updateMeeting", {"graph", "record", "moved"})
    BY BetweenOne
  <1> QED
    BY <1>1 DEF Updating

\* The link mail is queued.
LEMMA QueueMailKeeps ==
  ASSUME CallsSound, LetterInv, NEW c \in Callers, QueueMail(c)
  PROVE LetterInv'
  <1>1. /\ call[c].op = "createMeeting" /\ call[c].pc = "mail" /\ Goto(c, "remind", None, {}) /\ Untouched(c)
        /\ mails' \in Queued(mails, call[c].arg - MailLead) /\ hushed' = FALSE
        /\ UNCHANGED <<clock, session, outlook, letter, reminders, updates, notices, astray>>
    BY DEF QueueMail, At
  <1>2. /\ call'[c] = [op |-> call[c].op, pc |-> "remind", arg |-> call[c].arg, seen |-> None, result |-> call[c].result]
        /\ crossed'[c] = crossed[c] /\ \A d \in Callers \ {c} : Sees(c, d, {})
    BY <1>1, GotoDoes DEF CallsSound
  <1>3. call'[c].op = "createMeeting" /\ call'[c].pc = "remind" /\ call'[c].arg = call[c].arg
    BY <1>1, <1>2
  <1>4. PICK x, y, w : x = call[c] /\ y = call'[c] /\ w = crossed[c] /\ LetterCall(x, w)
    BY DEF LetterInv
  <1>5. LetterCall(y, w)'
    BY <1>1, <1>3, <1>4 DEF LetterCall, LetterKnows, MeetingKnows, Recording, Meddling
  <1>9. LetterCall(call[c], crossed[c])'
    BY <1>2, <1>4, <1>5
  <1>6. LetterTables'
    BY <1>1 DEF LetterInv, LetterTables, Letters, Untouched, Stale
  <1>7. Meddles(call[c]) /\ ~Recording(call'[c]) /\ Wrote(call[c])
    BY <1>1, <1>3 DEF Meddles, Meddling, Recording, Wrote
  <1>8. ASSUME JobsFollow, <<"session", None>> \notin crossed[c] PROVE JobsFollow'
    <2>1. \A d \in Callers \ {c} : call'[d] = call[d]
      BY <1>2 DEF Sees
    <2>2. \A d, e \in Callers : Wrote(call[d]) /\ Wrote(call[e]) => d = e
      BY <1>8 DEF JobsFollow
    <2>3. /\ (\A d, e \in Callers : Wrote(call[d]) /\ Wrote(call[e]) => d = e)'
          /\ ~Between("reschedule", {"queue"})' /\ ~Between("reschedule", {"remind"})'
          /\ Between("createMeeting", {"mail", "remind"})' /\ ~Between("createMeeting", {"mail"})'
          /\ ~Between("cancel", {"drop"})'
      BY <1>3, <1>7, <2>1, <2>2, OneWrote
    <2>4. Between("createMeeting", {"mail"})
      BY <1>1, <2>1, BetweenOne
    <2>5. LetterKnows(call[c])
      BY <1>1, <1>4, <1>8 DEF LetterCall, Meddling
    <2>6. call[c].arg = session.start /\ session.status = "INVITED" /\ session.event # None
      BY <1>1, <2>5, IdsAssumption DEF LetterKnows, MeetingKnows, LetterInv, LetterTables, Letters
    <2>7. mails = {}
      BY <1>8, <2>4 DEF JobsFollow
    <2>8. mails' = {session.start - MailLead}
      BY <1>1, <2>6, <2>7 DEF Queued
    <2>9. ~Between("reschedule", {"queue"})
      <3>1. \A d \in Callers : Wrote(call[d]) => d = c
        BY <1>7, <2>2
      <3> QED
        BY <1>1, <3>1 DEF Between, Wrote
    <2>10. reminders \subseteq {session.start - ReminderLead}
      BY <1>8, <2>6, <2>9 DEF JobsFollow
    <2> QED
      BY <1>1, <2>3, <2>6, <2>8, <2>10 DEF JobsFollow
  <1> QED
    BY <1>1, <1>2, <1>6, <1>7, <1>8, <1>9, LetterWrites

\* The reminder is queued.
LEMMA QueueReminderKeeps ==
  ASSUME CallsSound, LetterInv, NEW c \in Callers, QueueReminder(c)
  PROVE LetterInv'
  <1>1. PICK due : due = (IF call[c].op = "createMeeting" THEN call[c].arg ELSE call[c].arg.start) - ReminderLead
    OBVIOUS
  <1>2. /\ call[c].op \in {"createMeeting", "reschedule"} /\ call[c].pc = "remind" /\ End(c, None, {}) /\ Untouched(c)
        /\ IF due > clock THEN reminders' \in Queued(reminders, due) ELSE UNCHANGED reminders
        /\ UNCHANGED <<clock, session, outlook, letter, mails, updates, notices, hushed, astray>>
    BY <1>1 DEF QueueReminder
  <1>3. call'[c].pc = "idle" /\ crossed'[c] = crossed[c] /\ \A d \in Callers \ {c} : Sees(c, d, {})
    BY <1>2, EndDoes DEF CallsSound
  <1>4. LetterCall(call[c], crossed[c])' /\ ~Recording(call'[c])
    BY <1>3 DEF LetterCall, Recording
  <1>5. LetterTables'
    BY <1>2 DEF LetterInv, LetterTables, Letters, Untouched, Stale
  <1>6. Meddles(call[c]) /\ Wrote(call[c])
    BY <1>2 DEF Meddles, Meddling, Wrote
  <1>7. ASSUME JobsFollow, <<"session", None>> \notin crossed[c] PROVE JobsFollow'
    <2>1. \A d \in Callers \ {c} : call'[d] = call[d]
      BY <1>3 DEF Sees
    <2>2. \A d, e \in Callers : Wrote(call[d]) /\ Wrote(call[e]) => d = e
      BY <1>7 DEF JobsFollow
    <2>3. /\ (\A d, e \in Callers : Wrote(call[d]) /\ Wrote(call[e]) => d = e)'
          /\ ~Between("reschedule", {"queue"})' /\ ~Between("reschedule", {"remind"})'
          /\ ~Between("createMeeting", {"mail", "remind"})' /\ ~Between("createMeeting", {"mail"})'
          /\ ~Between("cancel", {"drop"})'
      BY <1>3, <1>6, <2>1, <2>2, OneWrote
    <2>4. LetterKnows(call[c])
      <3>1. LetterCall(call[c], crossed[c])
        BY DEF LetterInv
      <3> QED
        BY <1>2, <1>7, <3>1 DEF LetterCall, Meddling
    <2>5. due = session.start - ReminderLead /\ session.status # "CANCELLED"
      BY <1>1, <1>2, <2>4 DEF LetterKnows, MeetingKnows, MoveKnows
    <2>6. \A d \in Callers : Wrote(call[d]) => d = c
      BY <1>6, <2>2
    <2>7. ~Between("reschedule", {"queue"}) /\ ~Between("cancel", {"drop"})
      BY <1>2, <2>6 DEF Between, Wrote
    <2>8. reminders \subseteq {due}
      BY <1>7, <2>5, <2>7 DEF JobsFollow
    <2>9. reminders' \subseteq {due} /\ Reminded'
      BY <1>2, <2>5, <2>8 DEF Queued, Reminded
    <2>10. Updating' <=> Updating
      BY <1>2, <1>3, <2>1, UpdatingStays
    <2>11. session.event = None => mails = {}
      BY <1>7 DEF JobsFollow
    <2>12. ~Updating /\ ~hushed => mails \subseteq {session.start - MailLead}
      BY <1>7, <2>7 DEF JobsFollow
    <2> QED
      BY <1>2, <2>3, <2>5, <2>9, <2>10, <2>11, <2>12 DEF JobsFollow
  <1> QED
    BY <1>2, <1>3, <1>4, <1>5, <1>6, <1>7, LetterWrites


\* The mail that the session moved.
LEMMA TellMovedKeeps ==
  ASSUME CallsSound, LetterInv, NEW c \in Callers, TellMoved(c)
  PROVE LetterInv'
  <1>1. /\ call[c].op = "updateMeeting" /\ call[c].pc = "moved" /\ End(c, None, {}) /\ Untouched(c) /\ mails' = {}
        /\ UNCHANGED <<clock, session, outlook, letter, reminders, updates, notices, hushed, astray>>
    BY DEF TellMoved, At, Removed
  <1>2. call'[c].pc = "idle" /\ crossed'[c] = crossed[c] /\ \A d \in Callers \ {c} : Sees(c, d, {})
    BY <1>1, EndDoes DEF CallsSound
  <1>3. LetterCall(call[c], crossed[c])' /\ ~Recording(call'[c])
    BY <1>2 DEF LetterCall, Recording
  <1>4. LetterTables'
    BY <1>1 DEF LetterInv, LetterTables, Letters, Untouched, Stale
  <1>5. Meddles(call[c])
    BY <1>1 DEF Meddles, Meddling
  <1>6. ASSUME JobsFollow PROVE JobsFollow'
    <2>1. \A d \in Callers \ {c} : call'[d] = call[d]
      BY <1>2 DEF Sees
    <2>2. (\A d, e \in Callers : Wrote(call[d]) /\ Wrote(call[e]) => d = e)'
      <3>1. ASSUME NEW d \in Callers, NEW e \in Callers, Wrote(call'[d]), Wrote(call'[e]) PROVE d = e
        <4>1. d # c /\ e # c
          BY <1>2, <3>1 DEF Wrote
        <4> QED
          BY <1>6, <2>1, <3>1, <4>1 DEF JobsFollow
      <3> QED
        BY <3>1 DEF Wrote
    <2>3. /\ Between("reschedule", {"queue"})' <=> Between("reschedule", {"queue"})
          /\ Between("reschedule", {"remind"})' <=> Between("reschedule", {"remind"})
          /\ Between("reschedule", {"queue", "remind"})' <=> Between("reschedule", {"queue", "remind"})
          /\ Between("createMeeting", {"mail", "remind"})' <=> Between("createMeeting", {"mail", "remind"})
          /\ Between("cancel", {"drop"})' <=> Between("cancel", {"drop"})
          /\ Between("updateMeeting", {"graph", "record", "moved"})' => Between("updateMeeting", {"graph", "record", "moved"})
      BY <1>1, <1>2, <2>1, BetweenOne
    <2>4. Updating' => Updating
      BY <1>1, <2>3 DEF Updating
    <2>5. Reminded' <=> Reminded
      BY <1>1 DEF Reminded
    <2> QED
      BY <1>1, <1>6, <2>2, <2>3, <2>4, <2>5 DEF JobsFollow
  <1> QED
    BY <1>1, <1>2, <1>3, <1>4, <1>5, <1>6, LetterWrites

\* The worker goes down.
LEMMA CrashCreateKeeps ==
  ASSUME CallsSound, LetterInv, NEW c \in Callers, CrashCreate(c)
  PROVE LetterInv'
  <1>1. /\ call[c].op = "createMeeting" /\ mixed' = TRUE
        /\ call' = [d \in Callers |-> IF d = c THEN Idle ELSE call[d]]
        /\ UNCHANGED <<crossed, clock, session, outlook, letter, reminders, mails, updates, notices, hushed, astray>>
    BY DEF CrashCreate, CallsSound, CallsOK
  <1>2. call'[c].pc = "idle" /\ \A d \in Callers \ {c} : Sees(c, d, {})
    BY <1>1 DEF Sees, Idle
  <1>3. LetterCall(call[c], crossed[c])' /\ ~Recording(call'[c]) /\ ~At(c, "report", "write")
    BY <1>1, <1>2 DEF LetterCall, Recording, At
  <1>4. LetterTables'
    BY <1>1 DEF LetterInv, LetterTables, Letters
  <1>5. (Apart => JobsFollow)'
    BY <1>1 DEF Apart
  <1> QED
    BY <1>1, <1>2, <1>3, <1>4, <1>5, LetterQuiet

\* The session is moved.
LEMMA MoveRowKeeps ==
  ASSUME CallsSound, LetterInv, NEW c \in Callers, MoveRow(c)
  PROVE LetterInv'
  <1>1. PICK w : w = {<<"session", None>>}
    OBVIOUS
  <1>2. /\ call[c].op = "reschedule" /\ call[c].pc = "write" /\ Goto(c, "queue", None, w) /\ Untouched(c)
        /\ session' = [session EXCEPT !.start = call[c].arg.start]
        /\ UNCHANGED <<clock, outlook, letter, reminders, mails, updates, notices, hushed, astray>>
    BY <1>1 DEF MoveRow, At
  <1>3. /\ call'[c] = [op |-> call[c].op, pc |-> "queue", arg |-> call[c].arg, seen |-> None, result |-> call[c].result]
        /\ crossed'[c] = crossed[c] /\ \A d \in Callers \ {c} : Sees(c, d, w)
    BY <1>2, GotoDoes DEF CallsSound
  <1>4. call'[c].op = "reschedule" /\ call'[c].pc = "queue" /\ call'[c].arg = call[c].arg
    BY <1>2, <1>3
  <1>5. PICK x, y, k : x = call[c] /\ y = call'[c] /\ k = crossed[c] /\ LetterCall(x, k)
    BY DEF LetterInv
  <1>6. x.arg.start \in 1 .. Horizon /\ x.arg.silent \in BOOLEAN /\ session \in SessionRow
    BY <1>2, <1>5 DEF LetterCall, LetterInv, LetterTables
  <1>7. session' \in SessionRow /\ session'.start = x.arg.start /\ session'.status = session.status /\ session'.event = session.event
    <2>1. PICK s, at : s = session /\ at = x.arg.start /\ s \in SessionRow /\ at \in 1 .. Horizon
      BY <1>6
    <2>2. PICK new : new = [s EXCEPT !.start = at]
      OBVIOUS
    <2>3. new \in SessionRow /\ new.start = at /\ new.status = s.status /\ new.event = s.event
      BY <2>1, <2>2 DEF SessionRow
    <2>4. session' = new
      BY <1>2, <1>5, <2>1, <2>2
    <2> QED
      BY <2>1, <2>3, <2>4
  <1>8. LetterCall(y, k)'
    BY <1>2, <1>4, <1>5, <1>6, <1>7 DEF LetterCall, LetterKnows, MoveKnows, Recording, Meddling
  <1>9. LetterCall(call[c], crossed[c])' /\ ~Recording(call'[c])
    BY <1>3, <1>4, <1>5, <1>8 DEF Recording
  <1>10. LetterTables'
    <2>1. UNCHANGED <<clock, outlook, letter, updates, hushed, astray>> /\ mixed' \in BOOLEAN
      BY <1>2 DEF LetterInv, LetterTables, Untouched, Stale
    <2> QED
      BY <1>7, <2>1 DEF LetterInv, LetterTables, Letters
  <1>11. Meddles(call[c])
    BY <1>2 DEF Meddles, Meddling
  <1>12. ASSUME JobsFollow, <<"session", None>> \notin crossed[c], \A d \in Callers \ {c} : ~Meddles(call[d])
         PROVE JobsFollow'
    <2>1. \A d \in Callers \ {c} : call'[d] = call[d]
      BY <1>3 DEF Sees
    <2>2. /\ (\A d, e \in Callers : Wrote(call[d]) /\ Wrote(call[e]) => d = e)'
          /\ Between("reschedule", {"queue"})' /\ ~Between("reschedule", {"remind"})'
          /\ Between("reschedule", {"queue", "remind"})'
          /\ ~Between("createMeeting", {"mail", "remind"})' /\ ~Between("createMeeting", {"mail"})'
          /\ ~Between("cancel", {"drop"})'
      BY <1>4, <1>12, <2>1, OneWrote
    <2>3. session.status # "CANCELLED"
      BY <1>2, <1>5, <1>12 DEF LetterCall, LetterKnows, MoveKnows, Meddling
    <2>4. session.event = None => mails = {}
      BY <1>12 DEF JobsFollow
    <2>5. UNCHANGED <<reminders, mails, hushed>>
      BY <1>2
    <2> QED
      BY <1>7, <2>2, <2>3, <2>4, <2>5 DEF JobsFollow
  <1> QED
    BY <1>1, <1>2, <1>3, <1>9, <1>10, <1>11, <1>12, LetterWrites

\* The move's jobs.
LEMMA QueueMoveKeeps ==
  ASSUME CallsSound, LetterInv, NEW c \in Callers, QueueMove(c)
  PROVE LetterInv'
  <1>1. /\ call[c].op = "reschedule" /\ call[c].pc = "queue" /\ Goto(c, "remind", None, {}) /\ Untouched(c)
        /\ updates' = (IF call[c].arg.silent THEN updates ELSE updates + 1)
        /\ hushed' = (hushed \/ call[c].arg.silent) /\ reminders' = {}
        /\ UNCHANGED <<clock, session, outlook, letter, mails, notices, astray>>
    BY DEF QueueMove, At, Removed
  <1>2. /\ call'[c] = [op |-> call[c].op, pc |-> "remind", arg |-> call[c].arg, seen |-> None, result |-> call[c].result]
        /\ crossed'[c] = crossed[c] /\ \A d \in Callers \ {c} : Sees(c, d, {})
    BY <1>1, GotoDoes DEF CallsSound
  <1>3. call'[c].op = "reschedule" /\ call'[c].pc = "remind" /\ call'[c].arg = call[c].arg
    BY <1>1, <1>2
  <1>4. PICK x, y, k : x = call[c] /\ y = call'[c] /\ k = crossed[c] /\ LetterCall(x, k)
    BY DEF LetterInv
  <1>5. LetterCall(y, k)'
    BY <1>1, <1>3, <1>4 DEF LetterCall, LetterKnows, MoveKnows, Recording, Meddling
  <1>6. LetterCall(call[c], crossed[c])' /\ ~Recording(call'[c])
    BY <1>2, <1>3, <1>4, <1>5 DEF Recording
  <1>7. updates \in Nat /\ x.arg.silent \in BOOLEAN /\ hushed \in BOOLEAN
    BY <1>1, <1>4 DEF LetterInv, LetterTables, LetterCall
  <1>8. LetterTables'
    <2>1. updates' \in Nat /\ hushed' \in BOOLEAN
      BY <1>1, <1>4, <1>7
    <2> QED
      BY <1>1, <2>1 DEF LetterInv, LetterTables, Letters, Untouched, Stale
  <1>9. Meddles(call[c]) /\ Wrote(call[c])
    BY <1>1 DEF Meddles, Meddling, Wrote
  <1>10. ASSUME JobsFollow, <<"session", None>> \notin crossed[c] PROVE JobsFollow'
    <2>1. \A d \in Callers \ {c} : call'[d] = call[d]
      BY <1>2 DEF Sees
    <2>2. \A d, e \in Callers : Wrote(call[d]) /\ Wrote(call[e]) => d = e
      BY <1>10 DEF JobsFollow
    <2>3. /\ (\A d, e \in Callers : Wrote(call[d]) /\ Wrote(call[e]) => d = e)'
          /\ ~Between("reschedule", {"queue"})' /\ Between("reschedule", {"queue", "remind"})'
          /\ ~Between("createMeeting", {"mail", "remind"})' /\ ~Between("createMeeting", {"mail"})'
          /\ ~Between("cancel", {"drop"})'
      BY <1>3, <1>9, <2>1, <2>2, OneWrote
    <2>4. session.status # "CANCELLED"
      BY <1>1, <1>4, <1>10 DEF LetterCall, LetterKnows, MoveKnows, Meddling
    <2>5. session.event = None => mails = {}
      BY <1>10 DEF JobsFollow
    <2>6. Updating' \/ hushed'
      BY <1>1, <1>4, <1>7 DEF Updating
    <2> QED
      BY <1>1, <2>3, <2>4, <2>5, <2>6 DEF JobsFollow
  <1> QED
    BY <1>1, <1>2, <1>6, <1>8, <1>9, <1>10, LetterWrites

\* The session is cancelled.
LEMMA CancelRowKeeps ==
  ASSUME CallsSound, LetterInv, NEW c \in Callers, CancelRow(c)
  PROVE LetterInv'
  <1>1. PICK w : w = {<<"session", None>>}
    OBVIOUS
  <1>2. /\ call[c].op = "cancel" /\ call[c].pc = "write" /\ Goto(c, "drop", None, w) /\ Untouched(c)
        /\ session' = [session EXCEPT !.status = "CANCELLED"]
        /\ UNCHANGED <<clock, outlook, letter, reminders, mails, updates, notices, hushed, astray>>
    BY <1>1 DEF CancelRow, At
  <1>3. /\ call'[c] = [op |-> call[c].op, pc |-> "drop", arg |-> call[c].arg, seen |-> None, result |-> call[c].result]
        /\ crossed'[c] = crossed[c] /\ \A d \in Callers \ {c} : Sees(c, d, w)
    BY <1>2, GotoDoes DEF CallsSound
  <1>4. call'[c].op = "cancel" /\ call'[c].pc = "drop"
    BY <1>2, <1>3
  <1>5. PICK y : y = call'[c]
    OBVIOUS
  <1>7. session' \in SessionRow /\ session'.start = session.start /\ session'.status = "CANCELLED" /\ session'.event = session.event
    <2>1. PICK s : s = session /\ s \in SessionRow
      BY DEF LetterInv, LetterTables
    <2>2. PICK new : new = [s EXCEPT !.status = "CANCELLED"]
      OBVIOUS
    <2>3. new \in SessionRow /\ new.start = s.start /\ new.status = "CANCELLED" /\ new.event = s.event
      BY <2>1, <2>2 DEF SessionRow
    <2>4. session' = new
      BY <1>2, <2>1, <2>2
    <2> QED
      BY <2>1, <2>3, <2>4
  <1>8. \A k : LetterCall(y, k)'
    BY <1>4, <1>5, <1>7 DEF LetterCall, LetterKnows, Recording, Meddling
  <1>9. LetterCall(call[c], crossed[c])' /\ ~Recording(call'[c])
    BY <1>4, <1>5, <1>8 DEF Recording
  <1>10. LetterTables'
    <2>1. UNCHANGED <<clock, outlook, letter, updates, hushed, astray>> /\ mixed' \in BOOLEAN
      BY <1>2 DEF LetterInv, LetterTables, Untouched, Stale
    <2> QED
      BY <1>7, <2>1 DEF LetterInv, LetterTables, Letters
  <1>11. Meddles(call[c])
    BY <1>2 DEF Meddles, Meddling
  <1>12. ASSUME JobsFollow, \A d \in Callers \ {c} : ~Meddles(call[d])
         PROVE JobsFollow'
    <2>1. \A d \in Callers \ {c} : call'[d] = call[d]
      BY <1>3 DEF Sees
    <2>2. /\ (\A d, e \in Callers : Wrote(call[d]) /\ Wrote(call[e]) => d = e)'
          /\ ~Between("reschedule", {"remind"})'
          /\ ~Between("createMeeting", {"mail"})'
          /\ Between("cancel", {"drop"})'
      BY <1>4, <1>12, <2>1, OneWrote
    <2>4. session.event = None => mails = {}
      BY <1>12 DEF JobsFollow
    <2>5. UNCHANGED <<reminders, mails, hushed>>
      BY <1>2
    <2> QED
      BY <1>7, <2>2, <2>4, <2>5 DEF JobsFollow
  <1> QED
    BY <1>1, <1>2, <1>3, <1>9, <1>10, <1>11, <1>12, LetterWrites

\* Its jobs are withdrawn.
LEMMA DropJobsKeeps ==
  ASSUME CallsSound, LetterInv, NEW c \in Callers, DropJobs(c)
  PROVE LetterInv'
  <1>1. /\ call[c].op = "cancel" /\ call[c].pc = "drop" /\ End(c, None, {}) /\ Untouched(c) /\ mails' = {} /\ reminders' = {}
        /\ UNCHANGED <<clock, session, outlook, letter, updates, notices, hushed, astray>>
    BY DEF DropJobs, At, Removed
  <1>2. call'[c].pc = "idle" /\ crossed'[c] = crossed[c] /\ \A d \in Callers \ {c} : Sees(c, d, {})
    BY <1>1, EndDoes DEF CallsSound
  <1>3. LetterCall(call[c], crossed[c])' /\ ~Recording(call'[c])
    BY <1>2 DEF LetterCall, Recording
  <1>4. LetterTables'
    BY <1>1 DEF LetterInv, LetterTables, Letters, Untouched, Stale
  <1>5. Meddles(call[c]) /\ Wrote(call[c])
    BY <1>1 DEF Meddles, Meddling, Wrote
  <1>6. ASSUME JobsFollow, <<"session", None>> \notin crossed[c] PROVE JobsFollow'
    <2>1. \A d \in Callers \ {c} : call'[d] = call[d]
      BY <1>2 DEF Sees
    <2>2. \A d, e \in Callers : Wrote(call[d]) /\ Wrote(call[e]) => d = e
      BY <1>6 DEF JobsFollow
    <2>3. (\A d, e \in Callers : Wrote(call[d]) /\ Wrote(call[e]) => d = e)'
      BY <1>2, <1>5, <2>1, <2>2, OneWrote
    <2>4. session.status = "CANCELLED"
      <3>1. LetterCall(call[c], crossed[c])
        BY DEF LetterInv
      <3> QED
        BY <1>1, <1>6, <3>1 DEF LetterCall, LetterKnows, Meddling
    <2> QED
      BY <1>1, <2>3, <2>4 DEF JobsFollow
  <1> QED
    BY <1>1, <1>2, <1>3, <1>4, <1>5, <1>6, LetterWrites


\* A step of an answer leaves the jobs alone.
LEMMA JobsApart ==
  ASSUME LetterInv, NEW c \in Callers, \A d \in Callers \ {c} : Sees(c, d, {}), ~Meddles(call[c]), ~Meddles(call'[c]),
         UNCHANGED <<clock, session, reminders, mails, updates, hushed, mixed>>
  PROVE (Apart => JobsFollow)'
  <1>1. SUFFICES ASSUME Apart' PROVE JobsFollow'
    OBVIOUS
  <1>2. JobsFollow
    <2>1. Apart
      BY <1>1, ApartBefore
    <2> QED
      BY <2>1 DEF LetterInv
  <1>3. \A d \in Callers \ {c} : call'[d] = call[d]
    BY DEF Sees
  <1>4. ~Wrote(call[c]) /\ ~Wrote(call'[c])
    BY DEF Wrote, Meddles, Meddling
  <1>5. Between("updateMeeting", {"graph", "record", "moved"})' <=> Between("updateMeeting", {"graph", "record", "moved"})
    BY <1>3, BetweenOne DEF Meddles, Meddling
  <1>6. Updating' <=> Updating
    BY <1>5 DEF Updating
  <1> QED
    BY <1>2, <1>3, <1>4, <1>6, JobsStay

\* Microsoft creates the meeting.
LEMMA GraphCreatesKeeps ==
  ASSUME CallsSound, LetterInv, NEW c \in Callers, GraphCreates(c)
  PROVE LetterInv'
  <1>1. PICK w : w = FreshMeeting /\ w \in Meetings /\ outlook[w] = None
    BY DEF GraphCreates, MeetingRoom, FreshMeeting
  <1>2. PICK row : row = [answer |-> "PENDING", nth |-> 0, gone |-> FALSE]
    OBVIOUS
  <1>3. row \in OutlookRow /\ row # None /\ row.answer = "PENDING" /\ row.nth = 0
    <2>1. row \in OutlookRow /\ row.answer = "PENDING" /\ row.nth = 0
      BY <1>2 DEF OutlookRow, Answers
    <2> QED
      BY <2>1, IdsAssumption
  <1>4. LetterTables
    BY DEF LetterInv
  <1>5. /\ call[c].op \in {"createMeeting", "updateMeeting"} /\ call[c].pc = "graph" /\ Goto(c, "record", w, {})
        /\ outlook' = [v \in Meetings |-> IF v = w THEN row ELSE outlook[v]]
        /\ UNCHANGED <<clock, session, letter, reminders, mails, updates, notices, hushed, mixed, astray>>
    BY <1>1, <1>2, <1>4 DEF GraphCreates, LetterTables
  <1>6. /\ call'[c] = [op |-> call[c].op, pc |-> "record", arg |-> call[c].arg, seen |-> w, result |-> call[c].result]
        /\ crossed'[c] = crossed[c] /\ \A d \in Callers \ {c} : Sees(c, d, {})
    BY <1>5, GotoDoes DEF CallsSound
  <1>7. PICK x, y, k : x = call[c] /\ y = call'[c] /\ k = crossed[c] /\ LetterCall(x, k)
    BY DEF LetterInv
  <1>8. y.op = x.op /\ y.pc = "record" /\ y.arg = x.arg /\ y.seen = w
    BY <1>6, <1>7
  <1>9. letter[w] = None
    BY <1>1, <1>4 DEF LetterTables
  <1>10. LetterCall(y, k)'
    BY <1>1, <1>3, <1>5, <1>7, <1>8, <1>9 DEF LetterCall, LetterKnows, MeetingKnows, Meddling
  <1>11. LetterCall(call[c], crossed[c])'
    BY <1>6, <1>7, <1>10
  <1>12. LetterTables'
    <2>1. outlook' = [v \in Meetings |-> outlook'[v]] /\ \A v \in Meetings : outlook'[v] = IF v = w THEN row ELSE outlook[v]
      BY <1>5
    <2>2. UNCHANGED <<clock, session, letter, updates, hushed, mixed, astray>>
      BY <1>5
    <2> QED
      BY <1>3, <1>4, <2>1, <2>2 DEF LetterTables, Letters
  <1>13. \A v \in Meetings : outlook[v] # None => outlook'[v] = outlook[v]
    BY <1>1, <1>5
  <1>14. LettersStay(c, {})
    BY <1>5, <1>13 DEF LettersStay, Told
  <1>15. (\A n \in notices : n.meeting \in Meetings /\ outlook[n.meeting] # None /\ Told(n.meeting, n))'
    BY <1>5, <1>13 DEF LetterInv, Told
  <1>16. ASSUME NEW v \in Meetings PROVE AnswerOf(v)'
    <2>1. CASE v = w
      <3>1. outlook'[v] = row /\ letter'[v] = None
        BY <1>5, <1>9, <2>1
      <3> QED
        BY <1>3, <3>1 DEF AnswerOf
    <2>2. CASE v # w
      <3>1. outlook'[v] = outlook[v] /\ letter'[v] = letter[v] /\ astray' = astray /\ AnswerOf(v)
        BY <1>5, <2>2 DEF LetterInv
      <3>2. OnItsWay(v) => OnItsWay(v)'
        <4>1. ASSUME NEW d \in Callers, At(d, "report", "write"), call[d].arg = v, call[d].seen.nth = outlook[v].nth
              PROVE (At(d, "report", "write") /\ call[d].arg = v /\ call[d].seen.nth = outlook[v].nth)'
          BY <1>5, <1>6, <3>1, <4>1 DEF At, Sees
        <4> QED
          BY <1>5, <3>1, <4>1 DEF OnItsWay
      <3> QED
        BY <3>1, <3>2 DEF AnswerOf, Kept
    <2> QED
      BY <2>1, <2>2
  <1>17. \A d \in Callers \ {c} : Recording(call[d]) => call[d].seen # call'[c].seen
    BY <1>1, <1>7, <1>8 DEF LetterInv, LetterCall, Recording
  <1>18. (Apart => JobsFollow)'
    <2>1. SUFFICES ASSUME Apart' PROVE JobsFollow'
      OBVIOUS
    <2>2. Meddles(call'[c]) /\ ~Wrote(call[c]) /\ ~Wrote(call'[c])
      BY <1>5, <1>7, <1>8 DEF Meddles, Meddling, Wrote
    <2>3. Apart
      BY <1>5, <1>6, <2>1, <2>2, ApartBefore
    <2>4. JobsFollow /\ \A d \in Callers \ {c} : call'[d] = call[d]
      BY <1>6, <2>3 DEF LetterInv, Sees
    <2>5. Between("updateMeeting", {"graph", "record", "moved"})' <=> Between("updateMeeting", {"graph", "record", "moved"})
      BY <1>5, <1>7, <1>8, <2>4, BetweenOne
    <2>6. Updating' <=> Updating
      BY <1>5, <2>5 DEF Updating
    <2> QED
      BY <1>5, <2>2, <2>4, <2>6, JobsStay
  <1> QED
    BY <1>6, <1>11, <1>12, <1>14, <1>15, <1>16, <1>17, <1>18, LetterKeeps

\* The session learns of its meeting, and the learner is invited.
LEMMA RecordMeetingKeeps ==
  ASSUME CallsSound, LetterInv, NEW c \in Callers, RecordMeeting(c)
  PROVE LetterInv'
  <1>1. PICK m : m = {<<"session", None>>}
    OBVIOUS
  <1>2. PICK x, k, w : x = call[c] /\ k = crossed[c] /\ w = x.seen /\ LetterCall(x, k)
    BY DEF LetterInv
  <1>3. x.op \in {"createMeeting", "updateMeeting"} /\ x.pc = "record" /\ Untouched(c)
    BY <1>2 DEF RecordMeeting
  <1>4. w \in Meetings /\ outlook[w] # None /\ letter[w] = None /\ Recording(x) /\ Meddles(x)
    BY <1>2, <1>3 DEF LetterCall, Recording, Meddles, Meddling
  <1>5. LetterTables /\ session \in SessionRow
    BY DEF LetterInv, LetterTables
  <1>6. UNCHANGED <<clock, outlook, reminders, mails, updates, notices, hushed, astray>>
    BY DEF RecordMeeting
  <1>7. CASE session.status = "CANCELLED"
    <2>1. session' = [session EXCEPT !.event = w] /\ End(c, None, m) /\ letter' = letter
      BY <1>1, <1>2, <1>7 DEF RecordMeeting
    <2>2. call'[c].pc = "idle" /\ crossed'[c] = crossed[c] /\ \A d \in Callers \ {c} : Sees(c, d, m)
      BY <2>1, EndDoes DEF CallsSound
    <2>3. LetterCall(call[c], crossed[c])' /\ ~Recording(call'[c])
      BY <2>2 DEF LetterCall, Recording
    <2>4. session' \in SessionRow /\ session'.status = "CANCELLED"
      BY <1>4, <1>5, <1>7, <2>1 DEF SessionRow
    <2>5. LetterTables'
      BY <1>3, <1>5, <1>6, <2>1, <2>4 DEF LetterTables, Letters, Untouched, Stale
    <2>6. <<"session", None>> \in k
      BY <1>2, <1>3, <1>7 DEF LetterCall, LetterKnows, MeetingKnows, Meddling
    <2> QED
      BY <1>1, <1>2, <1>3, <1>4, <1>6, <2>1, <2>2, <2>3, <2>5, <2>6, LetterWrites
  <1>8. CASE session.status # "CANCELLED"
    <2>1. PICK row, pc : row = [rsvp |-> "PENDING", nth |-> 0, reminded |-> FALSE]
                         /\ pc = IF x.op = "createMeeting" THEN "mail" ELSE "moved"
      OBVIOUS
    <2>2. row \in LetterRow /\ row # None /\ row.rsvp = "PENDING" /\ row.nth = 0
      <3>1. row \in LetterRow /\ row.rsvp = "PENDING" /\ row.nth = 0
        BY <2>1 DEF LetterRow, Answers
      <3> QED
        BY <3>1, IdsAssumption
    <2>3. /\ session' = [session EXCEPT !.event = w, !.status = "INVITED"] /\ Goto(c, pc, w, m)
          /\ letter' = [v \in Meetings |-> IF v = w THEN row ELSE letter[v]]
      BY <1>1, <1>2, <1>5, <1>8, <2>1 DEF RecordMeeting, LetterTables
    <2>4. /\ call'[c] = [op |-> call[c].op, pc |-> pc, arg |-> call[c].arg, seen |-> w, result |-> call[c].result]
          /\ crossed'[c] = crossed[c] /\ \A d \in Callers \ {c} : Sees(c, d, m)
      BY <2>3, GotoDoes DEF CallsSound
    <2>5. PICK y : y = call'[c] /\ y.op = x.op /\ y.pc = pc /\ y.arg = x.arg
      BY <1>2, <2>4
    <2>6. session' \in SessionRow /\ session'.status = "INVITED" /\ session'.start = session.start /\ session'.event = w
      BY <1>4, <1>5, <2>3 DEF SessionRow
    <2>7. LetterCall(y, k)'
      BY <1>2, <1>3, <2>1, <2>5, <2>6 DEF LetterCall, LetterKnows, MeetingKnows, Recording, Meddling
    <2>8. LetterCall(call[c], crossed[c])' /\ ~Recording(call'[c])
      BY <1>2, <2>1, <2>4, <2>5, <2>7 DEF Recording
    <2>9. \A v \in Meetings : letter'[v] = IF v = w THEN row ELSE letter[v]
      BY <2>3
    <2>10. LetterTables'
      <3>1. letter' = [v \in Meetings |-> letter'[v]]
        BY <2>3
      <3>2. w \in Letters'
        BY <1>4, <2>2, <2>9 DEF Letters
      <3>3. UNCHANGED <<clock, outlook, updates, hushed, astray>> /\ mixed' \in BOOLEAN
        BY <1>3, <1>5, <1>6 DEF LetterTables, Untouched, Stale
      <3>4. \A v \in Meetings : letter'[v] # None => letter'[v] \in LetterRow /\ outlook[v] # None
        BY <1>4, <1>5, <2>2, <2>9 DEF LetterTables
      <3> QED
        BY <1>5, <2>6, <3>1, <3>2, <3>3, <3>4 DEF LetterTables
    <2>11. LettersStay(c, m)
      BY <1>1, <1>2, <1>4, <1>6, <2>9 DEF LettersStay, Told
    <2>12. (\A n \in notices : n.meeting \in Meetings /\ outlook[n.meeting] # None /\ Told(n.meeting, n))'
      BY <1>6 DEF LetterInv, Told
    <2>13. ASSUME NEW v \in Meetings PROVE AnswerOf(v)'
      <3>1. AnswerOf(v) /\ astray' = astray /\ outlook' = outlook
        BY <1>6 DEF LetterInv
      <3>2. OnItsWay(v) => OnItsWay(v)'
        <4>1. ASSUME NEW d \in Callers, At(d, "report", "write"), call[d].arg = v, call[d].seen.nth = outlook[v].nth
              PROVE (At(d, "report", "write") /\ call[d].arg = v /\ call[d].seen.nth = outlook[v].nth)'
          BY <1>2, <1>3, <1>6, <2>4, <4>1 DEF At, Sees
        <4> QED
          BY <1>6, <4>1 DEF OnItsWay
      <3>3. CASE v # w
        BY <2>9, <3>1, <3>2, <3>3 DEF AnswerOf, Kept
      <3>4. CASE v = w
        <4>1. letter'[v] = row /\ outlook[v].nth \in Nat
          BY <1>4, <1>5, <2>9, <3>4 DEF LetterTables, OutlookRow
        <4> QED
          BY <1>4, <2>2, <3>1, <3>2, <3>4, <4>1 DEF AnswerOf, Kept
      <3> QED
        BY <3>3, <3>4
    <2>14. (Apart => JobsFollow)'
      <3>1. SUFFICES ASSUME Apart' PROVE JobsFollow'
        OBVIOUS
      <3>2. mixed \in BOOLEAN /\ (mixed => mixed') /\ (<<"session", None>> \in k => mixed')
        BY <1>2, <1>3, <1>5 DEF LetterTables, Untouched, Stale
      <3>3. Apart /\ \A d \in Callers \ {c} : ~Meddles(call[d])
        BY <1>1, <1>2, <2>4, <3>1, <3>2, ApartBefore
      <3>4. JobsFollow /\ <<"session", None>> \notin k /\ \A d \in Callers \ {c} : call'[d] = call[d]
        BY <1>2, <1>4, <2>4, <3>3 DEF LetterInv, Sees, Apart
      <3>5. /\ (\A d, e \in Callers : Wrote(call[d]) /\ Wrote(call[e]) => d = e)'
            /\ ~Between("reschedule", {"queue"})' /\ ~Between("reschedule", {"remind"})'
            /\ ~Between("cancel", {"drop"})'
            /\ Between("createMeeting", {"mail"})' => x.op = "createMeeting"
            /\ x.op = "createMeeting" => Between("createMeeting", {"mail", "remind"})'
        BY <1>3, <2>1, <2>5, <3>3, <3>4, OneWrote
      <3>6. ~Between("reschedule", {"queue"}) /\ ~Between("cancel", {"drop"}) /\ ~Between("reschedule", {"queue", "remind"})
            /\ ~Between("createMeeting", {"mail", "remind"})
        BY <1>2, <1>3, <3>3 DEF Between, Meddles, Meddling
      <3>7. x.op = "createMeeting" => session.event = None
        BY <1>2, <1>3, <3>4 DEF LetterCall, LetterKnows, MeetingKnows, Meddling
      <3>8. x.op = "createMeeting" => mails = {}
        BY <3>4, <3>7 DEF JobsFollow
      <3>9. x.op = "updateMeeting" => Updating /\ Updating'
        <4>1. x.op = "updateMeeting" => /\ Between("updateMeeting", {"graph", "record", "moved"})
                                        /\ Between("updateMeeting", {"graph", "record", "moved"})'
          BY <1>2, <1>3, <2>1, <2>5, <3>4, BetweenOne
        <4> QED
          BY <4>1 DEF Updating
      <3>10. x.op = "updateMeeting" => Reminded /\ Reminded'
        <4>1. x.op = "updateMeeting" => Reminded
          BY <1>8, <3>4, <3>6, <3>9 DEF JobsFollow
        <4>2. Reminded' <=> Reminded
          BY <1>6, <2>6 DEF Reminded
        <4> QED
          BY <4>1, <4>2
      <3>11. reminders \subseteq {session.start - ReminderLead}
        BY <1>8, <3>4, <3>6 DEF JobsFollow
      <3>12. session'.event # None
        BY <1>4, <2>6, IdsAssumption
      <3>13. UNCHANGED <<reminders, mails, hushed>>
        BY <1>6
      <3>14. Reminded' \/ Between("createMeeting", {"mail", "remind"})'
        BY <1>3, <3>5, <3>10
      <3>15. ~Updating' => mails' \subseteq {session'.start - MailLead}
        BY <1>3, <3>8, <3>9, <3>13
      <3>16. session'.event = None \/ Between("createMeeting", {"mail"})' => mails' = {}
        BY <3>5, <3>8, <3>12, <3>13
      <3> QED
        BY <2>6, <3>5, <3>11, <3>13, <3>14, <3>15, <3>16 DEF JobsFollow
    <2> QED
      BY <2>4, <2>8, <2>10, <2>11, <2>12, <2>13, <2>14, LetterKeeps
  <1> QED
    BY <1>7, <1>8


\* The invitation says that its learner was reminded.
LEMMA MarkRemindedKeeps ==
  ASSUME CallsSound, LetterInv, NEW c \in Callers, MarkReminded(c)
  PROVE LetterInv'
  <1>1. PICK w, old, row : w = call[c].arg /\ old = letter[w] /\ row = [old EXCEPT !.reminded = TRUE]
    OBVIOUS
  <1>2. /\ call[c].op = "runReminder" /\ call[c].pc = "mark" /\ End(c, None, {})
        /\ UNCHANGED <<clock, session, outlook, reminders, mails, updates, notices, hushed, mixed, astray>> /\ LetterTables
    BY DEF MarkReminded, At, LetterInv
  <1>3. w \in Meetings /\ old # None /\ old \in LetterRow
    BY <1>1, <1>2 DEF LetterInv, LetterCall, Letters, LetterTables
  <1>4. row \in LetterRow /\ row.rsvp = old.rsvp /\ row.nth = old.nth
    BY <1>1, <1>3 DEF LetterRow
  <1>5. row # None
    BY <1>4, IdsAssumption
  <1>6. letter' = [v \in Meetings |-> IF v = w THEN row ELSE letter[v]]
    BY <1>1, <1>2 DEF MarkReminded, LetterTables
  <1>7. /\ letter' = [v \in Meetings |-> letter'[v]]
        /\ \A v \in Meetings : letter'[v] = IF v = w THEN row ELSE letter[v]
    BY <1>6
  <1>8. call'[c].pc = "idle" /\ \A d \in Callers \ {c} : Sees(c, d, {})
    BY <1>2, EndDoes DEF CallsSound
  <1>9. LetterCall(call[c], crossed[c])' /\ ~Recording(call'[c]) /\ ~Meddles(call[c]) /\ ~Meddles(call'[c])
    BY <1>2, <1>8 DEF LetterCall, Recording, Meddles, Meddling
  <1>10. LetterTables'
    <2>1. Letters \subseteq Letters'
      BY <1>5, <1>7 DEF Letters
    <2>2. \A v \in Meetings : letter'[v] # None => letter'[v] \in LetterRow /\ outlook[v] # None
      BY <1>1, <1>2, <1>3, <1>4, <1>7 DEF LetterTables
    <2> QED
      BY <1>2, <1>7, <2>1, <2>2 DEF LetterTables
  <1>11. LettersStay(c, {})
    BY <1>1, <1>2, <1>3, <1>5, <1>7 DEF LettersStay, Told
  <1>12. (\A n \in notices : n.meeting \in Meetings /\ outlook[n.meeting] # None /\ Told(n.meeting, n))'
    BY <1>2 DEF LetterInv, Told
  <1>13. ASSUME NEW v \in Meetings PROVE AnswerOf(v)'
    <2>1. AnswerOf(v)
      BY DEF LetterInv
    <2>2. OnItsWay(v) => OnItsWay(v)'
      <3>1. ASSUME NEW d \in Callers, At(d, "report", "write"), call[d].arg = v, call[d].seen.nth = outlook[v].nth
            PROVE (At(d, "report", "write") /\ call[d].arg = v /\ call[d].seen.nth = outlook[v].nth)'
        BY <1>2, <1>8, <3>1 DEF At, Sees
      <3> QED
        BY <1>2, <3>1 DEF OnItsWay
    <2>3. (letter'[v] # None <=> letter[v] # None) /\ letter'[v].nth = letter[v].nth /\ letter'[v].rsvp = letter[v].rsvp
      BY <1>1, <1>3, <1>4, <1>5, <1>7
    <2> QED
      BY <1>2, <2>1, <2>2, <2>3 DEF AnswerOf, Kept
  <1>14. (Apart => JobsFollow)'
    BY <1>2, <1>8, <1>9, JobsApart
  <1> QED
    BY <1>8, <1>9, <1>10, <1>11, <1>12, <1>13, <1>14, LetterKeeps

\* The learner answers, or deletes the meeting.
LEMMA LearnerKeeps ==
  ASSUME CallsSound, LetterInv, NEW c \in Callers, NEW op, Atomically(c, op, {}), NEW w \in Meetings, outlook[w] # None,
         NEW row \in OutlookRow, outlook' = [v \in Meetings |-> IF v = w THEN row ELSE outlook[v]],
         UNCHANGED <<clock, session, letter, reminders, mails, updates, hushed, mixed, astray>>,
         \/ row.nth = outlook[w].nth /\ row.answer = outlook[w].answer /\ notices' = notices
         \/ /\ row.nth = outlook[w].nth + 1
            /\ \E n : /\ notices' = notices \cup {n} /\ n.meeting = w /\ n.answer = row.answer /\ n.nth = row.nth
  PROVE LetterInv'
  <1>1. call' = call /\ crossed'[c] = crossed[c] /\ \A d \in Callers \ {c} : Sees(c, d, {})
    BY AtomicallyDoes DEF CallsSound
  <1>2. /\ outlook' = [v \in Meetings |-> outlook'[v]]
        /\ \A v \in Meetings : outlook'[v] = IF v = w THEN row ELSE outlook[v]
        /\ row # None /\ row.nth \in Nat /\ row.answer \in Answers
    BY IdsAssumption DEF OutlookRow
  <1>3. LetterTables /\ outlook[w] \in OutlookRow /\ outlook[w].nth \in Nat
    BY DEF LetterInv, LetterTables, OutlookRow
  <1>4. LetterTables'
    BY <1>2, <1>3 DEF LetterTables, Letters
  <1>5. ASSUME NEW v \in Meetings, outlook[v] # None, NEW n, Told(v, n) PROVE Told(v, n)'
    <2>1. CASE v # w
      BY <1>2, <1>5, <2>1 DEF Told
    <2>2. CASE v = w
      <3>1. outlook'[v] = row /\ n.nth \in 1 .. outlook[w].nth
        BY <1>2, <1>5, <2>2 DEF Told
      <3> QED
        BY <1>3, <1>5, <2>2, <3>1 DEF Told
    <2> QED
      BY <2>1, <2>2
  <1>6. LettersStay(c, {})
    BY <1>2, <1>5 DEF LettersStay
  <1>7. ASSUME NEW n \in notices' PROVE n.meeting \in Meetings /\ outlook'[n.meeting] # None /\ Told(n.meeting, n)'
    <2>1. CASE n \in notices
      BY <1>2, <1>5, <2>1 DEF LetterInv
    <2>2. CASE n \notin notices
      <3>1. n.meeting = w /\ n.answer = row.answer /\ n.nth = row.nth /\ row.nth = outlook[w].nth + 1
        BY <2>2
      <3> QED
        BY <1>2, <1>3, <3>1 DEF Told
    <2> QED
      BY <2>1, <2>2
  <1>8. ASSUME NEW v \in Meetings PROVE AnswerOf(v)'
    <2>1. AnswerOf(v)
      BY DEF LetterInv
    <2>2. CASE outlook'[v].nth = outlook[v].nth /\ outlook'[v].answer = outlook[v].answer /\ (outlook'[v] # None => outlook[v] # None)
      <3>1. OnItsWay(v) => OnItsWay(v)'
        <4>1. notices \subseteq notices'
          OBVIOUS
        <4> QED
          BY <1>1, <2>2, <4>1 DEF OnItsWay, At
      <3> QED
        BY <2>1, <2>2, <3>1 DEF AnswerOf, Kept
    <2>3. CASE v = w /\ row.nth = outlook[w].nth + 1
      <3>1. outlook'[v] = row
        BY <1>2, <2>3
      <3>2. OnItsWay(v)'
        <4>1. PICK n \in notices' : n.meeting = w /\ n.nth = row.nth
          BY <1>3, <2>3
        <4> QED
          BY <2>3, <3>1, <4>1 DEF OnItsWay
      <3>3. letter[v] # None => letter[v].nth \in Nat /\ letter[v].nth <= outlook[v].nth
        BY <2>1, <2>3, <1>3 DEF AnswerOf, LetterTables, LetterRow
      <3>4. letter' = letter /\ row.nth # 0
        BY <1>3, <2>3
      <3> QED
        BY <1>3, <2>3, <3>1, <3>2, <3>3, <3>4 DEF AnswerOf
    <2> QED
      BY <1>2, <1>3, <2>2, <2>3
  <1>9. PICK y, k : y = call[c] /\ k = crossed[c] /\ LetterCall(y, k)
    BY DEF LetterInv
  <1>10. LetterCall(y, k)'
    <2>2. UNCHANGED <<session, letter>> /\ \A v \in Meetings : outlook[v] # None => outlook'[v] # None
      BY <1>2
    <2>3. y.op = "report" /\ y.pc # "idle" => ReportKnows(y)'
      <3>1. SUFFICES ASSUME y.op = "report", y.pc # "idle" PROVE ReportKnows(y)'
        OBVIOUS
      <3>2. y.arg \in Meetings /\ letter[y.arg] # None /\ outlook[y.arg] # None /\ Told(y.arg, y.seen)
        BY <1>3, <1>9, <3>1 DEF LetterCall, ReportKnows, Letters, LetterTables
      <3> QED
        BY <1>5, <3>2 DEF ReportKnows, Letters
    <2> QED
      BY <1>9, <2>2, <2>3 DEF LetterCall, LetterKnows, MeetingKnows, MoveKnows, Letters
  <1>11. LetterCall(call[c], crossed[c])'
    BY <1>1, <1>9, <1>10
  <1>12. (Apart => JobsFollow)'
    <2>1. SUFFICES ASSUME Apart' PROVE JobsFollow'
      OBVIOUS
    <2>2. Apart
      BY <1>1, <2>1, ApartBefore
    <2>3. JobsFollow /\ (Reminded => Reminded')
      BY <2>2 DEF LetterInv, Reminded
    <2> QED
      BY <1>1, <2>3, JobsRun
  <1>13. Recording(call'[c]) => \A d \in Callers \ {c} : Recording(call[d]) => call[d].seen # call'[c].seen
    BY <1>1 DEF LetterInv
  <1> QED
    BY <1>1, <1>4, <1>6, <1>7, <1>8, <1>11, <1>12, <1>13, LetterKeeps


\* Microsoft reports an answer.
LEMMA ReportKeeps ==
  ASSUME CallsSound, LetterInv, NEW c \in Callers, Report(c)
  PROVE LetterInv'
  <1>1. PICK n : /\ n \in notices /\ notices' = notices \ {n}
                 /\ astray' = IF n.meeting \notin Letters THEN astray \cup {n.meeting} ELSE astray
                 /\ IF Letters \cap {n.meeting} = {} THEN Atomically(c, "report", {})
                    ELSE \E row \in Letters \cap {n.meeting} : Begin(c, "report", "write", row, n)
    BY DEF Report, ByGraphEventId
  <1>2. PICK w : w = n.meeting
    OBVIOUS
  <1>3. w \in Meetings /\ outlook[w] # None /\ Told(w, n) /\ LetterTables
    BY <1>1, <1>2 DEF LetterInv
  <1>4. UNCHANGED <<clock, session, outlook, letter, reminders, mails, updates, hushed, mixed>>
    BY DEF Report
  <1>5. /\ w \notin Letters => Atomically(c, "report", {}) /\ astray' = astray \cup {w}
        /\ w \in Letters => Begin(c, "report", "write", w, n) /\ astray' = astray
    BY <1>1, <1>2
  <1>6. LetterTables'
    BY <1>3, <1>4, <1>5 DEF LetterTables, Letters
  <1>7. LettersStay(c, {})
    BY <1>4 DEF LettersStay, Told
  <1>8. (\A m \in notices : m.meeting \in Meetings /\ outlook[m.meeting] # None /\ Told(m.meeting, m))'
    BY <1>1, <1>4 DEF LetterInv, Told
  <1>9. CASE w \notin Letters
    <2>1. call' = call /\ crossed'[c] = crossed[c] /\ \A d \in Callers \ {c} : Sees(c, d, {})
      BY <1>5, <1>9, AtomicallyDoes DEF CallsSound
    <2>2. PICK y, k : y = call[c] /\ k = crossed[c] /\ LetterCall(y, k)
      BY DEF LetterInv
    <2>3. LetterCall(y, k)'
      BY <1>4, <2>2 DEF LetterCall, LetterKnows, MeetingKnows, MoveKnows, ReportKnows, Told, Letters
    <2>4. LetterCall(call[c], crossed[c])'
      BY <2>1, <2>2, <2>3
    <2>5. ASSUME NEW v \in Meetings PROVE AnswerOf(v)'
      <3>1. AnswerOf(v)
        BY DEF LetterInv
      <3>2. v # w /\ OnItsWay(v) => OnItsWay(v)'
        BY <1>1, <1>2, <1>4, <2>1 DEF OnItsWay, At
      <3>3. w \in astray' /\ (v \in astray => v \in astray')
        BY <1>5, <1>9
      <3> QED
        BY <1>4, <3>1, <3>2, <3>3 DEF AnswerOf, Kept
    <2>6. (Apart => JobsFollow)'
      <3>1. SUFFICES ASSUME Apart' PROVE JobsFollow'
        OBVIOUS
      <3>2. Apart
        BY <1>4, <2>1, <3>1, ApartBefore
      <3>3. JobsFollow /\ (Reminded => Reminded')
        BY <1>4, <3>2 DEF LetterInv, Reminded
      <3> QED
        BY <1>4, <2>1, <3>3, JobsRun
    <2>7. Recording(call'[c]) => \A d \in Callers \ {c} : Recording(call[d]) => call[d].seen # call'[c].seen
      BY <2>1 DEF LetterInv
    <2> QED
      BY <1>6, <1>7, <1>8, <2>1, <2>4, <2>5, <2>6, <2>7, LetterKeeps
  <1>10. CASE w \in Letters
    <2>1. /\ call[c].pc = "idle"
          /\ call'[c] = [op |-> "report", pc |-> "write", arg |-> w, seen |-> n, result |-> None]
          /\ crossed'[c] = {}
          /\ \A d \in Callers \ {c} : call'[d] = call[d] /\ crossed'[d] = crossed[d]
      BY <1>5, <1>10, BeginDoes DEF CallsSound
    <2>2. \A d \in Callers \ {c} : Sees(c, d, {})
      BY <2>1 DEF Sees
    <2>3. PICK y : y = call'[c] /\ y.op = "report" /\ y.pc = "write" /\ y.arg = w /\ y.seen = n
      BY <2>1
    <2>4. Told(w, n)' /\ w \in Letters'
      BY <1>3, <1>4, <1>10 DEF Told, Letters
    <2>5. LetterCall(y, {})'
      BY <2>3, <2>4 DEF LetterCall, ReportKnows, Recording, Meddling
    <2>6. LetterCall(call[c], crossed[c])' /\ ~Recording(call'[c]) /\ ~Meddles(call[c]) /\ ~Meddles(call'[c])
      BY <2>1, <2>3, <2>5 DEF Recording, Meddles, Meddling
    <2>7. ASSUME NEW v \in Meetings PROVE AnswerOf(v)'
      <3>1. AnswerOf(v)
        BY DEF LetterInv
      <3>2. OnItsWay(v) => OnItsWay(v)'
        <4>1. ASSUME NEW m \in notices, m.meeting = v, m.nth = outlook[v].nth PROVE OnItsWay(v)'
          <5>1. CASE m = n
            BY <1>2, <1>4, <2>3, <4>1, <5>1 DEF OnItsWay, At
          <5>2. CASE m # n
            BY <1>1, <1>4, <4>1, <5>2 DEF OnItsWay
          <5> QED
            BY <5>1, <5>2
        <4>2. ASSUME NEW d \in Callers, At(d, "report", "write"), call[d].arg = v, call[d].seen.nth = outlook[v].nth
              PROVE (At(d, "report", "write") /\ call[d].arg = v /\ call[d].seen.nth = outlook[v].nth)'
          BY <1>4, <2>1, <4>2 DEF At
        <4> QED
          BY <4>1, <4>2 DEF OnItsWay
      <3> QED
        BY <1>4, <1>5, <1>10, <3>1, <3>2 DEF AnswerOf, Kept
    <2>8. (Apart => JobsFollow)'
      BY <1>4, <2>2, <2>6, JobsApart
    <2> QED
      BY <1>6, <1>7, <1>8, <2>2, <2>6, <2>7, <2>8, LetterKeeps
  <1> QED
    BY <1>9, <1>10

\* The answer is kept.
LEMMA WriteAnswerKeeps ==
  ASSUME CallsSound, LetterInv, NEW c \in Callers, WriteAnswer(c)
  PROVE LetterInv'
  <1>1. PICK w, n, old, row : /\ w = call[c].arg /\ n = call[c].seen /\ old = letter[w]
                              /\ row = [old EXCEPT !.rsvp = n.answer, !.nth = n.nth]
    OBVIOUS
  <1>2. /\ call[c].op = "report" /\ call[c].pc = "write" /\ End(c, None, {})
        /\ astray' = (IF n.nth < old.nth THEN astray \cup {w} ELSE astray)
        /\ UNCHANGED <<clock, session, outlook, reminders, mails, updates, notices, hushed, mixed>> /\ LetterTables
    BY <1>1 DEF WriteAnswer, At, LetterInv
  <1>3. w \in Letters /\ w \in Meetings /\ old # None /\ old \in LetterRow /\ Told(w, n) /\ outlook[w] \in OutlookRow
    BY <1>1, <1>2 DEF LetterInv, LetterCall, ReportKnows, Letters, LetterTables
  <1>4. n.nth \in Nat /\ n.answer \in Answers /\ n.nth <= outlook[w].nth /\ outlook[w].nth \in Nat /\ old.nth \in Nat
        /\ n.nth # 0
    BY <1>3 DEF Told, OutlookRow, LetterRow
  <1>5. row \in LetterRow /\ row.rsvp = n.answer /\ row.nth = n.nth
    BY <1>1, <1>3, <1>4 DEF LetterRow
  <1>6. row # None
    BY <1>5, IdsAssumption
  <1>7. letter' = [v \in Meetings |-> IF v = w THEN row ELSE letter[v]]
    <2>1. letter' = [letter EXCEPT ![w] = row]
      BY <1>1, Zenon DEF WriteAnswer
    <2> QED
      BY <1>2, <2>1 DEF LetterTables
  <1>8. /\ letter' = [v \in Meetings |-> letter'[v]]
        /\ \A v \in Meetings : letter'[v] = IF v = w THEN row ELSE letter[v]
    BY <1>7
  <1>9. call'[c].pc = "idle" /\ \A d \in Callers \ {c} : Sees(c, d, {})
    BY <1>2, EndDoes DEF CallsSound
  <1>10. LetterCall(call[c], crossed[c])' /\ ~Recording(call'[c]) /\ ~Meddles(call[c]) /\ ~Meddles(call'[c])
    BY <1>2, <1>9 DEF LetterCall, Recording, Meddles, Meddling
  <1>11. LetterTables'
    <2>1. Letters \subseteq Letters'
      BY <1>6, <1>8 DEF Letters
    <2>2. \A v \in Meetings : letter'[v] # None => letter'[v] \in LetterRow /\ outlook[v] # None
      BY <1>1, <1>2, <1>3, <1>5, <1>8 DEF LetterTables
    <2>3. astray' \subseteq Meetings
      BY <1>2, <1>3 DEF LetterTables
    <2> QED
      BY <1>2, <1>8, <2>1, <2>2, <2>3 DEF LetterTables
  <1>12. LettersStay(c, {})
    BY <1>1, <1>2, <1>3, <1>6, <1>8 DEF LettersStay, Told
  <1>13. (\A m \in notices : m.meeting \in Meetings /\ outlook[m.meeting] # None /\ Told(m.meeting, m))'
    BY <1>2 DEF LetterInv, Told
  <1>14. ASSUME NEW v \in Meetings PROVE AnswerOf(v)'
    <2>1. AnswerOf(v) /\ outlook' = outlook
      BY <1>2 DEF LetterInv
    <2>2. OnItsWay(v) => OnItsWay(v)' \/ (v = w /\ n.nth = outlook[w].nth)
      <3>1. ASSUME NEW d \in Callers \ {c}, At(d, "report", "write"), call[d].arg = v, call[d].seen.nth = outlook[v].nth
            PROVE (At(d, "report", "write") /\ call[d].arg = v /\ call[d].seen.nth = outlook[v].nth)'
        BY <1>9, <2>1, <3>1 DEF At, Sees
      <3>2. call[c].arg = v /\ call[c].seen.nth = outlook[v].nth => v = w /\ n.nth = outlook[w].nth
        BY <1>1
      <3> QED
        BY <1>2, <3>1, <3>2 DEF OnItsWay
    <2>3. CASE v # w
      <3>1. letter'[v] = letter[v] /\ (v \in astray => v \in astray')
        BY <1>2, <1>8, <2>3
      <3> QED
        BY <2>1, <2>2, <2>3, <3>1 DEF AnswerOf, Kept
    <2>4. CASE v = w
      <3>1. letter'[v] = row /\ letter[v] = old
        BY <1>1, <1>3, <1>8, <2>4
      <3>2. row.nth = outlook[v].nth => row.rsvp = outlook[v].answer
        BY <1>3, <1>5, <2>4 DEF Told
      <3>3. v \in astray' \/ OnItsWay(v)' \/ n.nth = outlook[v].nth
        <4>1. CASE n.nth < old.nth
          BY <1>2, <2>4, <4>1
        <4>2. CASE ~(n.nth < old.nth) /\ Kept(v)
          BY <1>4, <2>4, <3>1, <4>2 DEF Kept
        <4>3. CASE v \in astray
          BY <1>2, <4>3
        <4>4. CASE OnItsWay(v)
          BY <2>2, <2>4, <4>4
        <4>5. outlook[v].nth # 0
          BY <1>4, <2>4
        <4> QED
          BY <1>3, <2>1, <2>4, <4>1, <4>2, <4>3, <4>4, <4>5 DEF AnswerOf, Letters, LetterInv, LetterTables
      <3> QED
        BY <1>4, <1>5, <1>6, <2>1, <2>4, <3>1, <3>2, <3>3 DEF AnswerOf, Kept
    <2> QED
      BY <2>3, <2>4
  <1>15. (Apart => JobsFollow)'
    BY <1>2, <1>9, <1>10, JobsApart
  <1> QED
    BY <1>9, <1>10, <1>11, <1>12, <1>13, <1>14, <1>15, LetterKeeps


\* What a call knows when it begins.
LEMMA LetterBegun ==
  ASSUME NEW y, NEW op, NEW pc, NEW arg, y = [op |-> op, pc |-> pc, arg |-> arg, seen |-> None, result |-> None]
  PROVE /\ op = "createMeeting" /\ pc = "graph" /\ arg = session.start /\ session.status # "CANCELLED" /\ session.event = None =>
             LetterCall(y, {})
        /\ op = "updateMeeting" /\ pc \in {"graph", "moved"} /\ session.status # "CANCELLED" => LetterCall(y, {})
        /\ op = "reschedule" /\ pc = "write" /\ session.status # "CANCELLED" /\ arg.start \in 1 .. Horizon /\ arg.silent \in BOOLEAN =>
             LetterCall(y, {})
        /\ op = "cancel" /\ pc = "write" => LetterCall(y, {})
        /\ op = "runReminder" /\ pc = "mark" /\ arg \in Letters => LetterCall(y, {})
  <1>1. y.op = op /\ y.pc = pc /\ y.arg = arg
    BY PartsOf
  <1> QED
    BY <1>1 DEF LetterCall, LetterKnows, MeetingKnows, MoveKnows, Recording, Meddling

\* A step of invitations keeps the invariant.
LEMMA LettersKeep ==
  ASSUME CallsSound, LetterInv, NEW c \in Callers, LetterStep(c)
  PROVE LetterInv'
  <1>0. LetterTables /\ clock \in Nat /\ Horizon \in Nat
    BY IdsAssumption DEF LetterInv, LetterTables
  <1>1. CASE CreateMeeting(c)
    <2>1. /\ session.status # "CANCELLED" /\ session.event = None /\ Begin(c, "createMeeting", "graph", session.start, None)
          /\ UNCHANGED letterVars
      BY <1>1 DEF CreateMeeting
    <2>2. LetterCall([op |-> "createMeeting", pc |-> "graph", arg |-> session.start, seen |-> None, result |-> None], {})
      BY <2>1, LetterBegun
    <2> QED
      BY <2>1, <2>2, LetterBegins DEF letterVars
  <1>2. CASE UpdateMeeting(c)
    <2>1. /\ updates > 0 /\ updates' = updates - 1
          /\ UNCHANGED <<clock, session, outlook, letter, reminders, mails, notices, hushed, mixed, astray>>
      BY <1>2 DEF UpdateMeeting
    <2>2. CASE session.status = "CANCELLED"
      <3>1. Atomically(c, "updateMeeting", {})
        BY <1>2, <2>2 DEF UpdateMeeting
      <3>2. call' = call /\ crossed'[c] = crossed[c] /\ \A d \in Callers \ {c} : Sees(c, d, {})
        BY <3>1, AtomicallyDoes DEF CallsSound
      <3>3. PICK y, k : y = call[c] /\ k = crossed[c] /\ LetterCall(y, k)
        BY DEF LetterInv
      <3>4. LetterCall(y, k)'
        BY <2>1, <3>3 DEF LetterCall, LetterKnows, MeetingKnows, MoveKnows, ReportKnows, Told, Letters
      <3>5. LetterCall(call[c], crossed[c])'
        BY <3>2, <3>3, <3>4
      <3>6. LetterTables'
        BY <1>0, <2>1 DEF LetterTables, Letters
      <3>7. LettersStay(c, {})
        BY <2>1 DEF LettersStay, Told
      <3>8. /\ (\A n \in notices : n.meeting \in Meetings /\ outlook[n.meeting] # None /\ Told(n.meeting, n))'
            /\ (\A v \in Meetings : AnswerOf(v))'
        BY <2>1, <3>2 DEF LetterInv, AnswerOf, Kept, OnItsWay, At, Told
      <3>9. (Apart => JobsFollow)'
        <4>1. SUFFICES ASSUME Apart' PROVE JobsFollow'
          OBVIOUS
        <4>2. Apart
          BY <2>1, <3>2, <4>1, ApartBefore
        <4>3. JobsFollow /\ (Reminded' <=> Reminded)
          BY <2>1, <4>2 DEF LetterInv, Reminded
        <4>4. \A op, pcs : Between(op, pcs)' <=> Between(op, pcs)
          BY <3>2 DEF Between
        <4>5. (\A d, e \in Callers : Wrote(call[d]) /\ Wrote(call[e]) => d = e)'
          BY <3>2, <4>3 DEF JobsFollow, Wrote
        <4> QED
          BY <2>1, <2>2, <4>3, <4>4, <4>5 DEF JobsFollow
      <3>10. Recording(call'[c]) => \A d \in Callers \ {c} : Recording(call[d]) => call[d].seen # call'[c].seen
        BY <3>2 DEF LetterInv
      <3> QED
        BY <3>2, <3>5, <3>6, <3>7, <3>8, <3>9, <3>10, LetterKeeps
    <2>3. CASE session.status # "CANCELLED"
      <3>1. PICK pc : pc \in {"graph", "moved"} /\ Begin(c, "updateMeeting", pc, session.start, None)
        BY <1>2, <2>3 DEF UpdateMeeting
      <3>2. LetterCall([op |-> "updateMeeting", pc |-> pc, arg |-> session.start, seen |-> None, result |-> None], {})
        BY <2>3, <3>1, LetterBegun
      <3>3. pc # "record" /\ LetterInv
        BY <3>1
      <3> QED
        BY <2>1, <3>1, <3>2, <3>3, LetterBegins
    <2> QED
      BY <2>2, <2>3
  <1>3. CASE Reschedule(c)
    <2>1. PICK start \in clock + 1 .. Horizon, silent \in BOOLEAN :
             Begin(c, "reschedule", "write", [start |-> start, silent |-> silent], None)
      BY <1>3 DEF Reschedule
    <2>2. session.status # "CANCELLED" /\ UNCHANGED letterVars /\ start \in 1 .. Horizon
      BY <1>0, <1>3, <2>1 DEF Reschedule
    <2>5. PICK arg : arg = [start |-> start, silent |-> silent]
      OBVIOUS
    <2>3. arg.start = start /\ arg.silent = silent
      BY <2>5
    <2>4. LetterCall([op |-> "reschedule", pc |-> "write", arg |-> arg, seen |-> None, result |-> None], {})
      BY <2>1, <2>2, <2>3, LetterBegun
    <2>6. Begin(c, "reschedule", "write", arg, None)
      BY <2>1, <2>5
    <2> QED
      BY <2>2, <2>4, <2>6, LetterBegins DEF letterVars
  <1>4. CASE Cancel(c)
    <2>1. LetterCall([op |-> "cancel", pc |-> "write", arg |-> None, seen |-> None, result |-> None], {})
      BY LetterBegun
    <2> QED
      BY <1>4, <2>1, LetterBegins DEF letterVars, Cancel
  <1>5. CASE Tick(c)
    <2>1. clock' = clock + 1 /\ clock' \in 0 .. Horizon /\ Atomically(c, "tick", {})
          /\ UNCHANGED <<session, outlook, letter, reminders, mails, updates, notices, hushed, mixed, astray>>
      BY <1>0, <1>5 DEF Tick
    <2>2. Reminded => Reminded'
      <3>1. session.start \in Int /\ clock \in Int
        BY <1>0 DEF LetterTables, SessionRow
      <3> QED
        BY <2>1, <3>1 DEF Reminded, ReminderLead
    <2> QED
      BY <2>1, <2>2, LetterRuns
  <1>6. CASE RunReminder(c)
    <2>1. PICK due \in reminders : due <= clock /\ reminders' = reminders \ {due}
      BY <1>6 DEF RunReminder
    <2>2. UNCHANGED <<clock, session, outlook, letter, mails, updates, notices, hushed, mixed, astray>>
      BY <1>6 DEF RunReminder
    <2>3. Reminded => Reminded'
      <3>1. session.start \in Int /\ clock \in Int
        BY <1>0 DEF LetterTables, SessionRow
      <3>2. SUFFICES ASSUME Reminded, session.start - ReminderLead > clock PROVE reminders' = {session.start - ReminderLead}
        BY <2>2 DEF Reminded
      <3>3. reminders = {session.start - ReminderLead}
        BY <3>2 DEF Reminded
      <3> QED
        BY <2>1, <3>1, <3>2, <3>3 DEF ReminderLead
    <2>4. CASE Atomically(c, "runReminder", {})
      <3>1. clock' \in 0 .. Horizon /\ reminders' \subseteq reminders /\ mails' \subseteq mails
        BY <1>0, <2>1, <2>2 DEF LetterTables
      <3> QED
        BY <2>2, <2>3, <2>4, <3>1, LetterRuns
    <2>5. ASSUME NEW w \in Letters, Begin(c, "runReminder", "mark", w, None) PROVE LetterInv'
      <3>1. /\ call[c].pc = "idle"
            /\ call'[c] = [op |-> "runReminder", pc |-> "mark", arg |-> w, seen |-> None, result |-> None]
            /\ crossed'[c] = {}
            /\ \A d \in Callers \ {c} : call'[d] = call[d] /\ crossed'[d] = crossed[d]
        BY <2>5, BeginDoes DEF CallsSound
      <3>9. PICK y : y = [op |-> "runReminder", pc |-> "mark", arg |-> w, seen |-> None, result |-> None]
        OBVIOUS
      <3>2. y = call'[c] /\ y.op = "runReminder" /\ y.pc = "mark"
        BY <3>1, <3>9, PartsOf
      <3>3. LetterCall(y, {})
        BY <3>9, LetterBegun
      <3>4. LetterCall(y, {})'
        BY <2>2, <3>2, <3>3 DEF LetterCall, Letters, Meddling, Recording
      <3>5. LetterCall(call[c], crossed[c])' /\ ~Recording(call'[c]) /\ ~At(c, "report", "write")
        BY <3>1, <3>2, <3>4 DEF Recording, At
      <3>6. \A d \in Callers \ {c} : Sees(c, d, {})
        BY <3>1 DEF Sees
      <3>7. LetterTables'
        BY <1>0, <2>2 DEF LetterTables, Letters
      <3>8. (Apart => JobsFollow)'
        <4>1. SUFFICES ASSUME Apart' PROVE JobsFollow'
          OBVIOUS
        <4>2. ~Meddles(call[c]) /\ ~Wrote(call[c]) /\ ~Wrote(call'[c])
          BY <3>1, <3>2 DEF Meddles, Wrote
        <4>3. Apart
          BY <2>2, <3>6, <4>1, <4>2, ApartBefore
        <4>4. JobsFollow
          BY <4>3 DEF LetterInv
        <4>5. /\ (\A d, e \in Callers : Wrote(call[d]) /\ Wrote(call[e]) => d = e)'
          <5>1. ASSUME NEW d \in Callers, NEW e \in Callers, Wrote(call'[d]), Wrote(call'[e]) PROVE d = e
            <6>1. d # c /\ e # c /\ call'[d] = call[d] /\ call'[e] = call[e]
              BY <3>1, <4>2, <5>1
            <6> QED
              BY <4>4, <5>1, <6>1 DEF JobsFollow
          <5> QED
            BY <5>1 DEF Wrote
        <4>6. /\ Between("reschedule", {"queue"})' <=> Between("reschedule", {"queue"})
              /\ Between("reschedule", {"remind"})' <=> Between("reschedule", {"remind"})
              /\ Between("reschedule", {"queue", "remind"})' <=> Between("reschedule", {"queue", "remind"})
              /\ Between("createMeeting", {"mail"})' <=> Between("createMeeting", {"mail"})
              /\ Between("createMeeting", {"mail", "remind"})' <=> Between("createMeeting", {"mail", "remind"})
              /\ Between("cancel", {"drop"})' <=> Between("cancel", {"drop"})
              /\ Between("updateMeeting", {"graph", "record", "moved"})' <=> Between("updateMeeting", {"graph", "record", "moved"})
          BY <3>1, <3>2, BetweenOne
        <4>7. Updating' <=> Updating
          BY <2>2, <4>6 DEF Updating
        <4>8. reminders' \subseteq reminders
          BY <2>1
        <4> QED
          BY <2>2, <2>3, <4>4, <4>5, <4>6, <4>7, <4>8 DEF JobsFollow
      <3> QED
        BY <2>2, <3>5, <3>6, <3>7, <3>8, LetterQuiet
    <2> QED
      BY <1>6, <2>4, <2>5 DEF RunReminder
  <1>7. CASE RunMail(c)
    <2>1. PICK due \in mails : mails' = mails \ {due}
      BY <1>7 DEF RunMail
    <2>2. Atomically(c, "runMail", {})
          /\ UNCHANGED <<clock, session, outlook, letter, reminders, updates, notices, hushed, mixed, astray>>
      BY <1>7 DEF RunMail
    <2>3. clock' \in 0 .. Horizon /\ reminders' \subseteq reminders /\ mails' \subseteq mails /\ (Reminded => Reminded')
      BY <1>0, <2>1, <2>2 DEF LetterTables, Reminded
    <2> QED
      BY <2>2, <2>3, LetterRuns
  <1>8. CASE Answer(c)
    <2>1. PICK w \in Meetings, answer \in {"ACCEPTED", "DECLINED"} :
             /\ outlook[w] # None
             /\ outlook' = [outlook EXCEPT ![w].answer = answer, ![w].nth = @ + 1]
             /\ notices' = notices \cup {[meeting |-> w, answer |-> answer, nth |-> outlook[w].nth + 1]}
      BY <1>8 DEF Answer
    <2>2. PICK old, row : old = outlook[w] /\ row = [answer |-> answer, nth |-> old.nth + 1, gone |-> old.gone]
      OBVIOUS
    <2>3. old \in OutlookRow
      BY <1>0, <2>1, <2>2 DEF LetterTables
    <2>4. row \in OutlookRow /\ row.nth = old.nth + 1 /\ row.answer = answer
      BY <2>1, <2>2, <2>3 DEF OutlookRow, Answers
    <2>5. outlook' = [v \in Meetings |-> IF v = w THEN row ELSE outlook[v]]
      <3>1. [old EXCEPT !.answer = answer, !.nth = @ + 1] = row
        <4>1. old \in [answer : {old.answer}, nth : {old.nth}, gone : {old.gone}]
          BY <2>3 DEF OutlookRow
        <4>2. PICK y : y = [old EXCEPT !.answer = answer, !.nth = @ + 1]
          BY Zenon
        <4>3. y = [answer |-> answer, nth |-> old.nth + 1, gone |-> old.gone]
          BY <4>1, <4>2
        <4> QED
          BY <2>2, <4>2, <4>3, Zenon
      <3>2. outlook' = [outlook EXCEPT ![w] = [outlook[w] EXCEPT !.answer = answer, !.nth = @ + 1]]
        BY <1>0, <2>1 DEF LetterTables
      <3> QED
        BY <1>0, <2>2, <3>1, <3>2 DEF LetterTables
    <2>6. PICK n : n = [meeting |-> w, answer |-> answer, nth |-> old.nth + 1]
      OBVIOUS
    <2>7. notices' = notices \cup {n} /\ n.meeting = w /\ n.answer = row.answer /\ n.nth = row.nth
      BY <2>1, <2>2, <2>4, <2>6
    <2>8. Atomically(c, "answer", {}) /\ UNCHANGED <<clock, session, letter, reminders, mails, updates, hushed, mixed, astray>>
      BY <1>8 DEF Answer
    <2>9. w \in Meetings /\ outlook[w] # None /\ row.nth = outlook[w].nth + 1
      BY <2>1, <2>2, <2>4
    <2> QED
      BY <2>4, <2>5, <2>7, <2>8, <2>9, LearnerKeeps
  <1>9. CASE DeleteInOutlook(c)
    <2>1. PICK w \in Meetings : outlook[w] # None /\ outlook' = [outlook EXCEPT ![w].gone = TRUE]
      BY <1>9 DEF DeleteInOutlook
    <2>2. PICK old, row : old = outlook[w] /\ row = [old EXCEPT !.gone = TRUE]
      OBVIOUS
    <2>3. old \in OutlookRow
      BY <1>0, <2>1, <2>2 DEF LetterTables
    <2>4. row \in OutlookRow /\ row.nth = old.nth /\ row.answer = old.answer
      BY <2>2, <2>3 DEF OutlookRow
    <2>5. outlook' = [v \in Meetings |-> IF v = w THEN row ELSE outlook[v]]
      <3>1. outlook' = [outlook EXCEPT ![w] = row]
        BY <2>1, <2>2
      <3> QED
        BY <1>0, <3>1 DEF LetterTables
    <2>6. Atomically(c, "deleteInOutlook", {})
          /\ UNCHANGED <<clock, session, letter, reminders, mails, updates, notices, hushed, mixed, astray>>
      BY <1>9 DEF DeleteInOutlook
    <2>7. w \in Meetings /\ outlook[w] # None /\ row.nth = outlook[w].nth /\ row.answer = outlook[w].answer
      BY <2>1, <2>2, <2>4
    <2> QED
      BY <2>4, <2>5, <2>6, <2>7, LearnerKeeps
  <1> QED
    BY <1>1, <1>2, <1>3, <1>4, <1>5, <1>6, <1>7, <1>8, <1>9, GraphCreatesKeeps, RecordMeetingKeeps, QueueMailKeeps,
       QueueReminderKeeps, TellMovedKeeps, CrashCreateKeeps, MoveRowKeeps, QueueMoveKeeps, CancelRowKeeps, DropJobsKeeps,
       MarkRemindedKeeps, ReportKeeps, WriteAnswerKeeps DEF LetterStep

\* Steps beside them.
LetterOps == {"createMeeting", "updateMeeting", "reschedule", "cancel", "runReminder", "report"}
\* They leave invitations as they are.
LEMMA LettersBeside ==
  ASSUME CallsSound, LetterInv, Spares(LetterOps), UNCHANGED letterVars
  PROVE LetterInv'
  <1>0. UNCHANGED <<clock, session, outlook, letter, reminders, mails, updates, notices, hushed, mixed, astray>>
    BY DEF letterVars
  <1>1. LetterTables'
    BY <1>0 DEF LetterInv, LetterTables, Letters
  <1>2. ASSUME NEW d \in Callers PROVE LetterCall(call[d], crossed[d])'
    <2>1. PICK y, w, more : y = call'[d] /\ w = crossed[d] /\ more = crossed'[d]
      OBVIOUS
    <2>2. CASE y.op \in LetterOps
      <3>1. y = call[d] /\ w \subseteq more
        BY <2>1, <2>2 DEF Spares
      <3>2. LetterCall(y, w)
        BY <2>1, <3>1 DEF LetterInv
      <3>3. LetterCall(y, more)
        BY <3>1, <3>2 DEF LetterCall
      <3>4. LetterCall(y, more)'
        BY <1>0, <3>3 DEF LetterCall, LetterKnows, MeetingKnows, MoveKnows, ReportKnows, Told, Letters
      <3> QED
        BY <2>1, <3>4
    <2>3. CASE y.op \notin LetterOps
      <3>1. \A v : LetterCall(y, v)'
        BY <2>3 DEF LetterCall, LetterOps, Meddling, Recording
      <3> QED
        BY <2>1, <3>1
    <2> QED
      BY <2>2, <2>3
  <1>3. ASSUME NEW d \in Callers
        PROVE /\ call'[d].op \in LetterOps => call'[d] = call[d] /\ crossed[d] \subseteq crossed'[d]
              /\ call[d].op \in LetterOps /\ call[d].pc # "idle" => call'[d] = call[d] /\ crossed[d] \subseteq crossed'[d]
    BY DEF Spares
  <1>4. (\A d, e \in Callers : Recording(call[d]) /\ Recording(call[e]) /\ call[d].seen = call[e].seen => d = e)'
    <2>1. ASSUME NEW d \in Callers, NEW e \in Callers, Recording(call'[d]), Recording(call'[e]), call'[d].seen = call'[e].seen
          PROVE d = e
      <3>1. call'[d] = call[d] /\ call'[e] = call[e]
        BY <1>3, <2>1 DEF Recording, LetterOps
      <3> QED
        BY <2>1, <3>1 DEF LetterInv
    <2> QED
      BY <2>1 DEF Recording
  <1>5. /\ (\A n \in notices : n.meeting \in Meetings /\ outlook[n.meeting] # None /\ Told(n.meeting, n))'
        /\ (\A v \in Meetings : AnswerOf(v))'
    <2>1. ASSUME NEW v \in Meetings, OnItsWay(v) PROVE OnItsWay(v)'
      <3>1. ASSUME NEW d \in Callers, At(d, "report", "write"), call[d].arg = v, call[d].seen.nth = outlook[v].nth
            PROVE (At(d, "report", "write") /\ call[d].arg = v /\ call[d].seen.nth = outlook[v].nth)'
        BY <1>0, <1>3, <3>1 DEF At, LetterOps
      <3> QED
        BY <1>0, <2>1, <3>1 DEF OnItsWay
    <2> QED
      BY <1>0, <2>1 DEF LetterInv, AnswerOf, Kept, Told
  <1>6. (Apart => JobsFollow)'
    <2>1. SUFFICES ASSUME Apart' PROVE JobsFollow'
      OBVIOUS
    <2>2. Apart
      BY <1>0, <1>3, <2>1 DEF Apart, Meddles, Meddling, LetterOps
    <2>3. JobsFollow
      BY <2>2 DEF LetterInv
    <2>4. ASSUME NEW op \in LetterOps, NEW pcs, "idle" \notin pcs PROVE Between(op, pcs)' <=> Between(op, pcs)
      BY <1>3, <2>4 DEF Between
    <2>5. /\ Between("reschedule", {"queue"})' <=> Between("reschedule", {"queue"})
          /\ Between("reschedule", {"remind"})' <=> Between("reschedule", {"remind"})
          /\ Between("reschedule", {"queue", "remind"})' <=> Between("reschedule", {"queue", "remind"})
          /\ Between("createMeeting", {"mail"})' <=> Between("createMeeting", {"mail"})
          /\ Between("createMeeting", {"mail", "remind"})' <=> Between("createMeeting", {"mail", "remind"})
          /\ Between("cancel", {"drop"})' <=> Between("cancel", {"drop"})
          /\ Between("updateMeeting", {"graph", "record", "moved"})' <=> Between("updateMeeting", {"graph", "record", "moved"})
      BY <2>4 DEF LetterOps
    <2>6. (\A d, e \in Callers : Wrote(call[d]) /\ Wrote(call[e]) => d = e)'
      <3>1. ASSUME NEW d \in Callers, NEW e \in Callers, Wrote(call'[d]), Wrote(call'[e]) PROVE d = e
        <4>1. call'[d] = call[d] /\ call'[e] = call[e]
          BY <1>3, <3>1 DEF Wrote, LetterOps
        <4> QED
          BY <2>3, <3>1, <4>1 DEF JobsFollow
      <3> QED
        BY <3>1 DEF Wrote
    <2>7. (Updating' <=> Updating) /\ (Reminded' <=> Reminded)
      BY <1>0, <2>5 DEF Updating, Reminded
    <2> QED
      BY <1>0, <2>3, <2>5, <2>6, <2>7 DEF JobsFollow
  <1> QED
    BY <1>1, <1>2, <1>4, <1>5, <1>6 DEF LetterInv

\* A step of the portal is one of invitations, or spares them.
LEMMA LettersAmong ==
  ASSUME CallsSound, [PortalNext]_portalVars
  PROVE /\ CallsSound'
        /\ (\E c \in Callers : LetterStep(c)) \/ (Spares(LetterOps) /\ UNCHANGED letterVars)
  <1>1. None \notin LetterOps
    BY PortalAssumption DEF LetterOps, LetterCalls
  <1>2. /\ LetterOps \cap RosterOps = {} /\ LetterOps \cap RecCalls = {} /\ LetterOps \cap AccountOps = {}
        /\ LetterOps \cap DeckCalls = {} /\ LetterOps \cap TreeCalls = {} /\ LetterOps \cap RubricCalls = {}
        /\ LetterOps \cap FigureCalls = {}
    BY DEF AccountOps, LetterOps, RosterOps, RosterCalls, RecCalls, DeckCalls, TreeCalls, RubricCalls, FigureCalls
  <1>3. PICK c : Among(c, LetterOps) /\ CallsSound'
    BY <1>1, PortalAmong
  <1> QED
    BY <1>2, <1>3 DEF Among, portalVars

\* Invitations: the invariant holds for any number of meetings, hours and requests at once.
LEMMA LettersHold == PortalSpec => [](CallsSound /\ LetterInv)
  <1>1. PortalInit => CallsSound /\ LetterInv
    <2>1. PortalInit => CallsSound
      BY CallsStartSound DEF PortalInit, AccountsInit, Init
    <2> QED
      BY <2>1, LetterStart
  <1>2. CallsSound /\ LetterInv /\ [PortalNext]_portalVars => (CallsSound /\ LetterInv)'
    BY LettersAmong, LettersKeep, LettersBeside
  <1> QED
    BY <1>1, <1>2, PTL DEF PortalSpec

\* The delayed jobs follow the session while the calls about it do not overlap, whatever the
\* other services do meanwhile, and an answer that is reported in order is kept with its meeting.
THEOREM JobsFollowTheSession == PortalSpec => []InvitationsHold
  <1>1. LetterInv => InvitationsHold
    BY LetterInvIsTrue
  <1> QED
    BY <1>1, LettersHold, PTL

\* The tables of invitations: an invited session has the invitation of its meeting.
THEOREM InvitationsTyped == PortalSpec => []LetterTypeOK
  <1>1. LetterInv => LetterTypeOK
    BY LetterInvIsTrue
  <1> QED
    BY <1>1, LettersHold, PTL


-----------------------------------------------------------------------------
(* What a plan adds is its own, and there to be taught: rows are appended  *)
(* and marked and never taken away, so that a call may rely on the ids it  *)
(* has read, and a skill that nothing teaches yet has its call.            *)

\* A sequence.
IsTable(s) == s \in Seq({s[i] : i \in 1 .. Len(s)})
LevelOutcome(o) == levelOutcomes[o] = [skill |-> levelOutcomes[o].skill, order |-> levelOutcomes[o].order,
                                       enabled |-> levelOutcomes[o].enabled, own |-> levelOutcomes[o].own]

\* The tables of the catalogue and of the snapshots.
TreeTables ==
  /\ skills \in Seq(SkillEntry) /\ \A s \in Ids(skills) : skills[s].inLevel => skills[s].own = None
  /\ IsTable(levelOutcomes) /\ \A o \in Ids(levelOutcomes) : LevelOutcome(o) /\ levelOutcomes[o].skill \in Ids(skills)
  /\ \A o, n \in Ids(levelOutcomes) : levelOutcomes[o].order = levelOutcomes[n].order => o = n
  /\ IsTable(files) /\ \A f \in Ids(files) : files[f].skill \in Ids(skills)
  /\ tree = [p \in Plans |-> tree[p]]
  /\ IsTable(media) /\ blobs \in Nat
  /\ \A m \in Ids(media) : /\ media[m].blob \in Nat /\ media[m].blob <= blobs /\ media[m].plan \in Snapshotted
                           /\ media[m].content \in Ids(tree[media[m].plan].content)

\* One snapshot: what it copies is there, and is nobody else's.
Teaches(p, k) == \E n \in Ids(tree[p].outcomes) :
  tree[p].outcomes[n].skill = k /\ levelOutcomes[tree[p].outcomes[n].source].skill = tree[p].skills[k].source
Adds(x, p, k) == x.op = "addSkill" /\ x.pc \in {"order", "outcome", "row"} /\ x.arg = p /\ x.seen.row = k
SkillOf(p, k) ==
  LET s == tree[p].skills[k].source
  IN /\ s \in Ids(skills) /\ skills[s].own \in {None, p}
     /\ skills[s].own # None => <<p, k>> \in cut \/ Teaches(p, k) \/ \E c \in Callers : Adds(call[c], p, k)
SkillsOf(p) == \A k \in Ids(tree[p].skills) : SkillOf(p, k)
OutcomeOf(p, n) ==
  LET o == tree[p].outcomes[n].source
  IN /\ tree[p].outcomes[n].skill \in Ids(tree[p].skills) /\ o \in Ids(levelOutcomes)
     /\ levelOutcomes[o].own \in {None, p} \/ levelOutcomes[o].enabled
OutcomesOf(p) == \A n \in Ids(tree[p].outcomes) : OutcomeOf(p, n)
ContentOf(p) == \A n \in Ids(tree[p].content) : tree[p].content[n].skill \in {0} \cup Ids(tree[p].skills)

\* What a call has read.
CopyKnows(x) ==
  /\ x.arg \in Plans
  /\ x.pc \in {"outcomes", "content", "write"} =>
       x.seen.skills \subseteq Ids(skills) /\ \A s \in x.seen.skills : skills[s].own = None
  /\ x.pc \in {"content", "write"} => \A o \in x.seen.outcomes :
       o \in Ids(levelOutcomes) /\ levelOutcomes[o].enabled /\ levelOutcomes[o].skill \in x.seen.skills
  /\ x.pc \in {"content", "write"} => x.seen.outcomes \subseteq Ids(levelOutcomes)
  /\ x.pc = "write" => x.seen.files \subseteq Ids(files) /\ \A f \in x.seen.files : files[f].skill \in x.seen.skills
AddKnows(x) ==
  /\ x.arg \in Snapshotted
  /\ x.pc = "copy" => x.seen \in Ids(skills) /\ skills[x.seen].own = x.arg
  /\ x.pc \in {"order", "outcome", "row"} => x.seen.row \in Ids(tree[x.arg].skills)
  /\ x.pc \in {"order", "outcome"} => x.seen.skill = tree[x.arg].skills[x.seen.row].source
  /\ x.pc = "row" => /\ x.seen.outcome \in Ids(levelOutcomes) /\ levelOutcomes[x.seen.outcome].own = x.arg
                     /\ levelOutcomes[x.seen.outcome].skill = tree[x.arg].skills[x.seen.row].source
UploadKnows(x) == /\ x.arg.plan \in Snapshotted /\ x.arg.content \in Ids(tree[x.arg.plan].content)
                  /\ x.pc = "row" => x.seen \in Nat /\ x.seen <= blobs
TreeCall(x) == x.pc # "idle" =>
  /\ x.op = "copyTrack" => CopyKnows(x) /\ x.pc \in {"skills", "outcomes", "content", "write"}
  /\ x.op \in {"addSkill", "addOutcome"} => AddKnows(x)
  /\ x.op = "addSkill" => x.pc \in {"skill", "copy", "order", "outcome", "row"}
  /\ x.op = "addOutcome" => x.pc \in {"order", "outcome", "row"}
  /\ x.op = "addToLevel" => x.pc \in {"order", "outcome"} /\ x.arg = None /\ x.seen.skill \in Ids(skills)
  /\ x.op = "upload" => UploadKnows(x)
TreeInv ==
  /\ TreeTables
  /\ \A p \in Snapshotted : tree[p] \in TreeRow /\ SkillsOf(p) /\ OutcomesOf(p) /\ ContentOf(p)
  /\ \A c \in Callers : TreeCall(call[c])

\* Tables grow: a row that is there stays, and only an outcome's enabling and a removal change in it.
TreeGrows ==
  /\ Ids(skills) \subseteq Ids(skills') /\ \A s \in Ids(skills) : skills'[s] = skills[s]
  /\ Ids(levelOutcomes) \subseteq Ids(levelOutcomes')
  /\ \A o \in Ids(levelOutcomes) : /\ levelOutcomes'[o].skill = levelOutcomes[o].skill
                                   /\ levelOutcomes'[o].own = levelOutcomes[o].own
                                   /\ levelOutcomes[o].enabled => levelOutcomes'[o].enabled
  /\ files' = files /\ cut \subseteq cut' /\ \A b \in Nat : b <= blobs => b <= blobs'
  /\ \A p \in Snapshotted :
       /\ p \in Snapshotted'
       /\ Ids(tree[p].skills) \subseteq Ids(tree'[p].skills)
       /\ \A k \in Ids(tree[p].skills) : tree'[p].skills[k].source = tree[p].skills[k].source
       /\ Ids(tree[p].outcomes) \subseteq Ids(tree'[p].outcomes)
       /\ \A n \in Ids(tree[p].outcomes) : /\ tree'[p].outcomes[n].skill = tree[p].outcomes[n].skill
                                           /\ tree'[p].outcomes[n].source = tree[p].outcomes[n].source
       /\ Ids(tree[p].content) \subseteq Ids(tree'[p].content)
       /\ \A n \in Ids(tree[p].content) : tree'[p].content[n].skill = tree[p].content[n].skill

\* The invariant says what the run checks.
LEMMA TreeInvIsTrue == TreeInv => PlansOwnTheirAdditions /\ TreeTypeOK
  <1> SUFFICES ASSUME TreeInv PROVE PlansOwnTheirAdditions /\ TreeTypeOK
    OBVIOUS
  <1>1. OwnStaysPrivate
    <2> SUFFICES ASSUME NEW p \in Snapshotted
                 PROVE /\ \A k \in Ids(tree[p].skills) : skills[tree[p].skills[k].source].own \in {None, p}
                       /\ \A k \in Ids(tree[p].outcomes) :
                            LET o == levelOutcomes[tree[p].outcomes[k].source] IN o.own \in {None, p} \/ o.enabled
      BY DEF OwnStaysPrivate
    <2>1. SkillsOf(p) /\ OutcomesOf(p)
      BY DEF TreeInv
    <2> QED
      BY <2>1 DEF SkillsOf, SkillOf, OutcomesOf, OutcomeOf
  <1>2. AddedSkillsAreTaught
    <2> SUFFICES ASSUME NEW p \in Snapshotted, NEW k \in Ids(tree[p].skills),
                        skills[tree[p].skills[k].source].own # None, <<p, k>> \notin cut,
                        ~ \E c \in Callers : call[c].op = "addSkill" /\ call[c].pc # "idle"
                 PROVE \E n \in Ids(tree[p].outcomes) :
                         tree[p].outcomes[n].skill = k
                         /\ levelOutcomes[tree[p].outcomes[n].source].skill = tree[p].skills[k].source
      BY DEF AddedSkillsAreTaught
    <2>1. Teaches(p, k) \/ \E c \in Callers : Adds(call[c], p, k)
      BY DEF TreeInv, SkillsOf, SkillOf
    <2>2. ~ \E c \in Callers : Adds(call[c], p, k)
      BY DEF Adds
    <2> QED
      BY <2>1, <2>2 DEF Teaches
  <1>3. TreeTypeOK
    <2>1. /\ \A o \in Ids(levelOutcomes) : levelOutcomes[o].skill \in Ids(skills)
          /\ \A o, n \in Ids(levelOutcomes) : levelOutcomes[o].order = levelOutcomes[n].order => o = n
          /\ \A m \in Ids(media) : media[m].blob <= blobs /\ media[m].content \in Ids(tree[media[m].plan].content)
      BY DEF TreeInv, TreeTables
    <2>2. \A p \in Snapshotted : SkillsOf(p) /\ OutcomesOf(p) /\ ContentOf(p)
      BY DEF TreeInv
    <2> QED
      BY <2>1, <2>2 DEF TreeTypeOK, SkillsOf, SkillOf, OutcomesOf, OutcomeOf, ContentOf
  <1> QED
    BY <1>1, <1>2, <1>3 DEF PlansOwnTheirAdditions

\* A sequence is a table, as is any function on the first numbers.
LEMMA Tables ==
  ASSUME NEW n \in Nat, NEW s, s = [i \in 1 .. n |-> s[i]]
  PROVE IsTable(s) /\ Len(s) = n /\ Ids(s) = 1 .. n
  <1> DEFINE S == {s[i] : i \in 1 .. n}
  <1>1. s \in [1 .. n -> S]
    OBVIOUS
  <1>2. s \in Seq(S) /\ Len(s) = n
    BY <1>1
  <1> QED
    BY <1>2 DEF IsTable, Ids

\* A row is appended to a table: the others stay.
LEMMA Appended ==
  ASSUME NEW s, IsTable(s), NEW e
  PROVE /\ Len(s) \in Nat /\ s = [i \in 1 .. Len(s) |-> s[i]]
        /\ IsTable(Append(s, e)) /\ Len(Append(s, e)) = Len(s) + 1
        /\ Ids(Append(s, e)) = Ids(s) \cup {Len(s) + 1} /\ Len(s) + 1 \notin Ids(s)
        /\ \A i \in Ids(s) : Append(s, e)[i] = s[i]
        /\ Append(s, e)[Len(s) + 1] = e
  <1> DEFINE S == {s[i] : i \in 1 .. Len(s)} \cup {e}
             t == Append(s, e)
  <1>1. Len(s) \in Nat /\ s \in [1 .. Len(s) -> {s[i] : i \in 1 .. Len(s)}]
    BY LenProperties DEF IsTable
  <1>2. s \in Seq(S)
    <2>1. s \in [1 .. Len(s) -> S]
      BY <1>1
    <2> QED
      BY <1>1, <2>1
  <1>3. /\ t \in Seq(S) /\ Len(t) = Len(s) + 1
        /\ \A i \in 1 .. Len(s) : t[i] = s[i]
        /\ t[Len(s) + 1] = e
    <2>1. e \in S
      OBVIOUS
    <2> HIDE DEF S
    <2> QED
      BY <1>2, <2>1, AppendProperties
  <1>4. t = [i \in 1 .. Len(t) |-> t[i]] /\ Len(t) \in Nat
    BY <1>3, LenProperties
  <1>5. IsTable(t)
    <2> HIDE DEF t, S
    <2> QED
      BY <1>4, Tables
  <1>6. 1 .. Len(s) + 1 = 1 .. Len(s) \cup {Len(s) + 1} /\ Len(s) + 1 \notin 1 .. Len(s)
    BY <1>1
  <1> QED
    BY <1>1, <1>3, <1>5, <1>6 DEF Ids

\* The ranks of numbers number them.
Numbering(S) == [n \in 1 .. Cardinality(S) |-> CHOOSE i \in S : Cardinality({j \in S : j <= i}) = n]
Picks(S, N, pick) == /\ N \in Nat /\ S \subseteq Nat
                     /\ \A n \in 1 .. N : pick[n] \in S
                     /\ \A i \in S : \E n \in 1 .. N : pick[n] = i
LEMMA Ranked ==
  ASSUME NEW S, S \subseteq Nat, IsFiniteSet(S)
  PROVE Picks(S, Cardinality(S), Numbering(S))
  <1> SUFFICES ASSUME NEW N, N = Cardinality(S),
                      NEW pick, pick = [n \in 1 .. N |-> CHOOSE i \in S : Cardinality({j \in S : j <= i}) = n]
               PROVE Picks(S, N, pick)
    BY Zenon DEF Numbering
  <1> DEFINE Upto(i) == {j \in S : j <= i}
             rank == [i \in S |-> Cardinality(Upto(i))]
  <1>1. N \in Nat
    BY FS_CardinalityType
  <1>2. \A i \in S : IsFiniteSet(Upto(i)) /\ Cardinality(Upto(i)) \in 1 .. N
    <2> SUFFICES ASSUME NEW i \in S PROVE IsFiniteSet(Upto(i)) /\ Cardinality(Upto(i)) \in 1 .. N
      OBVIOUS
    <2>1. Upto(i) \in SUBSET S /\ i \in Upto(i)
      OBVIOUS
    <2>2. IsFiniteSet(Upto(i)) /\ Cardinality(Upto(i)) <= N
      BY <2>1, FS_Subset
    <2>3. Cardinality(Upto(i)) \in Nat
      BY <2>2, FS_CardinalityType
    <2>4. Cardinality(Upto(i)) # 0
      BY <2>1, <2>2, FS_EmptySet
    <2> QED
      BY <1>1, <2>2, <2>3, <2>4
  <1>3. \A i, k \in S : rank[i] = rank[k] => i = k
    <2>1. ASSUME NEW i \in S, NEW k \in S, i < k PROVE rank[i] # rank[k]
      <3>0. i \in Nat /\ k \in Nat /\ i < k /\ \A j \in S : j \in Nat
        BY <2>1
      <3>4. k \in Upto(k) /\ k \notin Upto(i)
        BY <3>0
      <3>5. \A j \in S : j <= i => j <= k
        BY <3>0
      <3>1. Upto(i) \in SUBSET Upto(k) /\ k \in Upto(k) /\ k \notin Upto(i)
        BY <3>4, <3>5
      <3>2. Cardinality(Upto(k)) # Cardinality(Upto(i))
        BY <1>2, <3>1, FS_Subset
      <3> QED
        BY <3>2
    <2>2. \A i, k \in S : i = k \/ i < k \/ k < i
      OBVIOUS
    <2> HIDE DEF rank
    <2> QED
      BY <2>1, <2>2
  <1>4. rank \in Injection(S, 1 .. N)
    <2>1. rank \in [S -> 1 .. N] /\ DOMAIN rank = S
      BY <1>2
    <2> HIDE DEF rank
    <2> QED
      BY <1>3, <2>1 DEF Injection, IsInjective
  <1>5. rank \in Surjection(S, 1 .. N)
    <2>1. IsFiniteSet(1 .. N) /\ Cardinality(1 .. N) = N
      BY <1>1, FS_Interval
    <2> HIDE DEF rank
    <2> QED
      BY <1>4, <2>1, FS_Injection
  <1>6. \A n \in 1 .. N : pick[n] \in S /\ Cardinality(Upto(pick[n])) = n
    <2> SUFFICES ASSUME NEW n \in 1 .. N PROVE pick[n] \in S /\ Cardinality(Upto(pick[n])) = n
      OBVIOUS
    <2>1. \E i \in S : rank[i] = n
      <3> HIDE DEF rank
      <3> QED
        BY <1>5 DEF Surjection
    <2>2. \E i \in S : Cardinality(Upto(i)) = n
      BY <2>1
    <2>3. pick[n] = CHOOSE i \in S : Cardinality(Upto(i)) = n
      OBVIOUS
    <2> HIDE DEF Upto, rank
    <2> QED
      BY <2>2, <2>3
  <1>7. ASSUME NEW i \in S PROVE \E n \in 1 .. N : pick[n] = i
    <2>1. rank[i] \in 1 .. N /\ rank[i] = Cardinality(Upto(i))
      BY <1>2
    <2>2. pick[rank[i]] \in S /\ rank[pick[rank[i]]] = rank[i]
      BY <1>6, <2>1
    <2>3. pick[rank[i]] = i
      <3> HIDE DEF rank
      <3> QED
        BY <1>3, <2>2
    <2> QED
      BY <2>1, <2>3
  <1> QED
    BY <1>1, <1>6, <1>7 DEF Picks

\* The copy: the rows are of the ids that were read, and each of them has its row.
LEMMA Numbered ==
  ASSUME NEW n \in Nat, NEW S \in SUBSET (1 .. n)
  PROVE IsFiniteSet(S) /\ S \subseteq Nat
  <1>1. IsFiniteSet(1 .. n)
    BY FS_Interval
  <1>2. IsFiniteSet(S)
    BY <1>1, FS_Subset
  <1> QED
    BY <1>2

\* Rows of one kind, numbered.
LEMMA Listed ==
  ASSUME NEW n \in Nat, NEW R, NEW list, list = [i \in 1 .. n |-> list[i]], \A i \in 1 .. n : list[i] \in R
  PROVE list \in Seq(R) /\ Ids(list) = 1 .. n
  <1>1. list \in [1 .. n -> R]
    OBVIOUS
  <1> QED
    BY <1>1 DEF Ids

\* Its skills.
SkillTable(N, pick) == [n \in 1 .. N |-> SkillRow(pick[n])]
SkillsFrom(S, list) ==
  /\ list \in Seq([source : Nat, removed : BOOLEAN])
  /\ \A k \in Ids(list) : list[k].source \in S
  /\ \A s \in S : RowOf(list, s) \in Ids(list) /\ list[RowOf(list, s)].source = s
LEMMA SkillRows ==
  ASSUME NEW S, NEW N, NEW pick, Picks(S, N, pick)
  PROVE SkillsFrom(S, SkillTable(N, pick))
  <1> SUFFICES ASSUME N \in Nat, S \subseteq Nat, \A n \in 1 .. N : pick[n] \in S, \A i \in S : \E n \in 1 .. N : pick[n] = i,
                      NEW list, list = [n \in 1 .. N |-> SkillRow(pick[n])]
               PROVE SkillsFrom(S, list)
    BY Zenon DEF Picks, SkillTable
  <1>1. list = [n \in 1 .. N |-> list[n]]
    BY Zenon
  <1>2. ASSUME NEW n \in 1 .. N PROVE list[n] \in [source : Nat, removed : BOOLEAN] /\ list[n].source = pick[n]
    <2>1. list[n] = SkillRow(pick[n]) /\ pick[n] \in Nat
      OBVIOUS
    <2> QED
      BY ONLY <2>1 DEF SkillRow
  <1>3. list \in Seq([source : Nat, removed : BOOLEAN]) /\ Ids(list) = 1 .. N
    <2> DEFINE R == [source : Nat, removed : BOOLEAN]
    <2>1. \A n \in 1 .. N : list[n] \in R
      BY <1>2
    <2> HIDE DEF R
    <2>2. list \in Seq(R) /\ Ids(list) = 1 .. N
      <3>1. N \in Nat
        OBVIOUS
      <3> QED
        BY ONLY <1>1, <2>1, <3>1, Listed
    <2> QED
      BY <2>2 DEF R
  <1>4. \A k \in Ids(list) : list[k].source = pick[k]
    BY <1>2, <1>3
  <1>5. ASSUME NEW s \in S PROVE RowOf(list, s) \in Ids(list) /\ list[RowOf(list, s)].source = s
    <2>0. PICK i \in 1 .. N : pick[i] = s
      OBVIOUS
    <2>1. \E k \in Ids(list) : list[k].source = s
      BY <1>3, <1>4, <2>0
    <2> QED
      BY <2>1 DEF RowOf
  <1> QED
    BY <1>3, <1>4, <1>5 DEF SkillsFrom

\* Its outcomes.
OutcomeTable(list, N, pick) == [n \in 1 .. N |-> OutcomeRow(RowOf(list, levelOutcomes[pick[n]].skill), pick[n])]
OutcomesFrom(S, list, copies) ==
  /\ copies \in Seq([skill : Nat, source : Nat, removed : BOOLEAN, progress : {"NOT_STARTED"}])
  /\ \A k \in Ids(copies) : /\ copies[k].source \in S
                            /\ copies[k].skill = RowOf(list, levelOutcomes[copies[k].source].skill)
LEMMA OutcomeRows ==
  ASSUME NEW S, NEW N, NEW pick, Picks(S, N, pick), NEW list, \A o \in S : RowOf(list, levelOutcomes[o].skill) \in Nat
  PROVE OutcomesFrom(S, list, OutcomeTable(list, N, pick))
  <1> SUFFICES ASSUME N \in Nat, S \subseteq Nat, \A n \in 1 .. N : pick[n] \in S,
                      NEW copies, copies = [n \in 1 .. N |-> OutcomeRow(RowOf(list, levelOutcomes[pick[n]].skill), pick[n])]
               PROVE OutcomesFrom(S, list, copies)
    BY Zenon DEF Picks, OutcomeTable
  <1>1. copies = [n \in 1 .. N |-> copies[n]]
    BY Zenon
  <1>2. ASSUME NEW n \in 1 .. N
        PROVE /\ copies[n] \in [skill : Nat, source : Nat, removed : BOOLEAN, progress : {"NOT_STARTED"}]
              /\ copies[n].source = pick[n] /\ copies[n].skill = RowOf(list, levelOutcomes[pick[n]].skill)
    <2> DEFINE k == RowOf(list, levelOutcomes[pick[n]].skill)
    <2>1. copies[n] = OutcomeRow(k, pick[n]) /\ pick[n] \in Nat /\ k \in Nat
      OBVIOUS
    <2> HIDE DEF k
    <2>2. /\ copies[n] \in [skill : Nat, source : Nat, removed : BOOLEAN, progress : {"NOT_STARTED"}]
          /\ copies[n].source = pick[n] /\ copies[n].skill = k
      BY ONLY <2>1 DEF OutcomeRow
    <2> QED
      BY <2>2 DEF k
  <1>3. /\ copies \in Seq([skill : Nat, source : Nat, removed : BOOLEAN, progress : {"NOT_STARTED"}])
        /\ Ids(copies) = 1 .. N
    <2> DEFINE R == [skill : Nat, source : Nat, removed : BOOLEAN, progress : {"NOT_STARTED"}]
    <2>1. \A n \in 1 .. N : copies[n] \in R
      BY <1>2
    <2> HIDE DEF R
    <2>2. copies \in Seq(R) /\ Ids(copies) = 1 .. N
      <3>1. N \in Nat
        OBVIOUS
      <3> QED
        BY ONLY <1>1, <2>1, <3>1, Listed
    <2> QED
      BY <2>2 DEF R
  <1>4. \A k \in Ids(copies) : copies[k].source = pick[k] /\ copies[k].skill = RowOf(list, levelOutcomes[pick[k]].skill)
    BY <1>2, <1>3
  <1> QED
    BY <1>3, <1>4 DEF OutcomesFrom

\* Its content.
ContentTable(list, N, pick) == [n \in 1 .. N |-> ContentRow(RowOf(list, files[pick[n]].skill), pick[n])]
ContentFrom(S, list, copies) ==
  /\ copies \in Seq([skill : Nat, source : Nat \cup {None}, removed : BOOLEAN])
  /\ \A k \in Ids(copies) : \E f \in S : copies[k].skill = RowOf(list, files[f].skill)
LEMMA ContentRows ==
  ASSUME NEW S, NEW N, NEW pick, Picks(S, N, pick), NEW list, \A f \in S : RowOf(list, files[f].skill) \in Nat
  PROVE ContentFrom(S, list, ContentTable(list, N, pick))
  <1> SUFFICES ASSUME N \in Nat, S \subseteq Nat, \A n \in 1 .. N : pick[n] \in S,
                      NEW copies, copies = [n \in 1 .. N |-> ContentRow(RowOf(list, files[pick[n]].skill), pick[n])]
               PROVE ContentFrom(S, list, copies)
    BY Zenon DEF Picks, ContentTable
  <1>1. copies = [n \in 1 .. N |-> copies[n]]
    BY Zenon
  <1>2. ASSUME NEW n \in 1 .. N
        PROVE /\ copies[n] \in [skill : Nat, source : Nat \cup {None}, removed : BOOLEAN]
              /\ copies[n].skill = RowOf(list, files[pick[n]].skill)
    <2> DEFINE k == RowOf(list, files[pick[n]].skill)
    <2>1. copies[n] = ContentRow(k, pick[n]) /\ pick[n] \in Nat /\ k \in Nat
      OBVIOUS
    <2> HIDE DEF k
    <2>2. /\ copies[n] \in [skill : Nat, source : Nat \cup {None}, removed : BOOLEAN]
          /\ copies[n].skill = k
      BY ONLY <2>1 DEF ContentRow
    <2> QED
      BY <2>2 DEF k
  <1>3. copies \in Seq([skill : Nat, source : Nat \cup {None}, removed : BOOLEAN]) /\ Ids(copies) = 1 .. N
    <2> DEFINE R == [skill : Nat, source : Nat \cup {None}, removed : BOOLEAN]
    <2>1. \A n \in 1 .. N : copies[n] \in R
      BY <1>2
    <2> HIDE DEF R
    <2>2. copies \in Seq(R) /\ Ids(copies) = 1 .. N
      <3>1. N \in Nat
        OBVIOUS
      <3> QED
        BY ONLY <1>1, <2>1, <3>1, Listed
    <2> QED
      BY <2>2 DEF R
  <1>4. \A k \in Ids(copies) : copies[k].skill = RowOf(list, files[pick[k]].skill)
    BY <1>2, <1>3
  <1> QED
    BY <1>3, <1>4 DEF ContentFrom

\* At the start nothing has been copied.
LEMMA TreeStart == PortalInit => TreeInv
  <1> SUFFICES ASSUME NEW start \in Cases, AccountsInit(start), TreeInit(start.tree) PROVE TreeInv
    BY DEF PortalInit
  <1>1. \A c \in Callers : call[c].pc = "idle"
    BY CallsStart DEF AccountsInit, Init, Idle
  <1>2. /\ skills = start.tree.skills /\ levelOutcomes = start.tree.outcomes /\ files = start.tree.files
        /\ tree = [p \in Plans |-> None] /\ media = <<>> /\ blobs = 0
    BY DEF TreeInit
  <1>3. /\ skills \in Seq([inLevel : BOOLEAN, own : {None}]) /\ files \in Seq([skill : Ids(skills)])
        /\ levelOutcomes \in Seq([skill : Ids(skills), order : Nat, enabled : BOOLEAN, own : {None}])
        /\ \A o, n \in DOMAIN levelOutcomes : levelOutcomes[o].order = levelOutcomes[n].order => o = n
    BY <1>2, CasesAssumption DEF Ids
  <1>4. Snapshotted = {} /\ tree = [p \in Plans |-> tree[p]]
    BY <1>2 DEF Snapshotted
  <1>5. skills \in Seq(SkillEntry) /\ \A s \in Ids(skills) : skills[s].own = None
    <2> DEFINE R == [inLevel : BOOLEAN, own : {None}]
    <2>1. R \subseteq SkillEntry /\ \A x \in R : x.own = None
      BY DEF SkillEntry
    <2> HIDE DEF R
    <2>2. skills \in Seq(R)
      BY <1>3 DEF R
    <2>3. Len(skills) \in Nat /\ skills \in [1 .. Len(skills) -> R]
      BY <2>2, LenProperties
    <2>4. skills \in [1 .. Len(skills) -> SkillEntry]
      BY <2>1, <2>3
    <2>5. skills \in Seq(SkillEntry)
      BY <2>3, <2>4
    <2> QED
      BY <2>1, <2>3, <2>5 DEF Ids
  <1>6. /\ IsTable(levelOutcomes) /\ DOMAIN levelOutcomes = Ids(levelOutcomes)
        /\ \A o \in Ids(levelOutcomes) : LevelOutcome(o) /\ levelOutcomes[o].skill \in Ids(skills)
    <2> DEFINE R == [skill : Ids(skills), order : Nat, enabled : BOOLEAN, own : {None}]
    <2>1. \A x \in R : x = [skill |-> x.skill, order |-> x.order, enabled |-> x.enabled, own |-> x.own] /\ x.skill \in Ids(skills)
      OBVIOUS
    <2> HIDE DEF R
    <2>2. levelOutcomes \in Seq(R)
      BY <1>3 DEF R
    <2>3. /\ Len(levelOutcomes) \in Nat /\ levelOutcomes \in [1 .. Len(levelOutcomes) -> R]
          /\ DOMAIN levelOutcomes = 1 .. Len(levelOutcomes)
      BY <2>2, LenProperties
    <2>4. levelOutcomes = [o \in 1 .. Len(levelOutcomes) |-> levelOutcomes[o]]
      BY <2>3
    <2>5. IsTable(levelOutcomes)
      BY <2>3, <2>4, Tables
    <2> QED
      BY <2>1, <2>3, <2>5 DEF Ids, LevelOutcome
  <1>7. IsTable(files) /\ \A f \in Ids(files) : files[f].skill \in Ids(skills)
    <2> DEFINE R == [skill : Ids(skills)]
    <2>1. \A x \in R : x.skill \in Ids(skills)
      OBVIOUS
    <2> HIDE DEF R
    <2>2. \A f \in 1 .. Len(files) : files[f] \in R
      BY <1>3, ElementOfSeq DEF R
    <2>3. Len(files) \in Nat /\ files = [f \in 1 .. Len(files) |-> files[f]]
      BY <1>3, LenProperties DEF R
    <2>4. IsTable(files)
      BY <2>3, Tables
    <2> QED
      BY <2>1, <2>2, <2>4 DEF Ids
  <1>8. IsTable(media) /\ Ids(media) = {} /\ blobs \in Nat
    <2>1. media \in Seq({media[i] : i \in 1 .. Len(media)}) /\ Len(media) = 0
      BY <1>2, EmptySeq
    <2> QED
      BY <1>2, <2>1 DEF IsTable, Ids
  <1>9. TreeTables
    BY <1>3, <1>4, <1>5, <1>6, <1>7, <1>8 DEF TreeTables
  <1> QED
    BY <1>1, <1>4, <1>9 DEF TreeInv, TreeCall

\* What a call has read of growing tables stays so.
LEMMA TreeCallStays ==
  ASSUME TreeGrows, NEW x, TreeCall(x)
  PROVE TreeCall(x)'
  <1> SUFFICES ASSUME x.pc # "idle" PROVE TreeCall(x)'
    BY DEF TreeCall
  <1>1. /\ x.op = "copyTrack" => CopyKnows(x) /\ x.pc \in {"skills", "outcomes", "content", "write"}
        /\ x.op \in {"addSkill", "addOutcome"} => AddKnows(x)
        /\ x.op = "addSkill" => x.pc \in {"skill", "copy", "order", "outcome", "row"}
        /\ x.op = "addOutcome" => x.pc \in {"order", "outcome", "row"}
        /\ x.op = "addToLevel" => x.pc \in {"order", "outcome"} /\ x.arg = None /\ x.seen.skill \in Ids(skills)
        /\ x.op = "upload" => UploadKnows(x)
    BY DEF TreeCall
  <1>2. CopyKnows(x) => CopyKnows(x)'
    BY DEF CopyKnows, TreeGrows
  <1>3. AddKnows(x) => AddKnows(x)'
    BY DEF AddKnows, TreeGrows
  <1>4. UploadKnows(x) => UploadKnows(x)'
    BY DEF UploadKnows, TreeGrows
  <1>5. x.seen.skill \in Ids(skills) => (x.seen.skill \in Ids(skills))'
    BY DEF TreeGrows
  <1> QED
    BY <1>1, <1>2, <1>3, <1>4, <1>5 DEF TreeCall

\* The skills of a snapshot that gets none stay as they should be while those that add to it go on.
GoesOn(x, y) == \A p, k : Adds(x, p, k) => Adds(y, p, k) \/ (<<p, k>> \in cut \/ Teaches(p, k))'
LEMMA SkillStays ==
  ASSUME TreeInv, TreeGrows, NEW p \in Snapshotted, NEW k \in Ids(tree[p].skills),
         \A c \in Callers : GoesOn(call[c], call'[c])
  PROVE SkillOf(p, k)'
  <1> DEFINE s == tree[p].skills[k].source
  <1>1. SkillOf(p, k) /\ OutcomesOf(p)
    BY DEF TreeInv, SkillsOf
  <1>2. /\ s \in Ids(skills) /\ skills[s].own \in {None, p}
        /\ skills[s].own # None => <<p, k>> \in cut \/ Teaches(p, k) \/ \E c \in Callers : Adds(call[c], p, k)
    BY <1>1 DEF SkillOf
  <1>3. s \in Ids(skills)' /\ skills'[s] = skills[s] /\ tree'[p].skills[k].source = s
    BY <1>2 DEF TreeGrows
  <1>4. Teaches(p, k) => Teaches(p, k)'
    BY <1>1, SMTT(20) DEF Teaches, TreeGrows, OutcomesOf, OutcomeOf
  <1>5. <<p, k>> \in cut => (<<p, k>> \in cut)'
    BY DEF TreeGrows
  <1>6. (\E c \in Callers : Adds(call[c], p, k)) => (<<p, k>> \in cut \/ Teaches(p, k) \/ \E c \in Callers : Adds(call[c], p, k))'
    BY DEF GoesOn
  <1> QED
    BY <1>2, <1>3, <1>4, <1>5, <1>6 DEF SkillOf
\* All of them, where none is added.
LEMMA SkillsStay ==
  ASSUME TreeInv, TreeGrows, NEW p \in Snapshotted, Ids(tree'[p].skills) = Ids(tree[p].skills),
         \A c \in Callers : GoesOn(call[c], call'[c])
  PROVE SkillsOf(p)'
  BY SkillStays DEF SkillsOf, GoesOn

\* So do its outcomes and content.
LEMMA RowsStay ==
  ASSUME TreeInv, TreeGrows, NEW p \in Snapshotted
  PROVE /\ \A n \in Ids(tree[p].outcomes) : OutcomeOf(p, n)'
        /\ Ids(tree'[p].outcomes) = Ids(tree[p].outcomes) => OutcomesOf(p)'
        /\ Ids(tree'[p].content) = Ids(tree[p].content) => ContentOf(p)'
  <1>1. OutcomesOf(p) /\ ContentOf(p)
    BY DEF TreeInv
  <1>2. \A n \in Ids(tree[p].outcomes) : OutcomeOf(p, n)'
    BY <1>1 DEF OutcomesOf, OutcomeOf, TreeGrows
  <1> QED
    BY <1>1, <1>2 DEF OutcomesOf, ContentOf, TreeGrows

\* A step of one call that lets the tables grow.
LEMMA TreeKeeps ==
  ASSUME TreeInv, TreeGrows, TreeTables', NEW c, \A d \in Callers \ {c} : call'[d] = call[d],
         c \in Callers => TreeCall(call[c])',
         \A p \in Snapshotted' : (tree[p] \in TreeRow /\ SkillsOf(p) /\ OutcomesOf(p) /\ ContentOf(p))'
  PROVE TreeInv'
  <1>1. ASSUME NEW d \in Callers \ {c} PROVE TreeCall(call[d])'
    <2>1. PICK x : x = call[d] /\ TreeCall(x)
      BY DEF TreeInv
    <2>2. TreeCall(x)'
      BY <2>1, TreeCallStays
    <2>3. call'[d] = x
      BY <2>1
    <2> QED
      BY <2>2, <2>3
  <1>2. \A d \in Callers : TreeCall(call[d])'
    BY <1>1
  <1> QED
    BY <1>2 DEF TreeInv

\* Snapshots that are not written stay as they should be.
LEMMA SnapshotsStay ==
  ASSUME TreeInv, TreeGrows, UNCHANGED tree, NEW c, \A d \in Callers \ {c} : call'[d] = call[d],
         c \in Callers => GoesOn(call[c], call'[c])
  PROVE \A p \in Snapshotted' : (tree[p] \in TreeRow /\ SkillsOf(p) /\ OutcomesOf(p) /\ ContentOf(p))'
  <1>1. \A d \in Callers : GoesOn(call[d], call'[d])
    BY DEF GoesOn
  <1>2. ASSUME NEW p \in Snapshotted' PROVE (tree[p] \in TreeRow /\ SkillsOf(p) /\ OutcomesOf(p) /\ ContentOf(p))'
    <2>1. p \in Snapshotted /\ tree' = tree
      BY DEF Snapshotted
    <2>2. SkillsOf(p)'
      <3>1. Ids(tree'[p].skills) = Ids(tree[p].skills)
        BY <2>1
      <3> QED
        BY <1>1, <2>1, <3>1, SkillsStay DEF GoesOn
    <2>3. OutcomesOf(p)' /\ ContentOf(p)'
      BY <2>1, RowsStay
    <2>4. (tree[p] \in TreeRow)'
      BY <2>1 DEF TreeInv
    <2> QED
      BY <2>2, <2>3, <2>4
  <1> QED
    BY <1>2

\* A step that changes no table.
LEMMA TreeQuiet ==
  ASSUME TreeInv, UNCHANGED <<skills, levelOutcomes, files, tree, media, blobs>>, cut \subseteq cut',
         NEW c, \A d \in Callers \ {c} : call'[d] = call[d],
         c \in Callers => TreeCall(call[c])' /\ GoesOn(call[c], call'[c])
  PROVE TreeInv'
  <1>1. TreeGrows
    BY DEF TreeGrows, Snapshotted
  <1>2. TreeTables'
    BY DEF TreeInv, TreeTables, LevelOutcome, Snapshotted
  <1>3. \A p \in Snapshotted' : (tree[p] \in TreeRow /\ SkillsOf(p) /\ OutcomesOf(p) /\ ContentOf(p))'
    BY <1>1, SnapshotsStay DEF GoesOn
  <1> QED
    BY <1>1, <1>2, <1>3, TreeKeeps

\* A call begins.
LEMMA TreeBegins ==
  ASSUME CallsSound, TreeInv, NEW c \in Callers, NEW op, NEW pc, NEW arg, NEW seen, Begin(c, op, pc, arg, seen),
         UNCHANGED treeVars, TreeCall([op |-> op, pc |-> pc, arg |-> arg, seen |-> seen, result |-> None])
  PROVE TreeInv'
  <1>1. /\ call[c].pc = "idle"
        /\ call'[c] = [op |-> op, pc |-> pc, arg |-> arg, seen |-> seen, result |-> None]
        /\ \A d \in Callers \ {c} : call'[d] = call[d]
    BY BeginDoes DEF CallsSound
  <1>2. PICK y : y = [op |-> op, pc |-> pc, arg |-> arg, seen |-> seen, result |-> None]
    BY Zenon
  <1>3. TreeCall(y)'
    BY <1>2 DEF treeVars, TreeCall, CopyKnows, AddKnows, UploadKnows, Snapshotted
  <1>4. TreeCall(call[c])'
    <2>1. call'[c] = y
      BY <1>1, <1>2
    <2> QED
      BY <1>3, <2>1
  <1>5. GoesOn(call[c], call'[c])
    BY <1>1 DEF GoesOn, Adds
  <1> QED
    BY <1>1, <1>4, <1>5, TreeQuiet DEF treeVars

\* A call goes on, and has read.
LEMMA TreeGoesOn ==
  ASSUME CallsSound, TreeInv, NEW c \in Callers, NEW pc, NEW seen, NEW written, Goto(c, pc, seen, written),
         UNCHANGED treeVars,
         TreeCall([op |-> call[c].op, pc |-> pc, arg |-> call[c].arg, seen |-> seen, result |-> call[c].result]),
         call[c].op = "addSkill" /\ call[c].pc \in {"order", "outcome", "row"} =>
           pc \in {"order", "outcome", "row"} /\ seen.row = call[c].seen.row
  PROVE TreeInv'
  <1>1. /\ call'[c] = [op |-> call[c].op, pc |-> pc, arg |-> call[c].arg, seen |-> seen, result |-> call[c].result]
        /\ \A d \in Callers \ {c} : call'[d] = call[d]
    <2>1. /\ call'[c] = [op |-> call[c].op, pc |-> pc, arg |-> call[c].arg, seen |-> seen, result |-> call[c].result]
          /\ \A d \in Callers \ {c} : Sees(c, d, written)
      BY GotoDoes DEF CallsSound
    <2> QED
      BY <2>1 DEF Sees
  <1>2. PICK y : y = [op |-> call[c].op, pc |-> pc, arg |-> call[c].arg, seen |-> seen, result |-> call[c].result]
    BY Zenon
  <1>3. TreeCall(y)'
    <2>1. TreeCall(y)
      BY <1>2
    <2> QED
      BY <2>1 DEF treeVars, TreeCall, CopyKnows, AddKnows, UploadKnows, Snapshotted
  <1>4. TreeCall(call[c])'
    <2>1. call'[c] = y
      BY <1>1, <1>2
    <2> QED
      BY <1>3, <2>1
  <1>5. GoesOn(call[c], call'[c])
    <2>1. call'[c].op = call[c].op /\ call'[c].pc = pc /\ call'[c].arg = call[c].arg /\ call'[c].seen = seen
      BY <1>1
    <2> QED
      BY <2>1 DEF GoesOn, Adds
  <1> QED
    BY <1>1, <1>4, <1>5, TreeQuiet DEF treeVars

\* The copy begins.
LEMMA CopyTrackKeeps ==
  ASSUME CallsSound, TreeInv, NEW c \in Callers, CopyTrack(c)
  PROVE TreeInv'
  <1>1. PICK p \in Plans : Begin(c, "copyTrack", "skills", p, None) /\ UNCHANGED treeVars
    BY DEF CopyTrack
  <1>2. TreeCall([op |-> "copyTrack", pc |-> "skills", arg |-> p, seen |-> None, result |-> None])
    BY DEF TreeCall, CopyKnows
  <1> QED
    BY <1>1, <1>2, TreeBegins

\* It reads the skills.
LEMMA ReadSkillsKeeps ==
  ASSUME CallsSound, TreeInv, NEW c \in Callers, ReadSkills(c)
  PROVE TreeInv'
  <1> DEFINE S == {s \in Ids(skills) : skills[s].inLevel}
  <1>1. PICK seen : seen = [skills |-> S]
    BY Zenon
  <1>2. /\ call[c].op = "copyTrack" /\ call[c].pc = "skills" /\ UNCHANGED treeVars
        /\ Goto(c, "outcomes", seen, {})
    BY <1>1 DEF ReadSkills, At
  <1>3. call[c].arg \in Plans
    BY <1>2 DEF TreeInv, TreeCall, CopyKnows
  <1>4. S \subseteq Ids(skills) /\ \A s \in S : skills[s].own = None
    BY DEF TreeInv, TreeTables
  <1>5. seen.skills = S
    BY <1>1
  <1>6. TreeCall([op |-> call[c].op, pc |-> "outcomes", arg |-> call[c].arg, seen |-> seen, result |-> call[c].result])
    <2> HIDE DEF S
    <2> QED
      BY <1>2, <1>3, <1>4, <1>5 DEF TreeCall, CopyKnows
  <1> QED
    BY <1>2, <1>6, TreeGoesOn

\* Their outcomes.
LEMMA ReadOutcomesKeeps ==
  ASSUME CallsSound, TreeInv, NEW c \in Callers, ReadOutcomes(c)
  PROVE TreeInv'
  <1> DEFINE S == call[c].seen.skills
             O == EnabledOfSkills(S)
  <1>1. PICK seen : seen = [skills |-> S, outcomes |-> O]
    BY Zenon
  <1>2. /\ call[c].op = "copyTrack" /\ call[c].pc = "outcomes" /\ UNCHANGED treeVars
        /\ Goto(c, "content", seen, {})
    BY <1>1 DEF ReadOutcomes, At
  <1>3. /\ call[c].arg \in Plans
        /\ S \subseteq Ids(skills) /\ \A s \in S : skills[s].own = None
    BY <1>2 DEF TreeInv, TreeCall, CopyKnows
  <1>4. /\ O \subseteq Ids(levelOutcomes)
        /\ \A o \in O : o \in Ids(levelOutcomes) /\ levelOutcomes[o].enabled /\ levelOutcomes[o].skill \in S
    BY DEF EnabledOfSkills
  <1>5. seen.skills = S /\ seen.outcomes = O
    BY <1>1
  <1>6. TreeCall([op |-> call[c].op, pc |-> "content", arg |-> call[c].arg, seen |-> seen, result |-> call[c].result])
    <2> HIDE DEF S, O
    <2> QED
      BY <1>2, <1>3, <1>4, <1>5 DEF TreeCall, CopyKnows
  <1> QED
    BY <1>2, <1>6, TreeGoesOn

\* Their content.
LEMMA ReadContentKeeps ==
  ASSUME CallsSound, TreeInv, NEW c \in Callers, ReadContent(c)
  PROVE TreeInv'
  <1> DEFINE S == call[c].seen.skills
             O == call[c].seen.outcomes
             F == {f \in Ids(files) : files[f].skill \in S}
  <1>1. PICK seen : seen = [skills |-> S, outcomes |-> O, files |-> F]
    BY Zenon
  <1>2. /\ call[c].op = "copyTrack" /\ call[c].pc = "content" /\ UNCHANGED treeVars
        /\ Goto(c, "write", seen, {})
    BY <1>1 DEF ReadContent, At
  <1>3. /\ call[c].arg \in Plans
        /\ S \subseteq Ids(skills) /\ \A s \in S : skills[s].own = None
        /\ O \subseteq Ids(levelOutcomes)
        /\ \A o \in O : o \in Ids(levelOutcomes) /\ levelOutcomes[o].enabled /\ levelOutcomes[o].skill \in S
    BY <1>2 DEF TreeInv, TreeCall, CopyKnows
  <1>4. F \subseteq Ids(files) /\ \A f \in F : files[f].skill \in S
    OBVIOUS
  <1>5. seen.skills = S /\ seen.outcomes = O /\ seen.files = F
    BY <1>1
  <1>6. TreeCall([op |-> call[c].op, pc |-> "write", arg |-> call[c].arg, seen |-> seen, result |-> call[c].result])
    <2> HIDE DEF S, O, F
    <2> QED
      BY <1>2, <1>3, <1>4, <1>5 DEF TreeCall, CopyKnows
  <1> QED
    BY <1>2, <1>6, TreeGoesOn

\* A skill, an outcome or a file is added: what there is to add to is there.
LEMMA AskTreeKeeps ==
  ASSUME CallsSound, TreeInv, NEW c \in Callers, AddSkill(c) \/ AddOutcome(c) \/ AddToLevel(c) \/ Upload(c)
  PROVE TreeInv'
  <1>1. CASE AddSkill(c)
    <2>1. PICK p \in Snapshotted : Begin(c, "addSkill", "skill", p, None) /\ UNCHANGED treeVars
      BY <1>1 DEF AddSkill
    <2>2. TreeCall([op |-> "addSkill", pc |-> "skill", arg |-> p, seen |-> None, result |-> None])
      BY DEF TreeCall, AddKnows
    <2> QED
      BY <2>1, <2>2, TreeBegins
  <1>2. CASE AddOutcome(c)
    <2>0. PICK p \in Snapshotted : \E k \in Ids(tree[p].skills) :
            /\ Begin(c, "addOutcome", "order", p, [row |-> k, skill |-> tree[p].skills[k].source])
            /\ UNCHANGED treeVars
      BY <1>2 DEF AddOutcome
    <2>1. PICK k \in Ids(tree[p].skills) :
            /\ Begin(c, "addOutcome", "order", p, [row |-> k, skill |-> tree[p].skills[k].source])
            /\ UNCHANGED treeVars
      BY <2>0
    <2>2. TreeCall([op |-> "addOutcome", pc |-> "order", arg |-> p, seen |-> [row |-> k, skill |-> tree[p].skills[k].source],
                    result |-> None])
      BY DEF TreeCall, AddKnows
    <2> QED
      BY <2>1, <2>2, TreeBegins
  <1>3. CASE AddToLevel(c)
    <2>1. PICK s \in Ids(skills) : Begin(c, "addToLevel", "order", None, [row |-> 0, skill |-> s]) /\ UNCHANGED treeVars
      BY <1>3 DEF AddToLevel
    <2>2. TreeCall([op |-> "addToLevel", pc |-> "order", arg |-> None, seen |-> [row |-> 0, skill |-> s], result |-> None])
      BY DEF TreeCall
    <2> QED
      BY <2>1, <2>2, TreeBegins
  <1>4. CASE Upload(c)
    <2>0. PICK p \in Snapshotted : \E k \in Ids(tree[p].content) :
            Begin(c, "upload", "blob", [plan |-> p, content |-> k], None) /\ UNCHANGED treeVars
      BY <1>4 DEF Upload, RowIds
    <2>1. PICK k \in Ids(tree[p].content) :
            Begin(c, "upload", "blob", [plan |-> p, content |-> k], None) /\ UNCHANGED treeVars
      BY <2>0
    <2>2. TreeCall([op |-> "upload", pc |-> "blob", arg |-> [plan |-> p, content |-> k], seen |-> None, result |-> None])
      BY DEF TreeCall, UploadKnows
    <2> QED
      BY <2>1, <2>2, TreeBegins
  <1> QED
    BY <1>1, <1>2, <1>3, <1>4

\* The order of the new outcome is read.
LEMMA ReadOrderKeeps ==
  ASSUME CallsSound, TreeInv, NEW c \in Callers, ReadOrder(c)
  PROVE TreeInv'
  <1> DEFINE k == call[c].seen.row
             s == call[c].seen.skill
             n == NextOrder(levelOutcomes)
  <1>1. PICK seen : seen = [row |-> k, skill |-> s, order |-> n]
    BY Zenon
  <1>2. /\ call[c].pc = "order" /\ call[c].op \in {"addSkill", "addOutcome", "addToLevel"} /\ UNCHANGED treeVars
        /\ Goto(c, "outcome", seen, {})
    BY <1>1 DEF ReadOrder
  <1>3. TreeCall(call[c])
    BY DEF TreeInv
  <1>4. seen.row = k /\ seen.skill = s
    BY <1>1
  <1>5. TreeCall([op |-> call[c].op, pc |-> "outcome", arg |-> call[c].arg, seen |-> seen, result |-> call[c].result])
    <2> HIDE DEF n
    <2> QED
      BY <1>2, <1>3, <1>4 DEF TreeCall, AddKnows
  <1> QED
    BY <1>2, <1>4, <1>5, TreeGoesOn

\* A crash ends the call: the skill that it was adding is cut.
LEMMA CrashAddKeeps ==
  ASSUME CallsSound, TreeInv, NEW c \in Callers, CrashAdd(c)
  PROVE TreeInv'
  <1>1. /\ call'[c] = Idle /\ \A d \in Callers \ {c} : call'[d] = call[d]
    BY DEF CrashAdd, CallsSound, CallsOK
  <1>2. /\ UNCHANGED <<skills, levelOutcomes, files, tree, media, blobs>>
        /\ cut' = IF call[c].op # "addSkill" \/ call[c].pc = "copy" THEN cut ELSE cut \cup {<<call[c].arg, call[c].seen.row>>}
    BY DEF CrashAdd
  <1>3. TreeCall(call[c])'
    BY <1>1 DEF TreeCall, Idle
  <1>4. GoesOn(call[c], call'[c])
    BY <1>2 DEF GoesOn, Adds
  <1> QED
    BY <1>1, <1>2, <1>3, <1>4, TreeQuiet

\* The new skill's row in the catalogue: the plan's own.
LEMMA CreateSkillKeeps ==
  ASSUME CallsSound, TreeInv, NEW c \in Callers, CreateSkill(c)
  PROVE TreeInv'
  <1> DEFINE p == call[c].arg
             n == Len(skills) + 1
  <1>1. /\ call[c].op = "addSkill" /\ call[c].pc = "skill" /\ Goto(c, "copy", n, {})
        /\ skills' = Append(skills, [inLevel |-> FALSE, own |-> p])
        /\ UNCHANGED <<levelOutcomes, files, tree, media, blobs, cut>>
    BY DEF CreateSkill, At
  <1>2. p \in Snapshotted /\ p \in Plans
    BY <1>1 DEF TreeInv, TreeCall, AddKnows, Snapshotted
  <1>3. PICK e : e = [inLevel |-> FALSE, own |-> p]
    BY Zenon
  <1>4. e \in SkillEntry /\ e.own = p /\ e.inLevel = FALSE
    BY <1>2, <1>3 DEF SkillEntry
  <1>5. skills \in Seq(SkillEntry) /\ skills' = Append(skills, e)
    BY <1>1, <1>3 DEF TreeInv, TreeTables
  <1>6. /\ skills' \in Seq(SkillEntry) /\ Len(skills) \in Nat /\ Len(skills') = n
        /\ \A i \in 1 .. Len(skills) : skills'[i] = skills[i]
        /\ skills'[n] = e
    BY <1>4, <1>5, AppendProperties, LenProperties
  <1>7. Ids(skills)' = Ids(skills) \cup {n} /\ \A i \in Ids(skills) : skills'[i] = skills[i]
    BY <1>6 DEF Ids
  <1>8. TreeGrows
    <2>1. Snapshotted' = Snapshotted /\ Ids(skills) \subseteq Ids(skills')
      BY <1>1, <1>7 DEF Snapshotted
    <2> QED
      BY <1>1, <1>7, <2>1 DEF TreeGrows
  <1>9. TreeTables'
    <2>1. TreeTables /\ Snapshotted' = Snapshotted
      BY <1>1 DEF TreeInv, Snapshotted
    <2>2. \A s \in Ids(skills)' : skills'[s].inLevel => skills'[s].own = None
      BY <1>4, <1>6, <1>7, <2>1 DEF TreeTables
    <2> QED
      BY <1>1, <1>6, <1>7, <2>1, <2>2 DEF TreeTables, LevelOutcome
  <1>10. /\ call'[c] = [op |-> call[c].op, pc |-> "copy", arg |-> p, seen |-> n, result |-> call[c].result]
         /\ \A d \in Callers \ {c} : Sees(c, d, {})
    BY <1>1, GotoDoes DEF CallsSound
  <1>11. call'[c].op = "addSkill" /\ call'[c].pc = "copy" /\ call'[c].arg = p /\ call'[c].seen = n
    BY <1>1, <1>10
  <1>12. TreeCall(call[c])'
    <2>1. n \in Ids(skills') /\ skills'[n].own = p /\ p \in Snapshotted'
      BY <1>1, <1>2, <1>4, <1>6, <1>7 DEF Snapshotted
    <2> QED
      BY <1>11, <2>1 DEF TreeCall, AddKnows
  <1>13. GoesOn(call[c], call'[c])
    BY <1>1 DEF GoesOn, Adds
  <1>14. \A q \in Snapshotted' : (tree[q] \in TreeRow /\ SkillsOf(q) /\ OutcomesOf(q) /\ ContentOf(q))'
    BY <1>1, <1>8, <1>10, <1>13, SnapshotsStay DEF Sees
  <1> QED
    BY <1>8, <1>9, <1>10, <1>12, <1>14, TreeKeeps DEF Sees

\* A step of no call.
LEMMA TreeBeside ==
  ASSUME TreeInv, TreeGrows, TreeTables', call' = call,
         \A p \in Snapshotted' : (tree[p] \in TreeRow /\ SkillsOf(p) /\ OutcomesOf(p) /\ ContentOf(p))'
  PROVE TreeInv'
  <1>1. ASSUME NEW c \in Callers PROVE TreeCall(call[c])'
    <2>1. PICK x : x = call[c] /\ TreeCall(x)
      BY DEF TreeInv
    <2>2. TreeCall(x)'
      BY <2>1, TreeCallStays
    <2>3. call'[c] = x
      BY <2>1
    <2> QED
      BY <2>2, <2>3
  <1>2. \A c \in Callers : TreeCall(call[c])'
    BY <1>1
  <1> QED
    BY <1>2 DEF TreeInv

\* An outcome is enabled.
LEMMA PublishKeeps ==
  ASSUME CallsSound, TreeInv, NEW c \in Callers, Publish(c)
  PROVE TreeInv'
  <1>1. PICK o \in Ids(levelOutcomes) :
          /\ levelOutcomes' = [levelOutcomes EXCEPT ![o].enabled = TRUE]
          /\ UNCHANGED <<skills, files, tree, media, blobs, cut>> /\ Atomically(c, "publish", {})
    BY DEF Publish
  <1>2. call' = call
    BY <1>1 DEF Atomically
  <1>3. TreeTables /\ Snapshotted' = Snapshotted
    BY <1>1 DEF TreeInv, Snapshotted
  <1>4. Len(levelOutcomes) \in Nat /\ levelOutcomes = [i \in Ids(levelOutcomes) |-> levelOutcomes[i]]
    BY <1>3, Appended DEF TreeTables, Ids
  <1>5. PICK e : e = [levelOutcomes[o] EXCEPT !.enabled = TRUE]
    BY Zenon
  <1>6. e = [skill |-> levelOutcomes[o].skill, order |-> levelOutcomes[o].order, enabled |-> TRUE, own |-> levelOutcomes[o].own]
    <2>1. LevelOutcome(o)
      BY <1>3 DEF TreeTables
    <2>2. levelOutcomes[o] \in [skill : {levelOutcomes[o].skill}, order : {levelOutcomes[o].order},
                                enabled : {levelOutcomes[o].enabled}, own : {levelOutcomes[o].own}]
      BY <2>1 DEF LevelOutcome
    <2> QED
      BY <1>5, <2>2
  <1>7. /\ e.skill = levelOutcomes[o].skill /\ e.order = levelOutcomes[o].order /\ e.enabled = TRUE
        /\ e.own = levelOutcomes[o].own
        /\ e = [skill |-> e.skill, order |-> e.order, enabled |-> e.enabled, own |-> e.own]
    BY <1>6
  <1>8. levelOutcomes' = [i \in Ids(levelOutcomes) |-> IF i = o THEN e ELSE levelOutcomes[i]]
    BY <1>1, <1>4, <1>5
  <1>9. levelOutcomes'[o] = e /\ \A i \in Ids(levelOutcomes) : i # o => levelOutcomes'[i] = levelOutcomes[i]
    BY <1>8
  <1>10. IsTable(levelOutcomes)' /\ Ids(levelOutcomes)' = Ids(levelOutcomes)
    <2>1. levelOutcomes' = [i \in 1 .. Len(levelOutcomes) |-> levelOutcomes'[i]]
      BY <1>8 DEF Ids
    <2>2. IsTable(levelOutcomes') /\ Ids(levelOutcomes') = 1 .. Len(levelOutcomes)
      BY <1>4, <2>1, Tables
    <2> QED
      BY <2>2 DEF Ids
  <1>11. \A i \in Ids(levelOutcomes) : /\ levelOutcomes'[i].skill = levelOutcomes[i].skill
                                       /\ levelOutcomes'[i].own = levelOutcomes[i].own
                                       /\ levelOutcomes'[i].order = levelOutcomes[i].order
                                       /\ levelOutcomes[i].enabled => levelOutcomes'[i].enabled
    BY <1>7, <1>9
  <1>12. TreeGrows
    BY <1>1, <1>3, <1>10, <1>11 DEF TreeGrows
  <1>13. TreeTables'
    <2>1. \A i \in Ids(levelOutcomes)' : LevelOutcome(i)' /\ (levelOutcomes[i].skill \in Ids(skills))'
      <3> SUFFICES ASSUME NEW i \in Ids(levelOutcomes) PROVE LevelOutcome(i)' /\ (levelOutcomes[i].skill \in Ids(skills))'
        BY <1>10
      <3>1. (levelOutcomes[i].skill \in Ids(skills))'
        BY <1>1, <1>3, <1>11 DEF TreeTables
      <3>2. CASE i = o
        BY <1>7, <1>9, <3>1, <3>2 DEF LevelOutcome
      <3>3. CASE i # o
        BY <1>3, <1>9, <3>1, <3>3 DEF LevelOutcome, TreeTables
      <3> QED
        BY <3>2, <3>3
    <2>2. \A i, n \in Ids(levelOutcomes)' : levelOutcomes'[i].order = levelOutcomes'[n].order => i = n
      BY <1>3, <1>10, <1>11 DEF TreeTables
    <2> QED
      BY <1>1, <1>3, <1>10, <2>1, <2>2 DEF TreeTables
  <1>14. \A p \in Snapshotted' : (tree[p] \in TreeRow /\ SkillsOf(p) /\ OutcomesOf(p) /\ ContentOf(p))'
    BY <1>1, <1>2, <1>12, SnapshotsStay DEF GoesOn
  <1> QED
    BY <1>2, <1>12, <1>13, <1>14, TreeBeside

\* The new outcome's row in the catalogue, unless its order is taken: then the call ends half way.
LEMMA CreateOutcomeKeeps ==
  ASSUME CallsSound, TreeInv, NEW c \in Callers, CreateOutcome(c)
  PROVE TreeInv'
  <1> DEFINE p == call[c].arg
             seen == call[c].seen
             n == Len(levelOutcomes) + 1
  <1>0. call[c].pc = "outcome" /\ call[c].op \in {"addSkill", "addOutcome", "addToLevel"} /\ TreeCall(call[c])
    BY DEF CreateOutcome, TreeInv
  <1>1. CASE \E o \in Ids(levelOutcomes) : levelOutcomes[o].order = seen.order
    <2>1. /\ End(c, "clash", {}) /\ UNCHANGED <<skills, levelOutcomes, files, tree, media, blobs>>
          /\ cut' = IF call[c].op # "addSkill" THEN cut ELSE cut \cup {<<p, seen.row>>}
      BY <1>1 DEF CreateOutcome
    <2>2. call'[c].pc = "idle" /\ \A d \in Callers \ {c} : call'[d] = call[d]
      BY <2>1, EndDoes DEF CallsSound, Sees
    <2>3. TreeCall(call[c])'
      BY <2>2 DEF TreeCall
    <2>4. GoesOn(call[c], call'[c])
      BY <2>1 DEF GoesOn, Adds
    <2> QED
      BY <2>1, <2>2, <2>3, <2>4, TreeQuiet
  <1>2. CASE ~ \E o \in Ids(levelOutcomes) : levelOutcomes[o].order = seen.order
    <2>1. PICK e : e = [skill |-> seen.skill, order |-> seen.order, enabled |-> p = None, own |-> p]
      BY Zenon
    <2>2. /\ levelOutcomes' = Append(levelOutcomes, e) /\ UNCHANGED <<skills, files, tree, media, blobs, cut>>
          /\ IF p = None THEN End(c, None, {}) ELSE Goto(c, "row", [row |-> seen.row, outcome |-> n], {})
      BY <1>2, <2>1 DEF CreateOutcome
    <2>3. /\ e.skill = seen.skill /\ e.order = seen.order /\ e.own = p
          /\ e = [skill |-> e.skill, order |-> e.order, enabled |-> e.enabled, own |-> e.own]
      BY <2>1
    <2>4. TreeTables /\ Snapshotted' = Snapshotted
      BY <2>2 DEF TreeInv, Snapshotted
    <2>5. /\ IsTable(levelOutcomes)' /\ Ids(levelOutcomes)' = Ids(levelOutcomes) \cup {n} /\ n \notin Ids(levelOutcomes)
          /\ \A i \in Ids(levelOutcomes) : levelOutcomes'[i] = levelOutcomes[i]
          /\ levelOutcomes'[n] = e
      <3>1. IsTable(levelOutcomes)
        BY <2>4 DEF TreeTables
      <3>2. /\ IsTable(Append(levelOutcomes, e)) /\ Ids(Append(levelOutcomes, e)) = Ids(levelOutcomes) \cup {n}
            /\ n \notin Ids(levelOutcomes)
            /\ \A i \in Ids(levelOutcomes) : Append(levelOutcomes, e)[i] = levelOutcomes[i]
            /\ Append(levelOutcomes, e)[n] = e
        BY <3>1, Appended
      <3> QED
        BY <2>2, <3>2
    <2>6. seen.skill \in Ids(skills)
      <3>1. call[c].op = "addToLevel" => seen.skill \in Ids(skills)
        BY <1>0 DEF TreeCall
      <3>2. call[c].op # "addToLevel" => /\ p \in Snapshotted /\ seen.row \in Ids(tree[p].skills)
                                         /\ seen.skill = tree[p].skills[seen.row].source
        BY <1>0 DEF TreeCall, AddKnows
      <3> QED
        BY <3>1, <3>2 DEF TreeInv, SkillsOf, SkillOf
    <2>7. TreeGrows
      BY <2>2, <2>4, <2>5 DEF TreeGrows
    <2>8. TreeTables'
      <3>1. \A i \in Ids(levelOutcomes)' : LevelOutcome(i)' /\ (levelOutcomes[i].skill \in Ids(skills))'
        <4> SUFFICES ASSUME NEW i \in Ids(levelOutcomes) \cup {n}
                     PROVE LevelOutcome(i)' /\ (levelOutcomes[i].skill \in Ids(skills))'
          BY <2>5
        <4>1. CASE i = n
          BY <2>2, <2>3, <2>5, <2>6, <4>1 DEF LevelOutcome
        <4>2. CASE i \in Ids(levelOutcomes)
          BY <2>2, <2>4, <2>5, <4>2 DEF LevelOutcome, TreeTables
        <4> QED
          BY <4>1, <4>2
      <3>2. \A i, k \in Ids(levelOutcomes)' : levelOutcomes'[i].order = levelOutcomes'[k].order => i = k
        BY <1>2, <2>3, <2>4, <2>5 DEF TreeTables
      <3> QED
        BY <2>2, <2>4, <2>5, <3>1, <3>2 DEF TreeTables
    <2>9. CASE p = None
      <3>1. call'[c].pc = "idle" /\ \A d \in Callers \ {c} : call'[d] = call[d]
        BY <2>2, <2>9, EndDoes DEF CallsSound, Sees
      <3>2. TreeCall(call[c])'
        BY <3>1 DEF TreeCall
      <3>3. GoesOn(call[c], call'[c])
        <4>1. call[c].op = "addSkill" => p \in Plans
          BY <1>0 DEF TreeCall, AddKnows, Snapshotted
        <4>2. call[c].op # "addSkill"
          BY <2>9, <4>1, IdsAssumption
        <4> QED
          BY <4>2 DEF GoesOn, Adds
      <3>4. \A q \in Snapshotted' : (tree[q] \in TreeRow /\ SkillsOf(q) /\ OutcomesOf(q) /\ ContentOf(q))'
        BY <2>2, <2>7, <3>1, <3>3, SnapshotsStay
      <3> QED
        BY <2>7, <2>8, <3>1, <3>2, <3>4, TreeKeeps
    <2>10. CASE p # None
      <3>0. PICK now : now = [row |-> seen.row, outcome |-> n]
        BY Zenon
      <3>1. /\ call'[c] = [op |-> call[c].op, pc |-> "row", arg |-> p, seen |-> now, result |-> call[c].result]
            /\ \A d \in Callers \ {c} : Sees(c, d, {})
        <4>1. Goto(c, "row", now, {})
          BY <2>2, <2>10, <3>0
        <4> QED
          BY <4>1, GotoDoes DEF CallsSound
      <3>2. /\ call'[c].op = call[c].op /\ call'[c].pc = "row" /\ call'[c].arg = p /\ call'[c].seen = now
            /\ now.row = seen.row /\ now.outcome = n
        BY <3>0, <3>1
      <3>3. call[c].op \in {"addSkill", "addOutcome"}
        BY <1>0, <2>10 DEF TreeCall
      <3>4. p \in Snapshotted /\ seen.row \in Ids(tree[p].skills) /\ seen.skill = tree[p].skills[seen.row].source
        BY <1>0, <3>3 DEF TreeCall, AddKnows
      <3>5. TreeCall(call[c])'
        <4>1. /\ p \in Snapshotted' /\ tree' = tree /\ n \in Ids(levelOutcomes') /\ levelOutcomes'[n].own = p
              /\ levelOutcomes'[n].skill = seen.skill
          BY <2>2, <2>3, <2>4, <2>5, <3>4
        <4> QED
          BY <3>2, <3>3, <3>4, <4>1 DEF TreeCall, AddKnows
      <3>6. GoesOn(call[c], call'[c])
        BY <3>2 DEF GoesOn, Adds
      <3>7. \A q \in Snapshotted' : (tree[q] \in TreeRow /\ SkillsOf(q) /\ OutcomesOf(q) /\ ContentOf(q))'
        BY <2>2, <2>7, <3>1, <3>6, SnapshotsStay DEF Sees
      <3> QED
        BY <2>7, <2>8, <3>1, <3>5, <3>7, TreeKeeps DEF Sees
    <2> QED
      BY <2>9, <2>10
  <1> QED
    BY <1>1, <1>2

\* A file is stored, and then its row.
LEMMA PutBlobKeeps ==
  ASSUME CallsSound, TreeInv, NEW c \in Callers, PutBlob(c)
  PROVE TreeInv'
  <1>1. /\ call[c].op = "upload" /\ call[c].pc = "blob" /\ blobs' = blobs + 1 /\ Goto(c, "row", blobs + 1, {})
        /\ UNCHANGED <<skills, levelOutcomes, files, tree, media, cut>>
    BY DEF PutBlob, At
  <1>2. TreeTables /\ Snapshotted' = Snapshotted /\ blobs \in Nat
    BY <1>1 DEF TreeInv, TreeTables, Snapshotted
  <1>3. TreeGrows
    BY <1>1, <1>2 DEF TreeGrows
  <1>4. TreeTables'
    BY <1>1, <1>2 DEF TreeTables, LevelOutcome
  <1>5. /\ call'[c] = [op |-> call[c].op, pc |-> "row", arg |-> call[c].arg, seen |-> blobs + 1, result |-> call[c].result]
        /\ \A d \in Callers \ {c} : Sees(c, d, {})
    BY <1>1, GotoDoes DEF CallsSound
  <1>6. call'[c].op = "upload" /\ call'[c].pc = "row" /\ call'[c].arg = call[c].arg /\ call'[c].seen = blobs + 1
    BY <1>1, <1>5
  <1>7. TreeCall(call[c])'
    <2>1. UploadKnows(call[c])
      BY <1>1 DEF TreeInv, TreeCall
    <2> QED
      BY <1>1, <1>2, <1>6, <2>1 DEF TreeCall, UploadKnows
  <1>8. GoesOn(call[c], call'[c])
    BY <1>1 DEF GoesOn, Adds
  <1>9. \A q \in Snapshotted' : (tree[q] \in TreeRow /\ SkillsOf(q) /\ OutcomesOf(q) /\ ContentOf(q))'
    BY <1>1, <1>3, <1>5, <1>8, SnapshotsStay DEF Sees
  <1> QED
    BY <1>3, <1>4, <1>5, <1>7, <1>9, TreeKeeps DEF Sees

\* The row of a file.
LEMMA CreateMediaKeeps ==
  ASSUME CallsSound, TreeInv, NEW c \in Callers, CreateMedia(c)
  PROVE TreeInv'
  <1>1. PICK e : e = [plan |-> call[c].arg.plan, content |-> call[c].arg.content, blob |-> call[c].seen]
    BY Zenon
  <1>2. /\ call[c].op = "upload" /\ call[c].pc = "row" /\ media' = Append(media, e) /\ End(c, None, {})
        /\ UNCHANGED <<skills, levelOutcomes, files, tree, blobs, cut>>
    BY <1>1 DEF CreateMedia, At
  <1>3. TreeTables /\ Snapshotted' = Snapshotted
    BY <1>2 DEF TreeInv, Snapshotted
  <1>4. UploadKnows(call[c])
    BY <1>2 DEF TreeInv, TreeCall
  <1>5. /\ e.plan \in Snapshotted /\ e.content \in Ids(tree[e.plan].content) /\ e.blob \in Nat /\ e.blob <= blobs
    BY <1>1, <1>2, <1>4 DEF UploadKnows
  <1>6. /\ IsTable(media)' /\ Ids(media)' = Ids(media) \cup {Len(media) + 1}
        /\ \A i \in Ids(media) : media'[i] = media[i]
        /\ media'[Len(media) + 1] = e
    <2>1. IsTable(media)
      BY <1>3 DEF TreeTables
    <2>2. /\ IsTable(Append(media, e)) /\ Ids(Append(media, e)) = Ids(media) \cup {Len(media) + 1}
          /\ \A i \in Ids(media) : Append(media, e)[i] = media[i]
          /\ Append(media, e)[Len(media) + 1] = e
      BY <2>1, Appended
    <2> QED
      BY <1>2, <2>2
  <1>7. TreeGrows
    BY <1>2, <1>3 DEF TreeGrows
  <1>8. TreeTables'
    <2>1. \A m \in Ids(media)' : /\ media'[m].blob \in Nat /\ media'[m].blob <= blobs /\ media'[m].plan \in Snapshotted
                                 /\ media'[m].content \in Ids(tree[media'[m].plan].content)
      BY <1>3, <1>5, <1>6 DEF TreeTables
    <2> QED
      BY <1>2, <1>3, <1>6, <2>1 DEF TreeTables, LevelOutcome
  <1>9. call'[c].pc = "idle" /\ \A d \in Callers \ {c} : call'[d] = call[d]
    BY <1>2, EndDoes DEF CallsSound, Sees
  <1>10. TreeCall(call[c])'
    BY <1>9 DEF TreeCall
  <1>11. GoesOn(call[c], call'[c])
    BY <1>2 DEF GoesOn, Adds
  <1>12. \A q \in Snapshotted' : (tree[q] \in TreeRow /\ SkillsOf(q) /\ OutcomesOf(q) /\ ContentOf(q))'
    BY <1>2, <1>7, <1>9, <1>11, SnapshotsStay
  <1> QED
    BY <1>7, <1>8, <1>9, <1>10, <1>12, TreeKeeps

\* A snapshot is written: what was in it stays.
Extends(row, old) ==
  /\ Ids(old.skills) \subseteq Ids(row.skills) /\ \A k \in Ids(old.skills) : row.skills[k].source = old.skills[k].source
  /\ Ids(old.outcomes) \subseteq Ids(row.outcomes)
  /\ \A k \in Ids(old.outcomes) : /\ row.outcomes[k].skill = old.outcomes[k].skill
                                  /\ row.outcomes[k].source = old.outcomes[k].source
  /\ Ids(old.content) \subseteq Ids(row.content) /\ \A k \in Ids(old.content) : row.content[k].skill = old.content[k].skill
LEMMA TreeReplaced ==
  ASSUME TreeInv, NEW p \in Plans, NEW row \in TreeRow, p \in Snapshotted => Extends(row, tree[p]),
         tree' = [tree EXCEPT ![p] = row], UNCHANGED <<skills, levelOutcomes, files, media, blobs, cut>>
  PROVE /\ TreeGrows /\ TreeTables' /\ tree'[p] = row /\ p \in Snapshotted' /\ Snapshotted' = Snapshotted \cup {p}
        /\ \A q \in Snapshotted \ {p} : tree'[q] = tree[q]
  <1>1. TreeTables
    BY DEF TreeInv
  <1>2. tree' = [q \in Plans |-> IF q = p THEN row ELSE tree[q]]
    BY <1>1 DEF TreeTables
  <1>3. row # None
    BY IdsAssumption
  <1>4. /\ tree'[p] = row /\ p \in Snapshotted' /\ Snapshotted' = Snapshotted \cup {p}
        /\ \A q \in Snapshotted \ {p} : tree'[q] = tree[q]
    BY <1>2, <1>3 DEF Snapshotted
  <1>5. TreeGrows
    <2>1. ASSUME NEW q \in Snapshotted
          PROVE /\ q \in Snapshotted'
                /\ Ids(tree[q].skills) \subseteq Ids(tree'[q].skills)
                /\ \A k \in Ids(tree[q].skills) : tree'[q].skills[k].source = tree[q].skills[k].source
                /\ Ids(tree[q].outcomes) \subseteq Ids(tree'[q].outcomes)
                /\ \A n \in Ids(tree[q].outcomes) : /\ tree'[q].outcomes[n].skill = tree[q].outcomes[n].skill
                                                    /\ tree'[q].outcomes[n].source = tree[q].outcomes[n].source
                /\ Ids(tree[q].content) \subseteq Ids(tree'[q].content)
                /\ \A n \in Ids(tree[q].content) : tree'[q].content[n].skill = tree[q].content[n].skill
      <3>1. CASE q = p
        BY <1>4, <2>1, <3>1 DEF Extends
      <3>2. CASE q # p
        BY <1>4, <2>1, <3>2
      <3> QED
        BY <3>1, <3>2
    <2> QED
      BY <2>1 DEF TreeGrows
  <1>6. TreeTables'
    <2>1. \A m \in Ids(media)' : /\ media'[m].blob \in Nat /\ media'[m].blob <= blobs' /\ media'[m].plan \in Snapshotted'
                                 /\ media'[m].content \in Ids(tree'[media[m].plan].content)
      BY <1>1, <1>5 DEF TreeTables, TreeGrows
    <2>2. tree' = [q \in Plans |-> tree'[q]]
      BY <1>2
    <2> QED
      BY <1>1, <2>1, <2>2 DEF TreeTables, LevelOutcome
  <1> QED
    BY <1>4, <1>5, <1>6

\* The other snapshots stay as they should be.
LEMMA OtherSnapshots ==
  ASSUME TreeInv, TreeGrows, NEW p, \A q \in Snapshotted \ {p} : tree'[q] = tree[q],
         NEW c, \A d \in Callers \ {c} : call'[d] = call[d], c \in Callers => GoesOn(call[c], call'[c])
  PROVE \A q \in Snapshotted \ {p} : (tree[q] \in TreeRow /\ SkillsOf(q) /\ OutcomesOf(q) /\ ContentOf(q))'
  <1>1. \A d \in Callers : GoesOn(call[d], call'[d])
    BY DEF GoesOn
  <1>2. ASSUME NEW q \in Snapshotted \ {p} PROVE (tree[q] \in TreeRow /\ SkillsOf(q) /\ OutcomesOf(q) /\ ContentOf(q))'
    <2>1. q \in Snapshotted /\ tree'[q] = tree[q]
      OBVIOUS
    <2>2. SkillsOf(q)'
      <3>1. Ids(tree'[q].skills) = Ids(tree[q].skills)
        BY <2>1
      <3> QED
        BY <1>1, <2>1, <3>1, SkillsStay DEF GoesOn
    <2>3. OutcomesOf(q)' /\ ContentOf(q)'
      BY <2>1, RowsStay
    <2>4. (tree[q] \in TreeRow)'
      BY <2>1 DEF TreeInv
    <2> QED
      BY <2>2, <2>3, <2>4
  <1> QED
    BY <1>2

\* A row is marked as removed: it keeps its place and its source.
WithRow(s, k, r) == [s EXCEPT ![k] = r]
LEMMA MarkedRow ==
  ASSUME NEW R, NEW s \in Seq(R), NEW k \in Ids(s), NEW r \in R
  PROVE /\ WithRow(s, k, r) \in Seq(R) /\ Ids(WithRow(s, k, r)) = Ids(s)
        /\ \A i \in Ids(s) : WithRow(s, k, r)[i] = IF i = k THEN r ELSE s[i]
  <1> DEFINE z == WithRow(s, k, r)
  <1>1. Len(s) \in Nat /\ s \in [1 .. Len(s) -> R]
    BY LenProperties
  <1>2. z = [i \in 1 .. Len(s) |-> IF i = k THEN r ELSE s[i]]
    BY <1>1 DEF WithRow
  <1>3. z \in [1 .. Len(s) -> R]
    BY <1>1, <1>2
  <1>4. z \in Seq(R) /\ Len(z) = Len(s)
    BY <1>1, <1>3
  <1> QED
    BY <1>2, <1>4 DEF Ids

\* A snapshot with a row marked.
Mark(t, kind, k) == [t EXCEPT ![kind][k].removed = TRUE]
SameIds(y, t) == Ids(y.skills) = Ids(t.skills) /\ Ids(y.outcomes) = Ids(t.outcomes) /\ Ids(y.content) = Ids(t.content)
LEMMA Marked ==
  ASSUME NEW t \in TreeRow, NEW kind \in {"skills", "outcomes", "content"}, NEW k \in Ids(t[kind])
  PROVE Mark(t, kind, k) \in TreeRow /\ Extends(Mark(t, kind, k), t) /\ SameIds(Mark(t, kind, k), t)
  <1> DEFINE S == [source : Nat, removed : BOOLEAN]
             O == [skill : Nat, source : Nat, removed : BOOLEAN, progress : {"NOT_STARTED"}]
             C == [skill : Nat, source : Nat \cup {None}, removed : BOOLEAN]
  <1>4. PICK y : y = Mark(t, kind, k)
    BY Zenon
  <1> SUFFICES y \in TreeRow /\ Extends(y, t) /\ SameIds(y, t)
    BY <1>4, Zenon
  <1>0. t \in [skills : Seq(S), outcomes : Seq(O), content : Seq(C)]
    BY DEF TreeRow
  <1>1. CASE kind = "skills"
    <2>1. PICK r : r = [t.skills[k] EXCEPT !.removed = TRUE]
      BY Zenon
    <2>2. PICK z : z = WithRow(t.skills, k, r)
      BY Zenon
    <2>3. t.skills \in Seq(S) /\ k \in Ids(t.skills)
      BY <1>0, <1>1
    <2>4. t.skills[k] \in S
      BY <2>3, ElementOfSeq DEF Ids
    <2>5. r \in S /\ r.source = t.skills[k].source
      BY <2>1, <2>4
    <2>6. z \in Seq(S) /\ Ids(z) = Ids(t.skills) /\ \A i \in Ids(t.skills) : z[i].source = t.skills[i].source
      <3> HIDE DEF S
      <3>1. z \in Seq(S) /\ Ids(z) = Ids(t.skills) /\ \A i \in Ids(t.skills) : z[i] = IF i = k THEN r ELSE t.skills[i]
        <4>1. PICK s : s = t.skills
          BY Zenon
        <4>2. s \in Seq(S) /\ k \in Ids(s) /\ r \in S
          BY <2>3, <2>5, <4>1
        <4>3. /\ WithRow(s, k, r) \in Seq(S) /\ Ids(WithRow(s, k, r)) = Ids(s)
              /\ \A i \in Ids(s) : WithRow(s, k, r)[i] = IF i = k THEN r ELSE s[i]
          BY ONLY <4>2, MarkedRow
        <4> QED
          BY <2>2, <4>1, <4>3
      <3> QED
        BY <2>5, <3>1
    <2>7. y = [t EXCEPT !.skills = z]
      BY <1>1, <1>4, <2>1, <2>2 DEF WithRow, Mark
    <2>8. y.skills = z /\ y.outcomes = t.outcomes /\ y.content = t.content /\ y \in TreeRow
      <3> HIDE DEF S, O, C
      <3>1. y \in [skills : Seq(S), outcomes : Seq(O), content : Seq(C)] /\ y.skills = z /\ y.outcomes = t.outcomes /\ y.content = t.content
        BY <1>0, <2>6, <2>7
      <3> QED
        BY <3>1 DEF TreeRow, S, O, C
    <2> QED
      BY <2>6, <2>8 DEF Extends, SameIds
  <1>2. CASE kind = "outcomes"
    <2>1. PICK r : r = [t.outcomes[k] EXCEPT !.removed = TRUE]
      BY Zenon
    <2>2. PICK z : z = WithRow(t.outcomes, k, r)
      BY Zenon
    <2>3. t.outcomes \in Seq(O) /\ k \in Ids(t.outcomes)
      BY <1>0, <1>2
    <2>4. t.outcomes[k] \in O
      BY <2>3, ElementOfSeq DEF Ids
    <2>5. r \in O /\ r.source = t.outcomes[k].source /\ r.skill = t.outcomes[k].skill
      BY <2>1, <2>4
    <2>6. /\ z \in Seq(O) /\ Ids(z) = Ids(t.outcomes)
          /\ \A i \in Ids(t.outcomes) : z[i].source = t.outcomes[i].source /\ z[i].skill = t.outcomes[i].skill
      <3> HIDE DEF O
      <3>1. z \in Seq(O) /\ Ids(z) = Ids(t.outcomes) /\ \A i \in Ids(t.outcomes) : z[i] = IF i = k THEN r ELSE t.outcomes[i]
        <4>1. PICK s : s = t.outcomes
          BY Zenon
        <4>2. s \in Seq(O) /\ k \in Ids(s) /\ r \in O
          BY <2>3, <2>5, <4>1
        <4>3. /\ WithRow(s, k, r) \in Seq(O) /\ Ids(WithRow(s, k, r)) = Ids(s)
              /\ \A i \in Ids(s) : WithRow(s, k, r)[i] = IF i = k THEN r ELSE s[i]
          BY ONLY <4>2, MarkedRow
        <4> QED
          BY <2>2, <4>1, <4>3
      <3> QED
        BY <2>5, <3>1
    <2>7. y = [t EXCEPT !.outcomes = z]
      BY <1>2, <1>4, <2>1, <2>2 DEF WithRow, Mark
    <2>8. y.skills = t.skills /\ y.outcomes = z /\ y.content = t.content /\ y \in TreeRow
      <3> HIDE DEF S, O, C
      <3>1. y \in [skills : Seq(S), outcomes : Seq(O), content : Seq(C)] /\ y.skills = t.skills /\ y.outcomes = z /\ y.content = t.content
        BY <1>0, <2>6, <2>7
      <3> QED
        BY <3>1 DEF TreeRow, S, O, C
    <2> QED
      BY <2>6, <2>8 DEF Extends, SameIds
  <1>3. CASE kind = "content"
    <2>1. PICK r : r = [t.content[k] EXCEPT !.removed = TRUE]
      BY Zenon
    <2>2. PICK z : z = WithRow(t.content, k, r)
      BY Zenon
    <2>3. t.content \in Seq(C) /\ k \in Ids(t.content)
      BY <1>0, <1>3
    <2>4. t.content[k] \in C
      BY <2>3, ElementOfSeq DEF Ids
    <2>5. r \in C /\ r.skill = t.content[k].skill
      BY <2>1, <2>4
    <2>6. z \in Seq(C) /\ Ids(z) = Ids(t.content) /\ \A i \in Ids(t.content) : z[i].skill = t.content[i].skill
      <3> HIDE DEF C
      <3>1. z \in Seq(C) /\ Ids(z) = Ids(t.content) /\ \A i \in Ids(t.content) : z[i] = IF i = k THEN r ELSE t.content[i]
        <4>1. PICK s : s = t.content
          BY Zenon
        <4>2. s \in Seq(C) /\ k \in Ids(s) /\ r \in C
          BY <2>3, <2>5, <4>1
        <4>3. /\ WithRow(s, k, r) \in Seq(C) /\ Ids(WithRow(s, k, r)) = Ids(s)
              /\ \A i \in Ids(s) : WithRow(s, k, r)[i] = IF i = k THEN r ELSE s[i]
          BY ONLY <4>2, MarkedRow
        <4> QED
          BY <2>2, <4>1, <4>3
      <3> QED
        BY <2>5, <3>1
    <2>7. y = [t EXCEPT !.content = z]
      BY <1>3, <1>4, <2>1, <2>2 DEF WithRow, Mark
    <2>8. y.skills = t.skills /\ y.outcomes = t.outcomes /\ y.content = z /\ y \in TreeRow
      <3> HIDE DEF S, O, C
      <3>1. y \in [skills : Seq(S), outcomes : Seq(O), content : Seq(C)] /\ y.skills = t.skills /\ y.outcomes = t.outcomes /\ y.content = z
        BY <1>0, <2>6, <2>7
      <3> QED
        BY <3>1 DEF TreeRow, S, O, C
    <2> QED
      BY <2>6, <2>8 DEF Extends, SameIds
  <1> QED
    BY <1>1, <1>2, <1>3

\* A snapshot is marked: no call is concerned.
LEMMA MarkRemovedKeeps ==
  ASSUME CallsSound, TreeInv, NEW c \in Callers, NEW op, NEW kind \in {"skills", "outcomes", "content"}, MarkRemoved(c, op, kind)
  PROVE TreeInv'
  <1>0. PICK p \in Snapshotted : \E k \in RowIds(p, kind) : tree' = [tree EXCEPT ![p][kind][k].removed = TRUE]
    BY DEF MarkRemoved
  <1>1. PICK k \in Ids(tree[p][kind]) : tree' = [tree EXCEPT ![p][kind][k].removed = TRUE]
    BY <1>0 DEF RowIds
  <1>2. /\ UNCHANGED <<skills, levelOutcomes, files, media, blobs, cut>> /\ call' = call
    BY DEF MarkRemoved, Atomically
  <1>3. PICK t : t = tree[p]
    BY Zenon
  <1>4. p \in Plans /\ t \in TreeRow /\ k \in Ids(t[kind])
    BY <1>3 DEF TreeInv, Snapshotted
  <1>5. PICK y : y = Mark(t, kind, k)
    BY Zenon
  <1>6. tree' = [tree EXCEPT ![p] = y]
    BY <1>1, <1>3, <1>5 DEF Mark
  <1>7. /\ y \in TreeRow /\ Extends(y, t)
        /\ Ids(y.skills) = Ids(t.skills) /\ Ids(y.outcomes) = Ids(t.outcomes) /\ Ids(y.content) = Ids(t.content)
    <2>1. Mark(t, kind, k) \in TreeRow /\ Extends(Mark(t, kind, k), t) /\ SameIds(Mark(t, kind, k), t)
      BY <1>4, Marked
    <2> QED
      BY <1>5, <2>1 DEF SameIds
  <1>8. /\ TreeGrows /\ TreeTables' /\ tree'[p] = y /\ p \in Snapshotted' /\ Snapshotted' = Snapshotted \cup {p}
        /\ \A q \in Snapshotted \ {p} : tree'[q] = tree[q]
    BY <1>2, <1>3, <1>4, <1>6, <1>7, TreeReplaced
  <1>9. \A d \in Callers : GoesOn(call[d], call'[d])
    BY <1>2 DEF GoesOn
  <1>10. \A q \in Snapshotted \ {p} : (tree[q] \in TreeRow /\ SkillsOf(q) /\ OutcomesOf(q) /\ ContentOf(q))'
    BY <1>2, <1>8, <1>9, OtherSnapshots DEF GoesOn
  <1>11. (tree[p] \in TreeRow /\ SkillsOf(p) /\ OutcomesOf(p) /\ ContentOf(p))'
    <2>1. SkillsOf(p)'
      <3>1. Ids(tree'[p].skills) = Ids(tree[p].skills)
        BY <1>3, <1>7, <1>8
      <3> QED
        BY <1>8, <1>9, <3>1, SkillsStay DEF GoesOn
    <2>2. OutcomesOf(p)' /\ ContentOf(p)'
      BY <1>3, <1>7, <1>8, RowsStay
    <2> QED
      BY <1>7, <1>8, <2>1, <2>2
  <1> QED
    BY <1>2, <1>8, <1>10, <1>11, TreeBeside

\* A row is added.
WithNew(s, e) == Append(s, e)
NewId(s) == Len(s) + 1
RowAdded(R, s, e) ==
  /\ WithNew(s, e) \in Seq(R) /\ Ids(WithNew(s, e)) = Ids(s) \cup {NewId(s)}
  /\ NewId(s) \notin Ids(s) /\ NewId(s) \in Nat
  /\ \A i \in Ids(s) : WithNew(s, e)[i] = s[i]
  /\ WithNew(s, e)[NewId(s)] = e
LEMMA AppendedRow ==
  ASSUME NEW R, NEW s \in Seq(R), NEW e \in R
  PROVE RowAdded(R, s, e)
  <1>1. Len(s) \in Nat
    BY LenProperties
  <1>2. /\ Append(s, e) \in Seq(R) /\ Len(Append(s, e)) = Len(s) + 1
        /\ \A i \in 1 .. Len(s) : Append(s, e)[i] = s[i]
        /\ Append(s, e)[Len(s) + 1] = e
    BY AppendProperties
  <1>3. 1 .. Len(s) + 1 = 1 .. Len(s) \cup {Len(s) + 1} /\ Len(s) + 1 \notin 1 .. Len(s)
    BY <1>1
  <1> QED
    BY <1>1, <1>2, <1>3 DEF RowAdded, Ids, WithNew, NewId

\* The parts of a snapshot that is given a table.
LEMMA TreeParts ==
  ASSUME NEW S, NEW O, NEW C, NEW t \in [skills : Seq(S), outcomes : Seq(O), content : Seq(C)], NEW z
  PROVE /\ [t EXCEPT !.skills = z] = [skills |-> z, outcomes |-> t.outcomes, content |-> t.content]
        /\ [t EXCEPT !.outcomes = z] = [skills |-> t.skills, outcomes |-> z, content |-> t.content]
        /\ [t EXCEPT !.content = z] = [skills |-> t.skills, outcomes |-> t.outcomes, content |-> z]
  OBVIOUS

\* Content of the plan's own.
LEMMA AddContentKeeps ==
  ASSUME CallsSound, TreeInv, NEW c \in Callers, AddContent(c)
  PROVE TreeInv'
  <1> DEFINE S == [source : Nat, removed : BOOLEAN]
             O == [skill : Nat, source : Nat, removed : BOOLEAN, progress : {"NOT_STARTED"}]
             C == [skill : Nat, source : Nat \cup {None}, removed : BOOLEAN]
  <1>0. PICK p \in Snapshotted : \E k \in {0} \cup RowIds(p, "skills") :
          tree' = [tree EXCEPT ![p].content = Append(@, ContentRow(k, None))]
    BY DEF AddContent
  <1>1. PICK k \in {0} \cup Ids(tree[p].skills) : tree' = [tree EXCEPT ![p].content = Append(@, ContentRow(k, None))]
    BY <1>0 DEF RowIds
  <1>2. /\ UNCHANGED <<skills, levelOutcomes, files, media, blobs, cut>> /\ call' = call
    BY DEF AddContent, Atomically
  <1>3. PICK t : t = tree[p]
    BY Zenon
  <1>4. p \in Plans /\ t \in TreeRow /\ t \in [skills : Seq(S), outcomes : Seq(O), content : Seq(C)]
    BY <1>3 DEF TreeInv, Snapshotted, TreeRow
  <1>5. PICK e : e = ContentRow(k, None)
    BY Zenon
  <1>6. e \in C /\ e.skill = k
    <2>1. k \in Nat
      BY <1>1, <1>3, <1>4, LenProperties DEF Ids
    <2> QED
      BY <1>5, <2>1 DEF ContentRow
  <1>7. PICK z : z = Append(t.content, e)
    BY Zenon
  <1>8. PICK n : n = Len(t.content) + 1
    BY Zenon
  <1>9. /\ z \in Seq(C) /\ Ids(z) = Ids(t.content) \cup {n} /\ n \notin Ids(t.content)
        /\ \A i \in Ids(t.content) : z[i] = t.content[i]
        /\ z[n] = e
    <2> HIDE DEF C
    <2>1. PICK s : s = t.content
      BY Zenon
    <2>2. s \in Seq(C) /\ e \in C
      BY <1>4, <1>6, <2>1
    <2>3. RowAdded(C, s, e)
      BY ONLY <2>2, AppendedRow
    <2>4. z = WithNew(s, e) /\ n = NewId(s)
      BY <1>7, <1>8, <2>1, Zenon DEF WithNew, NewId
    <2> QED
      BY <2>1, <2>3, <2>4 DEF RowAdded
  <1>10. PICK y : y = [skills |-> t.skills, outcomes |-> t.outcomes, content |-> z]
    BY Zenon
  <1>11. y.skills = t.skills /\ y.outcomes = t.outcomes /\ y.content = z /\ y \in TreeRow
    <2>1. t.skills \in Seq(S) /\ t.outcomes \in Seq(O)
      BY <1>4
    <2> HIDE DEF S, O, C
    <2>2. y.skills = t.skills /\ y.outcomes = t.outcomes /\ y.content = z /\ y \in [skills : Seq(S), outcomes : Seq(O), content : Seq(C)]
      BY <1>9, <1>10, <2>1
    <2> QED
      BY <2>2 DEF TreeRow, S, O, C
  <1>12. tree' = [tree EXCEPT ![p] = y]
    <2>1. [t EXCEPT !.content = z] = y
      <3> HIDE DEF S, O, C
      <3> QED
        BY <1>4, <1>10, TreeParts, SMTT(20)
    <2>2. tree' = [tree EXCEPT ![p] = [tree[p] EXCEPT !.content = Append(tree[p].content, e)]]
      BY <1>1, <1>5, Zenon
    <2> QED
      BY <1>3, <1>7, <2>1, <2>2, Zenon
  <1>13. Extends(y, t)
    BY <1>9, <1>11 DEF Extends
  <1>14. /\ TreeGrows /\ TreeTables' /\ tree'[p] = y /\ p \in Snapshotted' /\ Snapshotted' = Snapshotted \cup {p}
         /\ \A q \in Snapshotted \ {p} : tree'[q] = tree[q]
    BY <1>2, <1>3, <1>4, <1>11, <1>12, <1>13, TreeReplaced
  <1>15. \A d \in Callers : GoesOn(call[d], call'[d])
    BY <1>2 DEF GoesOn
  <1>16. \A q \in Snapshotted \ {p} : (tree[q] \in TreeRow /\ SkillsOf(q) /\ OutcomesOf(q) /\ ContentOf(q))'
    BY <1>2, <1>14, <1>15, OtherSnapshots DEF GoesOn
  <1>17. (tree[p] \in TreeRow /\ SkillsOf(p) /\ OutcomesOf(p) /\ ContentOf(p))'
    <2>1. SkillsOf(p)'
      <3>1. Ids(tree'[p].skills) = Ids(tree[p].skills)
        BY <1>3, <1>11, <1>14
      <3> QED
        BY <1>14, <1>15, <3>1, SkillsStay DEF GoesOn
    <2>2. OutcomesOf(p)'
      BY <1>3, <1>11, <1>14, RowsStay
    <2>3. ContentOf(p)'
      <3>1. \A i \in Ids(t.content) : t.content[i].skill \in {0} \cup Ids(t.skills)
        BY <1>3 DEF TreeInv, ContentOf
      <3>2. \A i \in Ids(z) : z[i].skill \in {0} \cup Ids(t.skills)
        BY <1>1, <1>3, <1>6, <1>9, <3>1
      <3> QED
        BY <1>11, <1>14, <3>2 DEF ContentOf
    <2> QED
      BY <1>11, <1>14, <2>1, <2>2, <2>3
  <1> QED
    BY <1>2, <1>14, <1>16, <1>17, TreeBeside


\* The row of the snapshot for a skill that was added: it is taught, or its call goes on.
LEMMA CopySkillKeeps ==
  ASSUME CallsSound, TreeInv, NEW c \in Callers, CopySkill(c)
  PROVE TreeInv'
  <1> DEFINE S == [source : Nat, removed : BOOLEAN]
             O == [skill : Nat, source : Nat, removed : BOOLEAN, progress : {"NOT_STARTED"}]
             C == [skill : Nat, source : Nat \cup {None}, removed : BOOLEAN]
  <1>0. PICK p, s : p = call[c].arg /\ s = call[c].seen
    OBVIOUS
  <1>1. call[c].op = "addSkill" /\ call[c].pc = "copy"
    BY DEF CopySkill, At
  <1>2. p \in Snapshotted /\ p \in Plans /\ s \in Ids(skills) /\ skills[s].own = p
    <2>1. AddKnows(call[c])
      BY <1>1 DEF TreeInv, TreeCall
    <2> QED
      BY <1>0, <1>1, <2>1 DEF AddKnows, Snapshotted
  <1>3. PICK t : t = tree[p]
    BY Zenon
  <1>4. t \in TreeRow /\ t \in [skills : Seq(S), outcomes : Seq(O), content : Seq(C)]
    BY <1>2, <1>3 DEF TreeInv, TreeRow
  <1>5. PICK e : e = SkillRow(s)
    BY Zenon
  <1>6. e \in S /\ e.source = s
    <2>1. s \in Nat
      BY <1>2, LenProperties DEF Ids, TreeInv, TreeTables
    <2> QED
      BY <1>5, <2>1 DEF SkillRow
  <1>7. PICK z : z = Append(t.skills, e)
    BY Zenon
  <1>8. PICK n : n = Len(t.skills) + 1
    BY Zenon
  <1>9. /\ z \in Seq(S) /\ Ids(z) = Ids(t.skills) \cup {n} /\ n \notin Ids(t.skills)
        /\ \A i \in Ids(t.skills) : z[i] = t.skills[i]
        /\ z[n] = e
    <2> HIDE DEF S
    <2>1. PICK q : q = t.skills
      BY Zenon
    <2>2. q \in Seq(S) /\ e \in S
      BY <1>4, <1>6, <2>1
    <2>3. RowAdded(S, q, e)
      BY ONLY <2>2, AppendedRow
    <2>4. z = WithNew(q, e) /\ n = NewId(q)
      BY <1>7, <1>8, <2>1, Zenon DEF WithNew, NewId
    <2> QED
      BY <2>1, <2>3, <2>4 DEF RowAdded
  <1>10. PICK y : y = [skills |-> z, outcomes |-> t.outcomes, content |-> t.content]
    BY Zenon
  <1>11. y.skills = z /\ y.outcomes = t.outcomes /\ y.content = t.content /\ y \in TreeRow
    <2>1. t.outcomes \in Seq(O) /\ t.content \in Seq(C)
      BY <1>4
    <2> HIDE DEF S, O, C
    <2>2. y.skills = z /\ y.outcomes = t.outcomes /\ y.content = t.content /\ y \in [skills : Seq(S), outcomes : Seq(O), content : Seq(C)]
      BY <1>9, <1>10, <2>1
    <2> QED
      BY <2>2 DEF TreeRow, S, O, C
  <1>12. tree' = [tree EXCEPT ![p] = y] /\ UNCHANGED <<skills, levelOutcomes, files, media, blobs, cut>>
    <2>1. [t EXCEPT !.skills = z] = y
      <3> HIDE DEF S, O, C
      <3> QED
        BY <1>4, <1>10, TreeParts, SMTT(20)
    <2>2. /\ tree' = [tree EXCEPT ![p] = [tree[p] EXCEPT !.skills = Append(tree[p].skills, e)]]
          /\ UNCHANGED <<skills, levelOutcomes, files, media, blobs, cut>>
      BY <1>0, <1>5, Zenon DEF CopySkill
    <2> QED
      BY <1>3, <1>7, <2>1, <2>2, Zenon
  <1>13. Extends(y, t)
    BY <1>9, <1>11 DEF Extends
  <1>14. /\ TreeGrows /\ TreeTables' /\ tree'[p] = y /\ p \in Snapshotted' /\ Snapshotted' = Snapshotted \cup {p}
         /\ \A q \in Snapshotted \ {p} : tree'[q] = tree[q]
    BY <1>2, <1>3, <1>11, <1>12, <1>13, TreeReplaced
  <1>15. PICK now : now = [row |-> n, skill |-> s]
    BY Zenon
  <1>16. /\ call'[c] = [op |-> call[c].op, pc |-> "order", arg |-> call[c].arg, seen |-> now, result |-> call[c].result]
         /\ \A d \in Callers \ {c} : Sees(c, d, {})
    <2>1. Goto(c, "order", now, {})
      BY <1>0, <1>3, <1>8, <1>15 DEF CopySkill
    <2> QED
      BY <2>1, GotoDoes DEF CallsSound
  <1>17. /\ call'[c].op = "addSkill" /\ call'[c].pc = "order" /\ call'[c].arg = p /\ call'[c].seen = now
         /\ now.row = n /\ now.skill = s /\ \A d \in Callers \ {c} : call'[d] = call[d]
    BY <1>0, <1>1, <1>15, <1>16 DEF Sees
  <1>18. TreeCall(call[c])'
    <2>1. p \in Snapshotted' /\ n \in Ids(tree'[p].skills) /\ tree'[p].skills[n].source = s
      BY <1>6, <1>9, <1>11, <1>14
    <2> QED
      BY <1>17, <2>1 DEF TreeCall, AddKnows
  <1>19. \A d \in Callers : GoesOn(call[d], call'[d])
    BY <1>1, <1>17 DEF GoesOn, Adds
  <1>20. \A q \in Snapshotted \ {p} : (tree[q] \in TreeRow /\ SkillsOf(q) /\ OutcomesOf(q) /\ ContentOf(q))'
    BY <1>14, <1>17, <1>19, OtherSnapshots DEF GoesOn
  <1>21. (tree[p] \in TreeRow /\ SkillsOf(p) /\ OutcomesOf(p) /\ ContentOf(p))'
    <2>1. SkillsOf(p)'
      <3>1. \A k \in Ids(tree[p].skills) : SkillOf(p, k)'
        BY <1>2, <1>14, <1>19, SkillStays DEF GoesOn
      <3>2. SkillOf(p, n)'
        <4>1. Adds(call'[c], p, n)
          BY <1>17 DEF Adds
        <4>2. tree'[p].skills[n].source = s /\ s \in Ids(skills') /\ skills'[s].own = p
          BY <1>2, <1>6, <1>9, <1>11, <1>12, <1>14
        <4> QED
          BY <4>1, <4>2 DEF SkillOf
      <3>3. Ids(tree[p].skills)' = Ids(tree[p].skills) \cup {n}
        BY <1>3, <1>9, <1>11, <1>14
      <3> QED
        BY <3>1, <3>2, <3>3 DEF SkillsOf
    <2>2. OutcomesOf(p)' /\ ContentOf(p)'
      BY <1>2, <1>3, <1>11, <1>14, RowsStay
    <2> QED
      BY <1>11, <1>14, <2>1, <2>2
  <1> QED
    BY <1>14, <1>17, <1>18, <1>20, <1>21, TreeKeeps


\* The row of the snapshot for an outcome that was added: its skill is taught.
LEMMA CopyOutcomeKeeps ==
  ASSUME CallsSound, TreeInv, NEW c \in Callers, CopyOutcome(c)
  PROVE TreeInv'
  <1> DEFINE S == [source : Nat, removed : BOOLEAN]
             O == [skill : Nat, source : Nat, removed : BOOLEAN, progress : {"NOT_STARTED"}]
             C == [skill : Nat, source : Nat \cup {None}, removed : BOOLEAN]
  <1>0. PICK p, k, o : p = call[c].arg /\ k = call[c].seen.row /\ o = call[c].seen.outcome
    OBVIOUS
  <1>1. call[c].op \in {"addSkill", "addOutcome"} /\ call[c].pc = "row"
    BY DEF CopyOutcome
  <1>2. /\ p \in Snapshotted /\ p \in Plans /\ k \in Ids(tree[p].skills) /\ o \in Ids(levelOutcomes)
        /\ levelOutcomes[o].own = p /\ levelOutcomes[o].skill = tree[p].skills[k].source
    <2>1. AddKnows(call[c])
      BY <1>1 DEF TreeInv, TreeCall
    <2> QED
      BY <1>0, <1>1, <2>1 DEF AddKnows, Snapshotted
  <1>3. PICK t : t = tree[p]
    BY Zenon
  <1>4. t \in TreeRow /\ t \in [skills : Seq(S), outcomes : Seq(O), content : Seq(C)]
    BY <1>2, <1>3 DEF TreeInv, TreeRow
  <1>5. PICK e : e = OutcomeRow(k, o)
    BY Zenon
  <1>6. e \in O /\ e.skill = k /\ e.source = o
    <2>1. k \in Nat /\ o \in Nat
      BY <1>2, LenProperties DEF Ids
    <2> QED
      BY <1>5, <2>1 DEF OutcomeRow
  <1>7. PICK z : z = Append(t.outcomes, e)
    BY Zenon
  <1>8. PICK n : n = Len(t.outcomes) + 1
    BY Zenon
  <1>9. /\ z \in Seq(O) /\ Ids(z) = Ids(t.outcomes) \cup {n} /\ n \notin Ids(t.outcomes)
        /\ \A i \in Ids(t.outcomes) : z[i] = t.outcomes[i]
        /\ z[n] = e
    <2> HIDE DEF O
    <2>1. PICK q : q = t.outcomes
      BY Zenon
    <2>2. q \in Seq(O) /\ e \in O
      BY <1>4, <1>6, <2>1
    <2>3. RowAdded(O, q, e)
      BY ONLY <2>2, AppendedRow
    <2>4. z = WithNew(q, e) /\ n = NewId(q)
      BY <1>7, <1>8, <2>1, Zenon DEF WithNew, NewId
    <2> QED
      BY <2>1, <2>3, <2>4 DEF RowAdded
  <1>10. PICK y : y = [skills |-> t.skills, outcomes |-> z, content |-> t.content]
    BY Zenon
  <1>11. y.skills = t.skills /\ y.outcomes = z /\ y.content = t.content /\ y \in TreeRow
    <2>1. t.skills \in Seq(S) /\ t.content \in Seq(C)
      BY <1>4
    <2> HIDE DEF S, O, C
    <2>2. y.skills = t.skills /\ y.outcomes = z /\ y.content = t.content /\ y \in [skills : Seq(S), outcomes : Seq(O), content : Seq(C)]
      BY <1>9, <1>10, <2>1
    <2> QED
      BY <2>2 DEF TreeRow, S, O, C
  <1>12. tree' = [tree EXCEPT ![p] = y] /\ UNCHANGED <<skills, levelOutcomes, files, media, blobs, cut>>
    <2>1. [t EXCEPT !.outcomes = z] = y
      <3> HIDE DEF S, O, C
      <3> QED
        BY <1>4, <1>10, TreeParts, SMTT(20)
    <2>2. /\ tree' = [tree EXCEPT ![p] = [tree[p] EXCEPT !.outcomes = Append(tree[p].outcomes, e)]]
          /\ UNCHANGED <<skills, levelOutcomes, files, media, blobs, cut>>
      BY <1>0, <1>5, Zenon DEF CopyOutcome
    <2> QED
      BY <1>3, <1>7, <2>1, <2>2, Zenon
  <1>13. Extends(y, t)
    BY <1>9, <1>11 DEF Extends
  <1>14. /\ TreeGrows /\ TreeTables' /\ tree'[p] = y /\ p \in Snapshotted' /\ Snapshotted' = Snapshotted \cup {p}
         /\ \A q \in Snapshotted \ {p} : tree'[q] = tree[q]
    BY <1>2, <1>3, <1>11, <1>12, <1>13, TreeReplaced
  <1>15. call'[c].pc = "idle" /\ \A d \in Callers \ {c} : call'[d] = call[d]
    <2>1. End(c, None, {})
      BY DEF CopyOutcome
    <2> QED
      BY <2>1, EndDoes DEF CallsSound, Sees
  <1>16. Teaches(p, k)'
    <2>1. /\ n \in Ids(tree'[p].outcomes) /\ tree'[p].outcomes[n].skill = k /\ tree'[p].outcomes[n].source = o
          /\ levelOutcomes'[o].skill = tree'[p].skills[k].source
      BY <1>2, <1>3, <1>6, <1>9, <1>11, <1>12, <1>14
    <2> QED
      BY <2>1 DEF Teaches
  <1>17. TreeCall(call[c])'
    BY <1>15 DEF TreeCall
  <1>18. GoesOn(call[c], call'[c])
    BY <1>0, <1>16 DEF GoesOn, Adds
  <1>19. \A d \in Callers : GoesOn(call[d], call'[d])
    BY <1>15, <1>18 DEF GoesOn
  <1>20. \A q \in Snapshotted \ {p} : (tree[q] \in TreeRow /\ SkillsOf(q) /\ OutcomesOf(q) /\ ContentOf(q))'
    BY <1>14, <1>15, <1>19, OtherSnapshots DEF GoesOn
  <1>21. (tree[p] \in TreeRow /\ SkillsOf(p) /\ OutcomesOf(p) /\ ContentOf(p))'
    <2>1. SkillsOf(p)'
      <3>1. Ids(tree'[p].skills) = Ids(tree[p].skills)
        BY <1>3, <1>11, <1>14
      <3> QED
        BY <1>2, <1>14, <1>19, <3>1, SkillsStay DEF GoesOn
    <2>2. OutcomesOf(p)'
      <3>1. \A i \in Ids(tree[p].outcomes) : OutcomeOf(p, i)'
        BY <1>2, <1>14, RowsStay
      <3>2. OutcomeOf(p, n)'
        <4>1. /\ tree'[p].outcomes[n].skill = k /\ tree'[p].outcomes[n].source = o
              /\ k \in Ids(tree'[p].skills) /\ o \in Ids(levelOutcomes') /\ levelOutcomes'[o].own = p
          BY <1>2, <1>3, <1>6, <1>9, <1>11, <1>12, <1>14
        <4> QED
          BY <4>1 DEF OutcomeOf
      <3>3. Ids(tree[p].outcomes)' = Ids(tree[p].outcomes) \cup {n}
        BY <1>3, <1>9, <1>11, <1>14
      <3> QED
        BY <3>1, <3>2, <3>3 DEF OutcomesOf
    <2>3. ContentOf(p)'
      BY <1>2, <1>3, <1>11, <1>14, RowsStay
    <2> QED
      BY <1>11, <1>14, <2>1, <2>2, <2>3
  <1> QED
    BY <1>14, <1>15, <1>17, <1>20, <1>21, TreeKeeps


\* A snapshot is made, unless another call has made one: its rows are those read, under their new ids.
LEMMA WriteTreeKeeps ==
  ASSUME CallsSound, TreeInv, NEW c \in Callers, WriteTree(c)
  PROVE TreeInv'
  <1> DEFINE seen == call[c].seen
  <1>0. PICK p : p = call[c].arg
    OBVIOUS
  <1>1. /\ call[c].op = "copyTrack" /\ call[c].pc = "write"
        /\ UNCHANGED <<skills, levelOutcomes, files, media, blobs, cut>>
    BY DEF WriteTree, At
  <1>2. GoesOn(call[c], call'[c])
    BY <1>1 DEF GoesOn, Adds
  <1>3. CASE p \in Snapshotted
    <2>1. End(c, "clash", {}) /\ UNCHANGED tree
      BY <1>0, <1>3 DEF WriteTree
    <2>2. call'[c].pc = "idle" /\ \A d \in Callers \ {c} : call'[d] = call[d]
      BY <2>1, EndDoes DEF CallsSound, Sees
    <2>3. TreeCall(call[c])'
      BY <2>2 DEF TreeCall
    <2> QED
      BY <1>1, <1>2, <2>1, <2>2, <2>3, TreeQuiet
  <1>4. CASE p \notin Snapshotted
    <2> DEFINE list == SkillTable(Cardinality(seen.skills), Numbering(seen.skills))
               os == OutcomeTable(list, Cardinality(seen.outcomes), Numbering(seen.outcomes))
               fs == ContentTable(list, Cardinality(seen.files), Numbering(seen.files))
    <2>1. tree' = [tree EXCEPT ![p] = [skills |-> list, outcomes |-> os, content |-> fs]] /\ End(c, None, {})
      BY <1>0, <1>4, Zenon DEF WriteTree, CopyOf, SkillTable, OutcomeTable, ContentTable, Numbering
    <2>2. /\ p \in Plans
          /\ seen.skills \subseteq Ids(skills) /\ \A s \in seen.skills : skills[s].own = None
          /\ seen.outcomes \subseteq Ids(levelOutcomes)
          /\ \A o \in seen.outcomes : levelOutcomes[o].enabled /\ levelOutcomes[o].skill \in seen.skills
          /\ seen.files \subseteq Ids(files) /\ \A f \in seen.files : files[f].skill \in seen.skills
      <3>1. CopyKnows(call[c])
        BY <1>1 DEF TreeInv, TreeCall
      <3> QED
        BY <1>0, <1>1, <3>1 DEF CopyKnows
    <2>3. /\ IsFiniteSet(seen.skills) /\ IsFiniteSet(seen.outcomes) /\ IsFiniteSet(seen.files)
          /\ seen.skills \subseteq Nat /\ seen.outcomes \subseteq Nat /\ seen.files \subseteq Nat
      <3>1. TreeTables
        BY DEF TreeInv
      <3>2. Len(skills) \in Nat /\ Len(levelOutcomes) \in Nat /\ Len(files) \in Nat
        <4>1. Len(skills) \in Nat
          BY <3>1, LenProperties DEF TreeTables
        <4>2. IsTable(levelOutcomes) /\ IsTable(files)
          BY <3>1 DEF TreeTables
        <4> QED
          BY <4>1, <4>2, Appended
      <3>3. seen.skills \in SUBSET (1 .. Len(skills)) /\ seen.outcomes \in SUBSET (1 .. Len(levelOutcomes))
            /\ seen.files \in SUBSET (1 .. Len(files))
        BY <2>2 DEF Ids
      <3> QED
        BY <3>2, <3>3, Numbered
    <2>4. Picks(seen.skills, Cardinality(seen.skills), Numbering(seen.skills))
      BY <2>3, Ranked
    <2>5. Picks(seen.outcomes, Cardinality(seen.outcomes), Numbering(seen.outcomes))
      BY <2>3, Ranked
    <2>6. Picks(seen.files, Cardinality(seen.files), Numbering(seen.files))
      BY <2>3, Ranked
    <2>7. SkillsFrom(seen.skills, list)
      BY <2>4, SkillRows
    <2> HIDE DEF list
    <2>8. /\ list \in Seq([source : Nat, removed : BOOLEAN])
          /\ \A k \in Ids(list) : list[k].source \in seen.skills
          /\ \A r \in seen.skills : RowOf(list, r) \in Ids(list) /\ RowOf(list, r) \in Nat
      BY <2>7, LenProperties DEF SkillsFrom, Ids
    <2>9. OutcomesFrom(seen.outcomes, list, os)
      <3>1. \A o \in seen.outcomes : RowOf(list, levelOutcomes[o].skill) \in Nat
        BY <2>2, <2>8
      <3> QED
        BY <2>5, <3>1, OutcomeRows
    <2>10. ContentFrom(seen.files, list, fs)
      <3>1. \A f \in seen.files : RowOf(list, files[f].skill) \in Nat
        BY <2>2, <2>8
      <3> QED
        BY <2>6, <3>1, ContentRows
    <2> HIDE DEF os, fs
    <2>11. PICK row : row = [skills |-> list, outcomes |-> os, content |-> fs]
      BY Zenon
    <2>12. row.skills = list /\ row.outcomes = os /\ row.content = fs /\ row \in TreeRow
      BY <2>8, <2>9, <2>10, <2>11 DEF TreeRow, OutcomesFrom, ContentFrom
    <2>13. /\ TreeGrows /\ TreeTables' /\ tree'[p] = row /\ p \in Snapshotted' /\ Snapshotted' = Snapshotted \cup {p}
           /\ \A q \in Snapshotted \ {p} : tree'[q] = tree[q]
      <3>1. tree' = [tree EXCEPT ![p] = row]
        BY <2>1, <2>11, Zenon
      <3> QED
        BY <1>1, <1>4, <2>2, <2>12, <3>1, TreeReplaced
    <2>14. call'[c].pc = "idle" /\ \A d \in Callers \ {c} : call'[d] = call[d]
      BY <2>1, EndDoes DEF CallsSound, Sees
    <2>15. TreeCall(call[c])'
      BY <2>14 DEF TreeCall
    <2>16. \A q \in Snapshotted \ {p} : (tree[q] \in TreeRow /\ SkillsOf(q) /\ OutcomesOf(q) /\ ContentOf(q))'
      BY <1>2, <2>13, <2>14, OtherSnapshots DEF GoesOn
    <2>17. (tree[p] \in TreeRow /\ SkillsOf(p) /\ OutcomesOf(p) /\ ContentOf(p))'
      <3>1. SkillsOf(p)'
        BY <1>1, <2>2, <2>8, <2>12, <2>13 DEF SkillsOf, SkillOf
      <3>2. OutcomesOf(p)'
        BY <1>1, <2>2, <2>8, <2>9, <2>12, <2>13 DEF OutcomesOf, OutcomeOf, OutcomesFrom
      <3>3. ContentOf(p)'
        BY <1>1, <2>2, <2>8, <2>10, <2>12, <2>13, ZenonT(40) DEF ContentOf, ContentFrom
      <3> QED
        BY <2>12, <2>13, <3>1, <3>2, <3>3
    <2> QED
      BY <2>13, <2>14, <2>15, <2>16, <2>17, TreeKeeps
  <1> QED
    BY <1>3, <1>4


\* A step of the snapshots.
LEMMA TreesKeep ==
  ASSUME CallsSound, TreeInv, NEW c \in Callers, TreeStep(c)
  PROVE TreeInv'
  <1>1. CASE CopyTrack(c) \/ ReadSkills(c) \/ ReadOutcomes(c) \/ ReadContent(c) \/ WriteTree(c)
    BY <1>1, CopyTrackKeeps, ReadSkillsKeeps, ReadOutcomesKeeps, ReadContentKeeps, WriteTreeKeeps
  <1>2. CASE AddSkill(c) \/ AddOutcome(c) \/ AddToLevel(c) \/ Upload(c)
    BY <1>2, AskTreeKeeps
  <1>3. CASE CreateSkill(c) \/ CopySkill(c) \/ ReadOrder(c) \/ CreateOutcome(c) \/ CopyOutcome(c) \/ CrashAdd(c)
    BY <1>3, CreateSkillKeeps, CopySkillKeeps, ReadOrderKeeps, CreateOutcomeKeeps, CopyOutcomeKeeps, CrashAddKeeps
  <1>4. CASE Publish(c) \/ AddContent(c) \/ PutBlob(c) \/ CreateMedia(c)
    BY <1>4, PublishKeeps, AddContentKeeps, PutBlobKeeps, CreateMediaKeeps
  <1>5. CASE RemoveSkill(c)
    BY <1>5, MarkRemovedKeeps DEF RemoveSkill
  <1>6. CASE RemoveOutcome(c)
    BY <1>6, MarkRemovedKeeps DEF RemoveOutcome
  <1>7. CASE RemoveContent(c)
    BY <1>7, MarkRemovedKeeps DEF RemoveContent
  <1> QED
    BY <1>1, <1>2, <1>3, <1>4, <1>5, <1>6, <1>7 DEF TreeStep

\* The calls that keep what they have read of the snapshots.
TreeOps == {"copyTrack", "addSkill", "addOutcome", "addToLevel", "upload"}
\* The other services leave the snapshots as they are.
LEMMA TreesBeside ==
  ASSUME CallsSound, TreeInv, Spares(TreeOps), UNCHANGED treeVars
  PROVE TreeInv'
  <1>0. UNCHANGED <<skills, levelOutcomes, files, tree, media, blobs, cut>>
    BY DEF treeVars
  <1>1. TreeTables /\ Snapshotted' = Snapshotted
    BY <1>0 DEF TreeInv, Snapshotted
  <1>2. TreeGrows
    BY <1>0, <1>1 DEF TreeGrows
  <1>3. TreeTables'
    BY <1>0, <1>1 DEF TreeTables, LevelOutcome
  <1>4. ASSUME NEW d \in Callers PROVE GoesOn(call[d], call'[d])
    <2>1. call[d].op \in TreeOps /\ call[d].pc # "idle" => call'[d] = call[d]
      BY DEF Spares
    <2> QED
      BY <2>1 DEF GoesOn, Adds, TreeOps
  <1>5. \A d \in Callers : GoesOn(call[d], call'[d])
    BY <1>4
  <1>6. ASSUME NEW d \in Callers PROVE TreeCall(call[d])'
    <2>1. PICK y : y = call'[d]
      OBVIOUS
    <2>2. CASE y.op \in TreeOps
      <3>1. y = call[d]
        BY <2>1, <2>2 DEF Spares
      <3>2. TreeCall(y)
        BY <3>1 DEF TreeInv
      <3>3. TreeCall(y)'
        BY <1>2, <3>2, TreeCallStays
      <3> QED
        BY <2>1, <3>3
    <2>3. CASE y.op \notin TreeOps
      BY <2>1, <2>3 DEF TreeCall, TreeOps
    <2> QED
      BY <2>2, <2>3
  <1>7. ASSUME NEW p \in Snapshotted PROVE (tree[p] \in TreeRow /\ SkillsOf(p) /\ OutcomesOf(p) /\ ContentOf(p))'
    <2>1. SkillsOf(p)'
      BY <1>0, <1>2, <1>5, SkillsStay DEF GoesOn
    <2>2. OutcomesOf(p)' /\ ContentOf(p)'
      BY <1>0, <1>2, RowsStay
    <2>3. (tree[p] \in TreeRow)'
      BY <1>0 DEF TreeInv
    <2> QED
      BY <2>1, <2>2, <2>3
  <1> QED
    BY <1>1, <1>3, <1>6, <1>7 DEF TreeInv

\* A step of the portal is one of the snapshots, or spares them.
LEMMA TreesAmong ==
  ASSUME CallsSound, [PortalNext]_portalVars
  PROVE /\ CallsSound'
        /\ (\E c \in Callers : TreeStep(c)) \/ (Spares(TreeOps) /\ UNCHANGED treeVars)
  <1>1. None \notin TreeOps
    BY PortalAssumption DEF TreeOps, TreeCalls
  <1>2. /\ TreeOps \cap AccountOps = {} /\ TreeOps \cap RosterOps = {} /\ TreeOps \cap RecCalls = {} /\ TreeOps \cap DeckCalls = {}
        /\ TreeOps \cap LetterCalls = {} /\ TreeOps \cap RubricCalls = {} /\ TreeOps \cap FigureCalls = {}
    BY DEF TreeOps, AccountOps, RosterOps, RosterCalls, RecCalls, DeckCalls, LetterCalls, RubricCalls, FigureCalls
  <1>3. PICK c : Among(c, TreeOps) /\ CallsSound'
    BY <1>1, PortalAmong
  <1> QED
    BY <1>2, <1>3 DEF Among, portalVars

\* Snapshots: the invariant holds for any number of plans, skills, outcomes and requests at once.
LEMMA TreesHold == PortalSpec => [](CallsSound /\ TreeInv)
  <1>1. PortalInit => CallsSound /\ TreeInv
    <2>1. PortalInit => CallsSound
      BY CallsStartSound DEF PortalInit, AccountsInit, Init
    <2> QED
      BY <2>1, TreeStart
  <1>2. CallsSound /\ TreeInv /\ [PortalNext]_portalVars => (CallsSound /\ TreeInv)'
    BY TreesAmong, TreesKeep, TreesBeside
  <1> QED
    BY <1>1, <1>2, PTL DEF PortalSpec

\* What one plan adds to its snapshot is in no other plan's unless an administrator has enabled
\* it, and an added skill has an outcome of its own once its call has ended, unless the addition
\* was refused half way or ended by a crash.
THEOREM AdditionsStayWithTheirPlan == PortalSpec => []PlansOwnTheirAdditions
  <1>1. TreeInv => PlansOwnTheirAdditions
    BY TreeInvIsTrue
  <1> QED
    BY <1>1, TreesHold, PTL

\* The foreign keys of the snapshots and of the catalogue, one order for each outcome of the level,
\* and a stored blob behind each file.
THEOREM SnapshotsTyped == PortalSpec => []TreeTypeOK
  <1>1. TreeInv => TreeTypeOK
    BY TreeInvIsTrue
  <1> QED
    BY <1>1, TreesHold, PTL

=============================================================================
