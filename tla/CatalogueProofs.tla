---------------------------- MODULE CatalogueProofs ----------------------------
(***************************************************************************)
(* Catalogue, proved for all values of its constants: what is on offer     *)
(* stays sound whatever calls run together, and what goes wrong does so    *)
(* only where the code has a race.                                         *)
(***************************************************************************)
EXTENDS Catalogue, FiniteSetTheorems, WellFoundedInduction, TLAPS

-----------------------------------------------------------------------------
(* The calls: what the steps of Calls do, call by call.                    *)

\* A call has its five parts, and there is one for each caller.
Whole(x) == x = [op |-> x.op, pc |-> x.pc, arg |-> x.arg, seen |-> x.seen, result |-> x.result]
CallsOK ==
  /\ call = [c \in Callers |-> call[c]] /\ crossed = [c \in Callers |-> crossed[c]]
  /\ \A c \in Callers : Whole(call[c])

\* A step leaves the calls of some operations alone: they may see that something is written.
Spares(ops) == \A d \in Callers :
  /\ call'[d].op \in ops => call'[d] = call[d] /\ crossed[d] \subseteq crossed'[d]
  /\ call[d].op \in ops /\ call[d].pc # "idle" => call'[d] = call[d]

\* What others see of a step.
Sees(c, d, written) ==
  /\ call'[d] = call[d]
  /\ crossed'[d] = IF call[d].pc # "idle" THEN crossed[d] \cup written ELSE crossed[d]

\* At the start nobody has called.
LEMMA CallsStart ==
  ASSUME NEW allowed, CallsInit(allowed)
  PROVE /\ CallsOK /\ \A c \in Callers : call[c] = Idle /\ crossed[c] = {}
        /\ left = allowed
  BY DEF CallsInit, CallsOK, Whole, Idle

\* A step that does not concern the calls.
LEMMA NoCall ==
  ASSUME CallsOK, UNCHANGED <<call, crossed>>
  PROVE CallsOK' /\ \A ops : Spares(ops)
  BY DEF CallsOK, Whole, Spares

\* The parts of a call that goes on.
LEMMA Parts ==
  ASSUME NEW x, Whole(x), NEW pc, NEW seen
  PROVE [x EXCEPT !.pc = pc, !.seen = seen] =
          [op |-> x.op, pc |-> pc, arg |-> x.arg, seen |-> seen, result |-> x.result]
  <1>1. x \in [op : {x.op}, pc : {x.pc}, arg : {x.arg}, seen : {x.seen}, result : {x.result}]
    BY DEF Whole
  <1>2. PICK y : y = [x EXCEPT !.pc = pc, !.seen = seen]
    BY Zenon
  <1>3. y = [op |-> x.op, pc |-> pc, arg |-> x.arg, seen |-> seen, result |-> x.result]
    BY <1>1, <1>2
  <1> QED
    BY <1>2, <1>3, Zenon

\* The parts of a call that has failed.
LEMMA FailedParts ==
  ASSUME NEW x, Whole(x), NEW result
  PROVE [x EXCEPT !.pc = "idle", !.seen = None, !.result = result] =
          [op |-> x.op, pc |-> "idle", arg |-> x.arg, seen |-> None, result |-> result]
  <1>1. x \in [op : {x.op}, pc : {x.pc}, arg : {x.arg}, seen : {x.seen}, result : {x.result}]
    BY DEF Whole
  <1>2. PICK y : y = [x EXCEPT !.pc = "idle", !.seen = None, !.result = result]
    BY Zenon
  <1>3. y = [op |-> x.op, pc |-> "idle", arg |-> x.arg, seen |-> None, result |-> result]
    BY <1>1, <1>2
  <1> QED
    BY <1>2, <1>3, Zenon

\* The call begins as it is asked for, and others go on as they were.
LEMMA BeginDoes ==
  ASSUME CallsOK, NEW c \in Callers, NEW op, NEW pc, NEW arg, NEW seen, Begin(c, op, pc, arg, seen)
  PROVE /\ CallsOK'
        /\ call[c].pc = "idle" /\ op \in DOMAIN left /\ DOMAIN left' = DOMAIN left
        /\ call'[c] = [op |-> op, pc |-> pc, arg |-> arg, seen |-> seen, result |-> None]
        /\ crossed'[c] = {}
        /\ \A d \in Callers \ {c} : call'[d] = call[d] /\ crossed'[d] = crossed[d]
  <1>1. call' = [d \in Callers |-> IF d = c THEN [op |-> op, pc |-> pc, arg |-> arg, seen |-> seen, result |-> None]
                                  ELSE call[d]]
    BY DEF Begin, CallsOK
  <1>2. crossed' = [d \in Callers |-> IF d = c THEN {} ELSE crossed[d]]
    BY DEF Begin, CallsOK
  <1>3. call[c].pc = "idle" /\ op \in DOMAIN left /\ DOMAIN left' = DOMAIN left
    BY DEF Begin, Asked
  <1>4. CallsOK'
    BY <1>1, <1>2 DEF CallsOK, Whole
  <1> QED
    BY <1>1, <1>2, <1>3, <1>4

\* A call goes on, and those under way see what is written.
LEMMA GotoDoes ==
  ASSUME CallsOK, NEW c \in Callers, NEW pc, NEW seen, NEW written, Goto(c, pc, seen, written)
  PROVE /\ CallsOK' /\ left' = left
        /\ call'[c] = [op |-> call[c].op, pc |-> pc, arg |-> call[c].arg, seen |-> seen, result |-> call[c].result]
        /\ crossed'[c] = crossed[c]
        /\ \A d \in Callers \ {c} : Sees(c, d, written)
  <1>0. call[c] = [op |-> call[c].op, pc |-> call[c].pc, arg |-> call[c].arg, seen |-> call[c].seen, result |-> call[c].result]
    BY DEF CallsOK, Whole
  <1>1. call' = [d \in Callers |-> IF d = c THEN [op |-> call[c].op, pc |-> pc, arg |-> call[c].arg, seen |-> seen,
                                                 result |-> call[c].result]
                                  ELSE call[d]]
    BY Parts DEF Goto, CallsOK
  <1>2. crossed' = [d \in Callers |-> IF d # c /\ call[d].pc # "idle" THEN crossed[d] \cup written ELSE crossed[d]]
    BY DEF Goto, Crossing
  <1>4. CallsOK'
    BY <1>1, <1>2 DEF CallsOK, Whole
  <1> QED
    BY <1>1, <1>2, <1>4 DEF Goto, Sees

\* A call reads anew.
LEMMA RereadDoes ==
  ASSUME CallsOK, NEW c \in Callers, NEW pc, NEW seen, Reread(c, pc, seen)
  PROVE /\ CallsOK' /\ left' = left
        /\ call'[c] = [op |-> call[c].op, pc |-> pc, arg |-> call[c].arg, seen |-> seen, result |-> call[c].result]
        /\ crossed'[c] = {}
        /\ \A d \in Callers \ {c} : Sees(c, d, {})
  <1>0. call[c] = [op |-> call[c].op, pc |-> call[c].pc, arg |-> call[c].arg, seen |-> call[c].seen, result |-> call[c].result]
    BY DEF CallsOK, Whole
  <1>1. call' = [d \in Callers |-> IF d = c THEN [op |-> call[c].op, pc |-> pc, arg |-> call[c].arg, seen |-> seen,
                                                 result |-> call[c].result]
                                  ELSE call[d]]
    BY Parts DEF Reread, CallsOK
  <1>2. crossed' = [d \in Callers |-> IF d = c THEN {} ELSE crossed[d]]
    BY DEF Reread, CallsOK
  <1>4. CallsOK'
    BY <1>1, <1>2 DEF CallsOK, Whole
  <1> QED
    BY <1>1, <1>2, <1>4 DEF Reread, Sees

\* A call ends: it leaves nothing, or how it failed.
LEMMA EndDoes ==
  ASSUME CallsOK, NEW c \in Callers, NEW result, NEW written, End(c, result, written)
  PROVE /\ CallsOK' /\ left' = left
        /\ call'[c].pc = "idle" /\ call'[c].op \in {None, call[c].op}
        /\ result = None => call'[c] = Idle
        /\ result # None => call'[c] = [op |-> call[c].op, pc |-> "idle", arg |-> call[c].arg, seen |-> None, result |-> result]
        /\ crossed'[c] = crossed[c]
        /\ \A d \in Callers \ {c} : Sees(c, d, IF result = None THEN written ELSE {})
  <1>0. call[c] = [op |-> call[c].op, pc |-> call[c].pc, arg |-> call[c].arg, seen |-> call[c].seen, result |-> call[c].result]
    BY DEF CallsOK, Whole
  <1>1. CASE result = None
    <2>1. call' = [d \in Callers |-> IF d = c THEN Idle ELSE call[d]]
      BY <1>1 DEF End, CallsOK
    <2>2. crossed' = [d \in Callers |-> IF d # c /\ call[d].pc # "idle" THEN crossed[d] \cup written ELSE crossed[d]]
      BY <1>1 DEF End, Crossing
    <2>3. CallsOK'
      BY <2>1, <2>2 DEF CallsOK, Whole, Idle
    <2>4. Idle.op = None /\ Idle.pc = "idle"
      BY DEF Idle
    <2> QED
      BY <1>1, <2>1, <2>2, <2>3, <2>4 DEF End, Sees
  <1>2. CASE result # None
    <2>1. call' = [d \in Callers |-> IF d = c THEN [op |-> call[c].op, pc |-> "idle", arg |-> call[c].arg, seen |-> None,
                                                    result |-> result]
                                    ELSE call[d]]
      <3>0. Whole(call[c])
        BY DEF CallsOK
      <3>1. [call[c] EXCEPT !.pc = "idle", !.seen = None, !.result = result] =
              [op |-> call[c].op, pc |-> "idle", arg |-> call[c].arg, seen |-> None, result |-> result]
        BY <3>0, FailedParts
      <3>2. call' = [call EXCEPT ![c] = [call[c] EXCEPT !.pc = "idle", !.seen = None, !.result = result]]
        BY <1>2, Zenon DEF End
      <3> QED
        BY <3>1, <3>2 DEF CallsOK
    <2>2. crossed' = crossed
      BY <1>2 DEF End
    <2>3. CallsOK'
      BY <2>1, <2>2 DEF CallsOK, Whole
    <2> QED
      BY <1>2, <2>1, <2>2, <2>3 DEF End, Sees
  <1> QED
    BY <1>1, <1>2

\* A call of one step.
LEMMA AtomicallyDoes ==
  ASSUME CallsOK, NEW c \in Callers, NEW op, NEW written, Atomically(c, op, written)
  PROVE /\ CallsOK' /\ call' = call /\ op \in DOMAIN left /\ DOMAIN left' = DOMAIN left
        /\ crossed'[c] = crossed[c]
        /\ \A d \in Callers \ {c} : Sees(c, d, written)
  <1>1. crossed' = [d \in Callers |-> IF d # c /\ call[d].pc # "idle" THEN crossed[d] \cup written ELSE crossed[d]]
    BY DEF Atomically, Crossing
  <1>2. call' = call
    BY DEF Atomically
  <1>3. CallsOK'
    BY <1>1, <1>2 DEF CallsOK, Whole
  <1> QED
    BY <1>1, <1>2, <1>3 DEF Atomically, Asked, Sees

-----------------------------------------------------------------------------
(* The first problem that is one.                                          *)

\* Of two problems.
LEMMA FirstOfTwo ==
  ASSUME NEW a, NEW b
  PROVE FirstOf(<<a, b>>) = IF a # None THEN a ELSE b
  <1> DEFINE p == <<a, b>>
  <1>0. DOMAIN p = {1, 2} /\ p[1] = a /\ p[2] = b
    OBVIOUS
  <1>1. CASE a # None
    <2>1. \A i \in DOMAIN p : (p[i] # None /\ \A j \in 1 .. i - 1 : p[j] = None) <=> i = 1
      BY <1>0, <1>1
    <2>2. (CHOOSE i \in DOMAIN p : p[i] # None /\ \A j \in 1 .. i - 1 : p[j] = None) = 1
      BY <1>0, <2>1
    <2> QED
      BY <1>0, <1>1, <2>2 DEF FirstOf
  <1>2. CASE a = None /\ b # None
    <2>1. \A i \in DOMAIN p : (p[i] # None /\ \A j \in 1 .. i - 1 : p[j] = None) <=> i = 2
      BY <1>0, <1>2
    <2>2. (CHOOSE i \in DOMAIN p : p[i] # None /\ \A j \in 1 .. i - 1 : p[j] = None) = 2
      BY <1>0, <2>1
    <2> QED
      BY <1>0, <1>2, <2>2 DEF FirstOf
  <1>3. CASE a = None /\ b = None
    BY <1>0, <1>3 DEF FirstOf
  <1> QED
    BY <1>1, <1>2, <1>3

\* Of three.
LEMMA FirstOfThree ==
  ASSUME NEW a, NEW b, NEW d
  PROVE FirstOf(<<a, b, d>>) = IF a # None THEN a ELSE IF b # None THEN b ELSE d
  <1> DEFINE p == <<a, b, d>>
  <1>0. DOMAIN p = {1, 2, 3} /\ p[1] = a /\ p[2] = b /\ p[3] = d
    OBVIOUS
  <1> DEFINE First(i) == p[i] # None /\ \A j \in 1 .. i - 1 : p[j] = None
  <1>1. ASSUME NEW n \in DOMAIN p, First(n)
        PROVE FirstOf(p) = p[n]
    <2>1. \A i \in DOMAIN p : First(i) <=> i = n
      BY <1>0, <1>1
    <2>2. (CHOOSE i \in DOMAIN p : First(i)) = n
      <3> HIDE DEF First
      <3> QED
        BY <2>1, <1>1
    <2> QED
      BY <1>1, <2>2 DEF FirstOf
  <1>2. CASE a # None
    BY <1>0, <1>2, <1>1
  <1>3. CASE a = None /\ b # None
    <2>1. First(2)
      BY <1>0, <1>3
    <2> QED
      BY <1>0, <1>3, <1>1, <2>1
  <1>4. CASE a = None /\ b = None /\ d # None
    <2>1. First(3)
      BY <1>0, <1>4
    <2> QED
      BY <1>0, <1>4, <1>1, <2>1
  <1>5. CASE a = None /\ b = None /\ d = None
    BY <1>0, <1>5 DEF FirstOf
  <1> QED
    BY <1>2, <1>3, <1>4, <1>5

-----------------------------------------------------------------------------
(* Calls that a step of another service spares: each kind of step keeps    *)
(* the calls sound, and leaves alone all but the caller's operation.       *)

Refusals == {None, "clash", "referenced", "missing", "refused", "failed"}
CallsSound ==
  /\ CallsOK
  /\ \A c \in Callers : call[c].op \in DOMAIN left \cup {None} /\ call[c].result \in Refusals

\* At the start.
LEMMA CallsStartSound ==
  ASSUME NEW allowed, CallsInit(allowed) PROVE CallsSound
  BY CallsStart DEF CallsSound, Refusals, Idle

\* No step of a call.
LEMMA NoCallSpares ==
  ASSUME CallsSound, UNCHANGED callVars, NEW ops PROVE CallsSound' /\ Spares(ops)
  BY NoCall DEF CallsSound, callVars

\* A call begins.
LEMMA BeginSpares ==
  ASSUME CallsSound, NEW c \in Callers, NEW op, NEW pc, NEW arg, NEW seen, Begin(c, op, pc, arg, seen),
         NEW ops, op \notin ops
  PROVE CallsSound' /\ Spares(ops)
  <1>1. CallsOK
    BY DEF CallsSound
  <1>2. /\ CallsOK' /\ call[c].pc = "idle" /\ op \in DOMAIN left /\ DOMAIN left' = DOMAIN left
        /\ call'[c].op = op /\ call'[c].result = None
        /\ \A d \in Callers \ {c} : call'[d] = call[d] /\ crossed'[d] = crossed[d]
    <2>1. /\ CallsOK'
          /\ call[c].pc = "idle" /\ op \in DOMAIN left /\ DOMAIN left' = DOMAIN left
          /\ call'[c] = [op |-> op, pc |-> pc, arg |-> arg, seen |-> seen, result |-> None]
          /\ crossed'[c] = {}
          /\ \A d \in Callers \ {c} : call'[d] = call[d] /\ crossed'[d] = crossed[d]
      BY <1>1, BeginDoes
    <2>2. call'[c].op = op /\ call'[c].result = None
      BY <2>1
    <2> QED
      BY <2>1, <2>2
  <1> QED
    BY <1>2 DEF CallsSound, Spares, Refusals

\* A call goes on.
LEMMA GotoSpares ==
  ASSUME CallsSound, NEW c \in Callers, NEW pc, NEW seen, NEW written, Goto(c, pc, seen, written),
         NEW ops, call[c].op \notin ops
  PROVE CallsSound' /\ Spares(ops)
  <1>1. CallsOK
    BY DEF CallsSound
  <1>2. /\ CallsOK' /\ DOMAIN left' = DOMAIN left
        /\ call'[c].op = call[c].op /\ call'[c].result = call[c].result
        /\ \A d \in Callers \ {c} : call'[d] = call[d] /\ crossed[d] \subseteq crossed'[d]
    <2>1. /\ CallsOK' /\ left' = left
          /\ call'[c] = [op |-> call[c].op, pc |-> pc, arg |-> call[c].arg, seen |-> seen, result |-> call[c].result]
          /\ crossed'[c] = crossed[c]
          /\ \A d \in Callers \ {c} : Sees(c, d, written)
      BY <1>1, GotoDoes
    <2>2. call'[c].op = call[c].op /\ call'[c].result = call[c].result
      BY <2>1
    <2> QED
      BY <2>1, <2>2 DEF Sees
  <1> QED
    BY <1>2 DEF CallsSound, Spares

\* A call reads anew.
LEMMA RereadSpares ==
  ASSUME CallsSound, NEW c \in Callers, NEW pc, NEW seen, Reread(c, pc, seen), NEW ops, call[c].op \notin ops
  PROVE CallsSound' /\ Spares(ops)
  <1>1. CallsOK
    BY DEF CallsSound
  <1>2. /\ CallsOK' /\ DOMAIN left' = DOMAIN left
        /\ call'[c].op = call[c].op /\ call'[c].result = call[c].result
        /\ \A d \in Callers \ {c} : call'[d] = call[d] /\ crossed[d] \subseteq crossed'[d]
    <2>1. /\ CallsOK' /\ left' = left
          /\ call'[c] = [op |-> call[c].op, pc |-> pc, arg |-> call[c].arg, seen |-> seen, result |-> call[c].result]
          /\ crossed'[c] = {}
          /\ \A d \in Callers \ {c} : Sees(c, d, {})
      BY <1>1, RereadDoes
    <2>2. call'[c].op = call[c].op /\ call'[c].result = call[c].result
      BY <2>1
    <2> QED
      BY <2>1, <2>2 DEF Sees
  <1> QED
    BY <1>2 DEF CallsSound, Spares

\* A call ends.
LEMMA EndSpares ==
  ASSUME CallsSound, NEW c \in Callers, NEW result \in Refusals, NEW written, End(c, result, written),
         NEW ops, call[c].op \notin ops, None \notin ops
  PROVE CallsSound' /\ Spares(ops)
  <1>1. Idle.op = None /\ Idle.result = None
    BY DEF Idle
  <1>2. CallsOK
    BY DEF CallsSound
  <1>3. /\ CallsOK' /\ DOMAIN left' = DOMAIN left
        /\ call'[c].op \in {None, call[c].op} /\ call'[c].result \in {None, result}
        /\ \A d \in Callers \ {c} : call'[d] = call[d] /\ crossed[d] \subseteq crossed'[d]
    <2>1. /\ CallsOK' /\ left' = left
          /\ call'[c].pc = "idle" /\ call'[c].op \in {None, call[c].op}
          /\ result = None => call'[c] = Idle
          /\ result # None => call'[c] = [op |-> call[c].op, pc |-> "idle", arg |-> call[c].arg, seen |-> None, result |-> result]
          /\ crossed'[c] = crossed[c]
          /\ \A d \in Callers \ {c} : Sees(c, d, IF result = None THEN written ELSE {})
      BY <1>2, EndDoes
    <2>2. call'[c].result \in {None, result}
      BY <1>1, <2>1
    <2> QED
      BY <2>1, <2>2 DEF Sees
  <1> QED
    BY <1>3 DEF CallsSound, Spares, Refusals

\* A call of one step.
LEMMA AtomicallySpares ==
  ASSUME CallsSound, NEW c \in Callers, NEW op, NEW written, Atomically(c, op, written), NEW ops
  PROVE CallsSound' /\ Spares(ops)
  BY AtomicallyDoes DEF CallsSound, Spares, Sees

\* A call is given up where it was.
LEMMA CrashSpares ==
  ASSUME CallsSound, NEW c \in Callers, NEW op, call' = [call EXCEPT ![c] = Idle],
         left' = [left EXCEPT ![op] = @ - 1], UNCHANGED crossed, NEW ops, call[c].op \notin ops, None \notin ops
  PROVE CallsSound' /\ Spares(ops)
  <1>1. Idle.op = None /\ Idle.result = None /\ Whole(Idle)
    BY DEF Idle, Whole
  <1>2. call' = [d \in Callers |-> IF d = c THEN Idle ELSE call[d]]
    BY DEF CallsSound, CallsOK
  <1>3. DOMAIN left' = DOMAIN left
    OBVIOUS
  <1>4. CallsOK'
    BY <1>1, <1>2 DEF CallsSound, CallsOK, Whole
  <1> QED
    BY <1>1, <1>2, <1>3, <1>4 DEF CallsSound, Spares, Refusals

-----------------------------------------------------------------------------
(* Numbers and finite sets.                                                *)

\* Of some numbers one is the least.
LEMMA Least ==
  ASSUME NEW S \in SUBSET Nat, S # {}
  PROVE \E n \in S : \A m \in S : n <= m
  <1>1. PICK x \in S : \A y \in S : ~(<<y, x>> \in OpToRel(<, Nat))
    BY NatLessThanWellFounded, WFMin
  <1>2. \A y \in S : ~(y < x)
    BY <1>1 DEF OpToRel
  <1> QED
    BY <1>2

\* Of finitely many integers one is the greatest.
LEMMA Greatest ==
  ASSUME NEW S \in SUBSET Int, IsFiniteSet(S), S # {}
  PROVE \E x \in S : \A y \in S : y <= x
  <1> DEFINE Topped(U) == \E x \in U : \A y \in U : y <= x
             Bad == {n \in Nat : \E U \in SUBSET S : U # {} /\ Cardinality(U) = n /\ ~Topped(U)}
  <1>1. \A U \in SUBSET S : IsFiniteSet(U) /\ Cardinality(U) \in Nat
    BY FS_Subset, FS_CardinalityType
  <1>2. Bad = {}
    <2>1. SUFFICES ASSUME Bad # {} PROVE FALSE
      OBVIOUS
    <2>2. PICK n \in Bad : \A m \in Bad : n <= m
      <3>1. Bad \in SUBSET Nat
        OBVIOUS
      <3> HIDE DEF Bad
      <3> QED
        BY <2>1, <3>1, Least
    <2>3. PICK U \in SUBSET S : U # {} /\ Cardinality(U) = n /\ ~Topped(U)
      BY <2>2
    <2>4. PICK u \in U : TRUE
      BY <2>3
    <2> DEFINE V == U \ {u}
    <2>5. Cardinality(V) = n - 1 /\ V \in SUBSET S
      BY <1>1, <2>3, <2>4, FS_RemoveElement
    <2>6. n - 1 \notin Bad
      <3>1. n \in Nat
        BY <2>2
      <3> HIDE DEF Bad
      <3> QED
        BY <2>2, <3>1
    <2>7. V = {} \/ Topped(V)
      BY <1>1, <2>5, <2>6
    <2>8. CASE V = {}
      <3>1. U = {u}
        BY <2>4, <2>8
      <3>2. u \in Int /\ u <= u
        BY <2>3, <2>4
      <3> QED
        BY <2>3, <3>1, <3>2
    <2>9. CASE Topped(V)
      <3>1. PICK v \in V : \A y \in V : y <= v
        BY <2>9
      <3>2. \A y \in U : y \in Int
        BY <2>3
      <3>3. \E x \in U : \A y \in U : y <= x
        <4>1. CASE u <= v
          <5>1. \A y \in U : y <= v
            BY <3>1, <4>1
          <5> QED
            BY <5>1
        <4>2. CASE v <= u
          <5>1. \A y \in U : y <= u
            BY <2>4, <3>1, <3>2, <4>2
          <5> QED
            BY <2>4, <5>1
        <4> QED
          BY <2>4, <3>1, <3>2, <4>1, <4>2
      <3> QED
        BY <2>3, <3>3
    <2> QED
      BY <2>7, <2>8, <2>9
  <1>3. Cardinality(S) \in Nat /\ Cardinality(S) \notin Bad /\ S \in SUBSET S
    <2> HIDE DEF Bad
    <2> QED
      BY <1>1, <1>2
  <1> QED
    BY <1>3

\* Of more names than are taken one is free, and a first one.
LEMMA FirstFree ==
  ASSUME NEW T, IsFiniteSet(T), NEW N \in Nat, Cardinality(T) < N, NEW f, f = [n \in 1 .. N |-> f[n]],
         \A m, n \in 1 .. N : f[m] = f[n] => m = n
  PROVE \E n \in 1 .. N : f[n] \notin T /\ \A m \in 1 .. n - 1 : f[m] \in T
  <1> DEFINE F == {n \in 1 .. N : f[n] \notin T}
  <1>1. F # {}
    <2>1. SUFFICES ASSUME F = {} PROVE FALSE
      OBVIOUS
    <2>2. f \in [1 .. N -> T]
      BY <2>1
    <2>3. IsFiniteSet(1 .. N) /\ Cardinality(1 .. N) = N
      BY FS_Interval
    <2> QED
      BY <2>2, <2>3, FS_PigeonHole
  <1>2. PICK n \in F : \A m \in F : n <= m
    <2>1. F \in SUBSET Nat
      OBVIOUS
    <2> HIDE DEF F
    <2> QED
      BY <1>1, <2>1, Least
  <1>3. \A m \in 1 .. n - 1 : f[m] \in T
    <2>1. SUFFICES ASSUME NEW m \in 1 .. n - 1 PROVE m \in 1 .. N /\ m \notin F
      OBVIOUS
    <2>2. n \in 1 .. N
      OBVIOUS
    <2>3. m \in 1 .. N /\ ~(n <= m)
      BY <2>2
    <2> HIDE DEF F
    <2> QED
      BY <1>2, <2>3
  <1> QED
    BY <1>3

\* What is fresh is free, and each time another.
LEMMA FreshIs ==
  ASSUME NEW f, NEW ids, NEW n \in Nat, Room(f, ids, n)
  PROVE /\ Fresh(f, ids, n) \in [1 .. n -> ids]
        /\ DOMAIN Fresh(f, ids, n) = 1 .. n
        /\ \A i \in 1 .. n : LET x == Fresh(f, ids, n)[i] IN x \in ids /\ x \notin deleted /\ f[x] = None
        /\ \A i, j \in 1 .. n : Fresh(f, ids, n)[i] = Fresh(f, ids, n)[j] => i = j
  <1>1. \E s \in [1 .. n -> Free(f, ids)] : IsInjective(s)
    BY DEF Room
  <1>2. PICK s : s = Fresh(f, ids, n)
    OBVIOUS
  <1>3. s \in [1 .. n -> Free(f, ids)] /\ IsInjective(s)
    BY <1>1, <1>2 DEF Fresh
  <1>4. \A x \in Free(f, ids) : x \in ids /\ x \notin deleted /\ f[x] = None
    BY DEF Free
  <1>5. /\ s \in [1 .. n -> ids] /\ DOMAIN s = 1 .. n
        /\ \A i \in 1 .. n : s[i] \in ids /\ s[i] \notin deleted /\ f[s[i]] = None
        /\ \A i, j \in 1 .. n : s[i] = s[j] => i = j
    BY <1>3, <1>4 DEF IsInjective
  <1> QED
    BY <1>2, <1>5

\* A single one.
LEMMA FreshOne ==
  ASSUME NEW f, NEW ids, Room(f, ids, 1)
  PROVE LET x == Fresh(f, ids, 1)[1] IN x \in ids /\ x \notin deleted /\ f[x] = None
  BY FreshIs

\* What is enumerated are all, each once.
LEMMA EnumerateIs ==
  ASSUME NEW S, IsFiniteSet(S)
  PROVE /\ Enumerate(S) \in [1 .. Cardinality(S) -> S] /\ Cardinality(S) \in Nat
        /\ Len(Enumerate(S)) = Cardinality(S) /\ DOMAIN Enumerate(S) = 1 .. Cardinality(S)
        /\ \A i, j \in 1 .. Cardinality(S) : Enumerate(S)[i] = Enumerate(S)[j] => i = j
        /\ \A x \in S : \E i \in 1 .. Cardinality(S) : Enumerate(S)[i] = x
  <1> DEFINE n == Cardinality(S)
  <1>1. n \in Nat /\ ExistsBijection(1 .. n, S)
    BY FS_CardinalityType
  <1>2. \E s \in [1 .. n -> S] : IsInjective(s)
    BY <1>1 DEF ExistsBijection, Bijection, Injection
  <1>3. PICK s : s = Enumerate(S)
    OBVIOUS
  <1>4. s \in [1 .. n -> S] /\ IsInjective(s)
    BY <1>2, <1>3 DEF Enumerate
  <1>5. s \in Injection(1 .. n, S) /\ Cardinality(1 .. n) = n
    BY <1>1, <1>4, FS_Interval DEF Injection
  <1>6. s \in Surjection(1 .. n, S)
    BY <1>5, FS_Injection
  <1>7. \A x \in S : \E i \in 1 .. n : s[i] = x
    BY <1>6 DEF Surjection
  <1>8. Len(s) = n /\ DOMAIN s = 1 .. n
    BY <1>1, <1>4
  <1>9. \A i, j \in 1 .. n : s[i] = s[j] => i = j
    BY <1>4, <1>8 DEF IsInjective
  <1> QED
    BY <1>1, <1>3, <1>4, <1>7, <1>8, <1>9

\* A call whose one check finds no problem goes through.
LEMMA OneProblem ==
  ASSUME NEW A \in BOOLEAN, NEW a, a # None
  PROVE Problem(A, a) \in {None, a} /\ (Problem(A, a) = None <=> ~A)
  BY DEF Problem

\* One with two checks goes through if neither finds a problem.
LEMMA TwoProblems ==
  ASSUME NEW A \in BOOLEAN, NEW B \in BOOLEAN, NEW a, NEW b, a # None, b # None
  PROVE LET result == FirstOf(<<Problem(A, a), Problem(B, b)>>)
        IN result \in {None, a, b} /\ (result = None <=> ~A /\ ~B)
  BY FirstOfTwo DEF Problem

\* One with three checks likewise.
LEMMA ThreeProblems ==
  ASSUME NEW A \in BOOLEAN, NEW B \in BOOLEAN, NEW C \in BOOLEAN, NEW a, NEW b, NEW d, a # None, b # None, d # None
  PROVE LET result == FirstOf(<<Problem(A, a), Problem(B, b), Problem(C, d)>>)
        IN result \in {None, a, b, d} /\ (result = None <=> ~A /\ ~B /\ ~C)
  BY FirstOfThree DEF Problem

-----------------------------------------------------------------------------
(* The tables and the calls: what every other invariant rests on.          *)

\* What a call has been given.
NewTrackArg == [dept : Departments, en : Texts, ar : Texts, key : Texts \X Nat]
NewTreeArg == [dept : Departments, en : Texts, ar : Texts, key : Texts \X Nat, shape : Shapes]
EditArg == [track : Tracks, edit : [dept : Departments \cup {None}, en : Texts \cup {None}, ar : Texts \cup {None}]]
CopyArg == [track : Tracks, en : Texts, ar : Texts, key : Texts \X Nat]
InsertArg(parents) == [of : parents, on : BOOLEAN, skill : Skills \cup {None}]
AssignArg == [learner : Learners, track : Tracks, level : Levels]
AssignSeen == [enabled : SUBSET Outcomes, achieved : SUBSET Outcomes, retired : SUBSET Assignments]
CallTyped(x) == x.pc # "idle" =>
  /\ x.op \in CatalogueCalls => x.result = None
  /\ x.op = "createTrack" => x.arg \in NewTrackArg
  /\ x.op = "createFull" => x.arg \in NewTreeArg
  /\ x.op = "updateTrack" => x.arg \in EditArg
  /\ x.op = "copyTrack" => x.arg \in CopyArg
  /\ x.op = "deleteTrack" => x.arg \in Tracks
  /\ x.op = "deleteDepartment" => x.arg \in Departments
  /\ x.op = "createLevel" => x.arg \in InsertArg(Tracks) /\ x.seen \in Nat
  /\ x.op \in Inserts \ {"createLevel"} => x.arg \in InsertArg(Levels) /\ x.seen \in Nat
  /\ x.op = "deleteLevel" => x.arg \in Levels
  /\ x.op = "deleteOutcome" => x.arg \in Outcomes
  /\ x.op = "reorder" => x.arg \in [of : Parents, order : Seq(Rows)] /\ IsInjective(x.arg.order)
  /\ x.op = "createSkill" => x.arg \in [level : Levels \cup {None}, skill : Skills \cup {None}]
  /\ x.op = "deleteSkill" => x.arg \in Skills
  /\ x.op = "assign" => x.arg \in AssignArg /\ x.seen \in AssignSeen
  /\ x.op \in {"addCustom", "removeCustom"} => x.arg \in [assignment : Assignments, outcome : Outcomes]
\* What it has been given is where it was, or gone for good.
CallFits(x) == x.pc # "idle" =>
  /\ x.op = "reorder" => \A i \in DOMAIN x.arg.order :
       LET r == x.arg.order[i] IN IF row[r] = None THEN r \in deleted ELSE row[r].of = x.arg.of
  /\ x.op = "assign" =>
       /\ IF row[x.arg.level] = None THEN x.arg.level \in deleted ELSE row[x.arg.level].of = x.arg.track
       /\ \A o \in x.seen.enabled : IF row[o] = None THEN o \in deleted ELSE row[o].of = x.arg.level
       /\ \A a \in x.seen.retired : assignment[a] # None
  /\ x.op \in {"addCustom", "removeCustom"} => assignment[x.arg.assignment] # None

TablesSound ==
  /\ case \in Cases
  /\ department \in [Departments -> {"on", "off", "gone"}]
  /\ Tables(track, row, skill, assignment, progress) /\ Linked(track, row, skill, assignment, progress) /\ OrdersDiffer(row)
  /\ \A t \in Tracks : track[t] # None => department[track[t].dept] # "gone"
  /\ asked \in [Parents -> Seq(Rows)]
  /\ deleted \cap Present = {} /\ raced \subseteq Tracks \cup Learners
CatalogueSound == CallsSound /\ TablesSound /\ \A d \in Callers : CallTyped(call[d]) /\ CallFits(call[d])

\* Rows stay where they are until they are gone for good; an assignment stays.
Ages ==
  /\ deleted \subseteq deleted'
  /\ \A r \in Rows : row[r] = None /\ r \in deleted => row'[r] = None
  /\ \A r \in Rows : row[r] # None => IF row'[r] = None THEN r \in deleted' ELSE row'[r].of = row[r].of
  /\ \A a \in Assignments : assignment[a] # None => assignment'[a] # None

\* At the start.
LEMMA CatalogueStart ==
  ASSUME Init PROVE CatalogueSound
  <1>1. CallsSound /\ \A c \in Callers : call[c] = Idle /\ crossed[c] = {}
    BY CallsStart, CallsStartSound DEF Init
  <1>2. TablesSound
    <2>1. /\ case \in Cases /\ department = [d \in Departments |-> "on"]
          /\ track = case.track /\ row = case.row /\ skill = case.skill
          /\ assignment = case.assignment /\ progress = case.progress
          /\ asked = [p \in Parents |-> <<>>] /\ deleted = {} /\ raced = {}
      BY DEF Init
    <2>2. Tables(track, row, skill, assignment, progress) /\ Linked(track, row, skill, assignment, progress) /\ OrdersDiffer(row)
      BY <2>1, CasesAssumption
    <2>3. department \in [Departments -> {"on", "off", "gone"}] /\ \A d \in Departments : department[d] # "gone"
      BY <2>1
    <2>4. \A t \in Tracks : track[t] # None => track[t].dept \in Departments
      BY <2>2 DEF Tables, TrackRow
    <2>5. asked \in [Parents -> Seq(Rows)]
      BY <2>1
    <2> QED
      BY <2>1, <2>2, <2>3, <2>4, <2>5 DEF TablesSound
  <1>3. Idle.pc = "idle"
    BY DEF Idle
  <1> QED
    BY <1>1, <1>2, <1>3 DEF CatalogueSound, CallTyped, CallFits

\* A call under way still fits.
LEMMA StillFits ==
  ASSUME NEW x, CallTyped(x), CallFits(x), Ages
  PROVE CallFits(x)'
  <1>1. SUFFICES ASSUME x.pc # "idle" PROVE CallFits(x)'
    BY DEF CallFits
  <1>2. CASE x.op = "reorder"
    <2>1. SUFFICES ASSUME NEW i \in DOMAIN x.arg.order
                   PROVE (LET r == x.arg.order[i] IN IF row[r] = None THEN r \in deleted ELSE row[r].of = x.arg.of)'
      BY <1>2 DEF CallFits
    <2>2. x.arg.order[i] \in Rows
      BY <1>1, <1>2, <2>1 DEF CallTyped
    <2>3. IF row[x.arg.order[i]] = None THEN x.arg.order[i] \in deleted ELSE row[x.arg.order[i]].of = x.arg.of
      BY <1>1, <1>2, <2>1 DEF CallFits
    <2> QED
      BY <2>2, <2>3 DEF Ages
  <1>3. CASE x.op = "assign"
    <2>1. x.arg.level \in Rows /\ x.seen.enabled \subseteq Rows /\ x.seen.retired \subseteq Assignments
      BY <1>1, <1>3 DEF CallTyped, AssignArg, AssignSeen, Rows
    <2>2. /\ IF row[x.arg.level] = None THEN x.arg.level \in deleted ELSE row[x.arg.level].of = x.arg.track
          /\ \A o \in x.seen.enabled : IF row[o] = None THEN o \in deleted ELSE row[o].of = x.arg.level
          /\ \A a \in x.seen.retired : assignment[a] # None
      BY <1>1, <1>3 DEF CallFits
    <2>3. IF row'[x.arg.level] = None THEN x.arg.level \in deleted' ELSE row'[x.arg.level].of = x.arg.track
      BY <2>1, <2>2 DEF Ages
    <2>4. \A o \in x.seen.enabled : IF row'[o] = None THEN o \in deleted' ELSE row'[o].of = x.arg.level
      BY <2>1, <2>2 DEF Ages
    <2> QED
      BY <1>3, <2>1, <2>2, <2>3, <2>4 DEF CallFits, Ages
  <1>4. CASE x.op \in {"addCustom", "removeCustom"}
    <2>1. x.arg.assignment \in Assignments /\ assignment[x.arg.assignment] # None
      BY <1>1, <1>4 DEF CallTyped, CallFits
    <2> QED
      BY <1>4, <2>1 DEF CallFits, Ages
  <1> QED
    BY <1>2, <1>3, <1>4 DEF CallFits

\* Each step keeps the calls sound, and spares those of all other operations.
LEMMA StepSpares ==
  ASSUME CallsSound, NEW c \in Callers, NEW ops, None \notin ops
  PROVE /\ CreateTrack(c) /\ "createTrack" \notin ops => CallsSound' /\ Spares(ops)
        /\ CreateFull(c) /\ "createFull" \notin ops => CallsSound' /\ Spares(ops)
        /\ InsertTrack(c) /\ "createTrack" \notin ops => CallsSound' /\ Spares(ops)
        /\ InsertFull(c) /\ "createFull" \notin ops => CallsSound' /\ Spares(ops)
        /\ UpdateTrack(c) /\ "updateTrack" \notin ops => CallsSound' /\ Spares(ops)
        /\ SaveTrack(c) /\ "updateTrack" \notin ops => CallsSound' /\ Spares(ops)
        /\ CopyTrack(c) /\ "copyTrack" \notin ops => CallsSound' /\ Spares(ops)
        /\ InsertCopy(c) /\ "copyTrack" \notin ops => CallsSound' /\ Spares(ops)
        /\ DeleteTrack(c) /\ "deleteTrack" \notin ops => CallsSound' /\ Spares(ops)
        /\ DeleteTree(c) /\ "deleteTrack" \notin ops => CallsSound' /\ Spares(ops)
        /\ DeleteDepartment(c) /\ "deleteDepartment" \notin ops => CallsSound' /\ Spares(ops)
        /\ RemoveDepartment(c) /\ "deleteDepartment" \notin ops => CallsSound' /\ Spares(ops)
        /\ ToggleDepartment(c) => CallsSound' /\ Spares(ops)
        /\ ToggleTrack(c) => CallsSound' /\ Spares(ops)
        /\ ToggleLevel(c) => CallsSound' /\ Spares(ops)
        /\ ToggleOutcome(c) => CallsSound' /\ Spares(ops)
        /\ CreateLevel(c) /\ "createLevel" \notin ops => CallsSound' /\ Spares(ops)
        /\ CreateOutcome(c) /\ "createOutcome" \notin ops => CallsSound' /\ Spares(ops)
        /\ CopyOutcome(c) /\ "copyOutcome" \notin ops => CallsSound' /\ Spares(ops)
        /\ AddOutcome(c) /\ "addOutcome" \notin ops => CallsSound' /\ Spares(ops)
        /\ AddSkill(c) /\ "addSkill" \notin ops => CallsSound' /\ Spares(ops)
        /\ InsertRow(c) /\ ops \cap Inserts = {} => CallsSound' /\ Spares(ops)
        /\ DeleteRow(c) /\ "deleteLevel" \notin ops /\ "deleteOutcome" \notin ops => CallsSound' /\ Spares(ops)
        /\ RemoveRow(c) /\ "deleteLevel" \notin ops /\ "deleteOutcome" \notin ops => CallsSound' /\ Spares(ops)
        /\ Reorder(c) /\ "reorder" \notin ops => CallsSound' /\ Spares(ops)
        /\ MoveRows(c) /\ "reorder" \notin ops => CallsSound' /\ Spares(ops)
        /\ CreateSkill(c) /\ "createSkill" \notin ops => CallsSound' /\ Spares(ops)
        /\ SaveSkill(c) /\ "createSkill" \notin ops => CallsSound' /\ Spares(ops)
        /\ DeleteSkill(c) /\ "deleteSkill" \notin ops => CallsSound' /\ Spares(ops)
        /\ RemoveSkill(c) /\ "deleteSkill" \notin ops => CallsSound' /\ Spares(ops)
        /\ Assign(c) /\ "assign" \notin ops => CallsSound' /\ Spares(ops)
        /\ Retire(c) /\ "assign" \notin ops => CallsSound' /\ Spares(ops)
        /\ CommitAssignment(c) /\ "assign" \notin ops => CallsSound' /\ Spares(ops)
        /\ PatchOutcomes(c) /\ "addCustom" \notin ops /\ "removeCustom" \notin ops => CallsSound' /\ Spares(ops)
        /\ AddCustom(c) /\ "addCustom" \notin ops => CallsSound' /\ Spares(ops)
        /\ RemoveCustom(c) /\ "removeCustom" \notin ops => CallsSound' /\ Spares(ops)
        /\ Achieve(c) => CallsSound' /\ Spares(ops)
  <1>1. ASSUME CreateTrack(c), "createTrack" \notin ops PROVE CallsSound' /\ Spares(ops)
    BY <1>1, BeginSpares DEF CreateTrack
  <1>2. ASSUME CreateFull(c), "createFull" \notin ops PROVE CallsSound' /\ Spares(ops)
    BY <1>2, BeginSpares DEF CreateFull
  <1>3. ASSUME InsertTrack(c), "createTrack" \notin ops PROVE CallsSound' /\ Spares(ops)
    BY <1>3, FirstOfTwo, FirstOfThree, EndSpares
       DEF InsertTrack, At, Problem, Refusals, NewTrackProblem
  <1>4. ASSUME InsertFull(c), "createFull" \notin ops PROVE CallsSound' /\ Spares(ops)
    <2> DEFINE shape == call[c].arg.shape
               ss == Fresh(skill, Skills, shape.skills)
               l == Fresh(row, Levels, 1)[1]
               outcome(j) == [of |-> l, order |-> OrderInLevel(shape, j), on |-> TRUE, skill |-> ss[shape.skillOf[j]]]
               first == NewTrackProblem(call[c].arg)
               second == Problem(\E i, j \in 1 .. Len(shape.skillOf) : i # j /\ outcome(i).order = outcome(j).order, "clash")
    <2>1. call[c].op = "createFull" /\ End(c, FirstOf(<<first, second>>), {Renaming})
      BY <1>4, Zenon DEF InsertFull, At
    <2>2. first \in Refusals /\ second \in Refusals
      BY FirstOfTwo DEF NewTrackProblem, Problem, Refusals
    <2> HIDE DEF first, second
    <2>3. FirstOf(<<first, second>>) \in Refusals
      BY <1>4, <2>2, FirstOfTwo
    <2> QED
      BY <1>4, <2>1, <2>3, EndSpares
  <1>5. ASSUME UpdateTrack(c), "updateTrack" \notin ops PROVE CallsSound' /\ Spares(ops)
    BY <1>5, BeginSpares DEF UpdateTrack
  <1>6. ASSUME SaveTrack(c), "updateTrack" \notin ops PROVE CallsSound' /\ Spares(ops)
    BY <1>6, FirstOfTwo, FirstOfThree, EndSpares
       DEF SaveTrack, At, Problem, Refusals, NewTrackProblem
  <1>7. ASSUME CopyTrack(c), "copyTrack" \notin ops PROVE CallsSound' /\ Spares(ops)
    BY <1>7, BeginSpares DEF CopyTrack
  <1>8. ASSUME InsertCopy(c), "copyTrack" \notin ops PROVE CallsSound' /\ Spares(ops)
    <2> DEFINE result == FirstOf(<<Problem(track[call[c].arg.track] = None, "missing"), Problem(KeyTaken(call[c].arg.key), "clash")>>)
    <2>1. call[c].op = "copyTrack" /\ End(c, result, {Renaming})
      BY <1>8, Zenon DEF InsertCopy, At
    <2>2. result \in Refusals
      BY FirstOfTwo DEF Problem, Refusals
    <2> HIDE DEF result
    <2> QED
      BY <1>8, <2>1, <2>2, EndSpares
  <1>9. ASSUME DeleteTrack(c), "deleteTrack" \notin ops PROVE CallsSound' /\ Spares(ops)
    BY <1>9, BeginSpares DEF DeleteTrack
  <1>10. ASSUME DeleteTree(c), "deleteTrack" \notin ops PROVE CallsSound' /\ Spares(ops)
    BY <1>10, FirstOfTwo, FirstOfThree, EndSpares
       DEF DeleteTree, At, Problem, Refusals, NewTrackProblem
  <1>11. ASSUME DeleteDepartment(c), "deleteDepartment" \notin ops PROVE CallsSound' /\ Spares(ops)
    BY <1>11, BeginSpares DEF DeleteDepartment
  <1>12. ASSUME RemoveDepartment(c), "deleteDepartment" \notin ops PROVE CallsSound' /\ Spares(ops)
    BY <1>12, FirstOfTwo, FirstOfThree, EndSpares
       DEF RemoveDepartment, At, Problem, Refusals, NewTrackProblem
  <1>13. ASSUME ToggleDepartment(c) PROVE CallsSound' /\ Spares(ops)
    BY <1>13, AtomicallySpares DEF ToggleDepartment, ToggleRow
  <1>14. ASSUME ToggleTrack(c) PROVE CallsSound' /\ Spares(ops)
    BY <1>14, AtomicallySpares DEF ToggleTrack, ToggleRow
  <1>15. ASSUME ToggleLevel(c) PROVE CallsSound' /\ Spares(ops)
    BY <1>15, AtomicallySpares DEF ToggleLevel, ToggleRow
  <1>16. ASSUME ToggleOutcome(c) PROVE CallsSound' /\ Spares(ops)
    BY <1>16, AtomicallySpares DEF ToggleOutcome, ToggleRow
  <1>17. ASSUME CreateLevel(c), "createLevel" \notin ops PROVE CallsSound' /\ Spares(ops)
    BY <1>17, BeginSpares DEF CreateLevel
  <1>18. ASSUME CreateOutcome(c), "createOutcome" \notin ops PROVE CallsSound' /\ Spares(ops)
    BY <1>18, BeginSpares DEF CreateOutcome
  <1>19. ASSUME CopyOutcome(c), "copyOutcome" \notin ops PROVE CallsSound' /\ Spares(ops)
    BY <1>19, BeginSpares DEF CopyOutcome
  <1>20. ASSUME AddOutcome(c), "addOutcome" \notin ops PROVE CallsSound' /\ Spares(ops)
    BY <1>20, BeginSpares DEF AddOutcome
  <1>21. ASSUME AddSkill(c), "addSkill" \notin ops PROVE CallsSound' /\ Spares(ops)
    BY <1>21, BeginSpares DEF AddSkill
  <1>22. ASSUME InsertRow(c), ops \cap Inserts = {} PROVE CallsSound' /\ Spares(ops)
    BY <1>22, FirstOfTwo, FirstOfThree, EndSpares
       DEF InsertRow, At, Problem, Refusals, Inserts, NewTrackProblem
  <1>23. ASSUME DeleteRow(c), "deleteLevel" \notin ops
         /\ "deleteOutcome" \notin ops PROVE CallsSound' /\ Spares(ops)
    BY <1>23, BeginSpares DEF DeleteRow
  <1>24. ASSUME RemoveRow(c), "deleteLevel" \notin ops
         /\ "deleteOutcome" \notin ops PROVE CallsSound' /\ Spares(ops)
    BY <1>24, FirstOfTwo, FirstOfThree, EndSpares
       DEF RemoveRow, At, Problem, Refusals, NewTrackProblem
  <1>25. ASSUME Reorder(c), "reorder" \notin ops PROVE CallsSound' /\ Spares(ops)
    BY <1>25, BeginSpares DEF Reorder
  <1>26. ASSUME MoveRows(c), "reorder" \notin ops PROVE CallsSound' /\ Spares(ops)
    BY <1>26, FirstOfTwo, FirstOfThree, EndSpares
       DEF MoveRows, At, Problem, Refusals, NewTrackProblem
  <1>27. ASSUME CreateSkill(c), "createSkill" \notin ops PROVE CallsSound' /\ Spares(ops)
    BY <1>27, BeginSpares DEF CreateSkill
  <1>28. ASSUME SaveSkill(c), "createSkill" \notin ops PROVE CallsSound' /\ Spares(ops)
    BY <1>28, FirstOfTwo, FirstOfThree, EndSpares
       DEF SaveSkill, At, Problem, Refusals, NewTrackProblem
  <1>29. ASSUME DeleteSkill(c), "deleteSkill" \notin ops PROVE CallsSound' /\ Spares(ops)
    BY <1>29, BeginSpares DEF DeleteSkill
  <1>30. ASSUME RemoveSkill(c), "deleteSkill" \notin ops PROVE CallsSound' /\ Spares(ops)
    BY <1>30, FirstOfTwo, FirstOfThree, EndSpares
       DEF RemoveSkill, At, Problem, Refusals, NewTrackProblem
  <1>31. ASSUME Assign(c), "assign" \notin ops PROVE CallsSound' /\ Spares(ops)
    BY <1>31, BeginSpares DEF Assign
  <1>32. ASSUME Retire(c), "assign" \notin ops PROVE CallsSound' /\ Spares(ops)
    BY <1>32, GotoSpares DEF Retire, At
  <1>33. ASSUME CommitAssignment(c), "assign" \notin ops PROVE CallsSound' /\ Spares(ops)
    BY <1>33, FirstOfTwo, FirstOfThree, EndSpares
       DEF CommitAssignment, At, Problem, Refusals, NewTrackProblem
  <1>34. ASSUME PatchOutcomes(c), "addCustom" \notin ops
         /\ "removeCustom" \notin ops PROVE CallsSound' /\ Spares(ops)
    BY <1>34, BeginSpares DEF PatchOutcomes
  <1>35. ASSUME AddCustom(c), "addCustom" \notin ops PROVE CallsSound' /\ Spares(ops)
    BY <1>35, FirstOfTwo, FirstOfThree, EndSpares
       DEF AddCustom, At, Problem, Refusals, NewTrackProblem
  <1>36. ASSUME RemoveCustom(c), "removeCustom" \notin ops PROVE CallsSound' /\ Spares(ops)
    BY <1>36, FirstOfTwo, FirstOfThree, EndSpares
       DEF RemoveCustom, At, Problem, Refusals, NewTrackProblem
  <1>37. ASSUME Achieve(c) PROVE CallsSound' /\ Spares(ops)
    BY <1>37, AtomicallySpares DEF Achieve, ToggleRow
  <1> QED
    BY <1>1, <1>2, <1>3, <1>4, <1>5, <1>6, <1>7, <1>8, <1>9, <1>10, <1>11, <1>12, <1>13, <1>14,
       <1>15, <1>16, <1>17, <1>18, <1>19, <1>20, <1>21, <1>22, <1>23, <1>24, <1>25, <1>26, <1>27,
       <1>28, <1>29, <1>30, <1>31, <1>32, <1>33, <1>34, <1>35, <1>36, <1>37

\* So a step of the catalogue spares the calls of other services.
LEMMA CatalogueSpares ==
  ASSUME CallsSound, NEW c \in Callers, NEW ops, None \notin ops, ops \cap CatalogueCalls = {}, Step(c)
  PROVE CallsSound' /\ Spares(ops)
  BY StepSpares DEF Step, CatalogueCalls, Inserts

\* Tables that are left alone stay sound.
LEMMA TablesKept ==
  ASSUME TablesSound, UNCHANGED <<case, deleted, structure, holdings, asked, raced>>
  PROVE TablesSound' /\ Ages
  BY DEF TablesSound, structure, holdings, Present, Ages

\* A call begins with what the tables hold.
LEMMA SoundBegins ==
  ASSUME CatalogueSound, NEW c \in Callers, NEW op, NEW pc, NEW arg, NEW seen, Begin(c, op, pc, arg, seen),
         NEW y, y = [op |-> op, pc |-> pc, arg |-> arg, seen |-> seen, result |-> None],
         CallTyped(y), CallFits(y), CallsSound',
         UNCHANGED <<case, deleted, structure, holdings, asked, raced>>
  PROVE CatalogueSound'
  <1>1. call'[c] = y /\ \A d \in Callers \ {c} : call'[d] = call[d]
    BY BeginDoes DEF CatalogueSound, CallsSound
  <1>2. TablesSound'
    BY DEF CatalogueSound, TablesSound, structure, holdings, Present
  <1>3. \A d \in Callers : CallTyped(call'[d])
    BY <1>1 DEF CatalogueSound
  <1>4. \A d \in Callers : CallFits(call[d])'
    BY <1>1 DEF CatalogueSound, CallFits, structure, holdings
  <1> QED
    BY <1>2, <1>3, <1>4 DEF CatalogueSound, CallTyped

\* A step that writes: the calls of others still fit.
LEMMA SoundWrites ==
  ASSUME CatalogueSound, NEW c \in Callers, CallsSound', TablesSound', Ages,
         \A d \in Callers \ {c} : call'[d] = call[d], call'[c].pc = "idle"
  PROVE CatalogueSound'
  <1>1. SUFFICES ASSUME NEW d \in Callers PROVE CallTyped(call[d])' /\ CallFits(call[d])'
    BY DEF CatalogueSound
  <1>2. CASE d = c
    BY <1>2 DEF CallTyped, CallFits
  <1>3. CASE d # c
    <2>1. PICK x : x = call[d]
      OBVIOUS
    <2>2. CallTyped(x) /\ CallFits(x) /\ call'[d] = x
      BY <1>3, <2>1 DEF CatalogueSound
    <2>3. CallFits(x)' /\ CallTyped(x)'
      BY <2>2, StillFits DEF CallTyped
    <2> QED
      BY <2>2, <2>3
  <1> QED
    BY <1>2, <1>3

\* An end leaves an idle call, and a step that is all of a call leaves it as it was.
LEMMA WritesEnd ==
  ASSUME CallsSound, NEW c \in Callers, NEW result, NEW written, End(c, result, written)
  PROVE /\ \A d \in Callers \ {c} : call'[d] = call[d]
        /\ call'[c].pc = "idle"
  BY EndDoes DEF CallsSound, Sees

\* A call of one write changes nothing of the calls.
LEMMA WritesAtOnce ==
  ASSUME CallsSound, NEW c \in Callers, NEW op, NEW written, Atomically(c, op, written)
  PROVE /\ \A d \in Callers \ {c} : call'[d] = call[d]
        /\ call'[c].pc = "idle"
  BY DEF Atomically, Asked

-----------------------------------------------------------------------------
(* Numbers that calls take from the tables.                                *)

\* What a function makes of a finite set is finite, and no more.
LEMMA ImageFinite ==
  ASSUME NEW S, IsFiniteSet(S), NEW f, f = [x \in S |-> f[x]]
  PROVE LET T == {f[x] : x \in S}
        IN IsFiniteSet(T) /\ Cardinality(T) \in Nat /\ Cardinality(T) <= Cardinality(S)
  <1> DEFINE T == {f[x] : x \in S}
  <1>1. f \in Surjection(S, T)
    BY DEF Surjection
  <1>2. IsFiniteSet(T) /\ Cardinality(T) <= Cardinality(S)
    BY <1>1, FS_Surjection
  <1> QED
    BY <1>2, FS_CardinalityType

\* The greatest of finitely many integers, as the library has it.
LEMMA MaxIs ==
  ASSUME NEW S \in SUBSET Int, IsFiniteSet(S), S # {}
  PROVE Max(S) \in S /\ \A y \in S : y <= Max(S)
  <1>1. \E x \in S : \A y \in S : x >= y
    <2>1. PICK x \in S : \A y \in S : y <= x
      BY Greatest
    <2>2. \A y \in S : x >= y
      BY <2>1
    <2> QED
      BY <2>2
  <1>2. PICK x : x = Max(S)
    OBVIOUS
  <1>3. x \in S /\ \A y \in S : x >= y
    BY <1>1, <1>2 DEF Max
  <1>4. \A y \in S : y <= x
    BY <1>3
  <1> QED
    BY <1>2, <1>3, <1>4

\* A row that is there is a row, and so are tracks and skills.
LEMMA RowIs ==
  ASSUME TablesSound, NEW r \in Rows, row[r] # None
  PROVE /\ row[r] \in ListRow
        /\ row[r].of \in Parents /\ row[r].order \in Nat /\ row[r].on \in BOOLEAN /\ row[r].skill \in Skills \cup {None}
  BY DEF TablesSound, Tables, ListRow

\* A track that is there is a track.
LEMMA TrackIs ==
  ASSUME TablesSound, NEW t \in Tracks, track[t] # None
  PROVE /\ track[t] \in TrackRow
        /\ track[t].dept \in Departments /\ track[t].en \in Texts /\ track[t].ar \in Texts
        /\ track[t].key \in Texts \X Nat /\ track[t].on \in BOOLEAN
  BY DEF TablesSound, Tables, TrackRow

\* A list has finitely many rows.
LEMMA SiblingsFinite ==
  ASSUME NEW p PROVE Siblings(p) \in SUBSET Rows /\ IsFiniteSet(Siblings(p))
  <1>1. IsFiniteSet(Rows)
    BY CatalogueAssumption, FS_Union DEF Rows
  <1>2. Siblings(p) \in SUBSET Rows
    BY DEF Siblings
  <1> QED
    BY <1>1, <1>2, FS_Subset

\* An order that is taken from the list is past all of it.
LEMMA OrderPast ==
  ASSUME TablesSound, NEW p, NEW least \in {-1, 0}
  PROVE /\ Max({least} \cup Used(p)) + 1 \in Nat
        /\ \A r \in Siblings(p) : row[r].order < Max({least} \cup Used(p)) + 1
  <1> DEFINE S == Siblings(p)
             f == [r \in S |-> row[r].order]
             N == {least} \cup Used(p)
  <1>1. \A r \in S : row[r].order \in Nat
    BY RowIs DEF Siblings
  <1>2. IsFiniteSet({f[r] : r \in S})
    BY SiblingsFinite, ImageFinite
  <1>3. Used(p) = {f[r] : r \in S}
    BY DEF Used
  <1>4. IsFiniteSet(N)
    BY <1>2, <1>3, FS_AddElement
  <1>5. N \in SUBSET Int
    BY <1>1, <1>3
  <1>6. N # {}
    OBVIOUS
  <1> HIDE DEF N
  <1>7. Max(N) \in N /\ \A y \in N : y <= Max(N)
    BY <1>4, <1>5, <1>6, MaxIs
  <1>8. least \in N /\ \A r \in S : row[r].order \in N
    BY DEF N, Used
  <1>9. Max(N) \in Int /\ least <= Max(N) /\ \A r \in S : row[r].order <= Max(N)
    BY <1>5, <1>7, <1>8
  <1>10. Max(N) + 1 \in Nat /\ \A r \in S : row[r].order < Max(N) + 1
    BY <1>1, <1>9
  <1> QED
    BY <1>10 DEF N

\* The order that is next in a list is past all of its orders, whichever of the two ways it is taken.
LEMMA NextOrderIs ==
  ASSUME TablesSound, NEW p
  PROVE /\ NextOrder(p) \in Nat /\ \A r \in Siblings(p) : row[r].order < NextOrder(p)
        /\ NextPlanOrder(p) \in Nat /\ \A r \in Siblings(p) : row[r].order < NextPlanOrder(p)
  <1>1. /\ Max({-1} \cup Used(p)) + 1 \in Nat
        /\ \A r \in Siblings(p) : row[r].order < Max({-1} \cup Used(p)) + 1
    BY OrderPast
  <1>2. /\ Max({0} \cup Used(p)) + 1 \in Nat
        /\ \A r \in Siblings(p) : row[r].order < Max({0} \cup Used(p)) + 1
    BY OrderPast
  <1> QED
    BY <1>1, <1>2 DEF NextOrder, NextPlanOrder

\* A derived key is a key.
LEMMA DerivedKeyIs ==
  ASSUME TablesSound, NEW en \in Texts
  PROVE DerivedKey(en) \in Texts \X Nat
  <1> DEFINE S == {t \in Tracks : track[t] # None}
             g == [t \in S |-> track[t].key]
             T == {g[t] : t \in S}
             N == Cardinality(Tracks) + 1
             f == [n \in 1 .. N |-> <<en, n>>]
             First(n) == ~KeyTaken(<<en, n>>) /\ \A m \in 1 .. n - 1 : KeyTaken(<<en, m>>)
  <1>1. IsFiniteSet(Tracks) /\ Cardinality(Tracks) \in Nat
    BY CatalogueAssumption, FS_CardinalityType
  <1>2. IsFiniteSet(S) /\ Cardinality(S) <= Cardinality(Tracks) /\ Cardinality(S) \in Nat
    BY <1>1, FS_Subset, FS_CardinalityType
  <1>3. IsFiniteSet(T) /\ Cardinality(T) \in Nat /\ Cardinality(T) <= Cardinality(S)
    BY <1>2, ImageFinite
  <1>4. \A k : k \in T <=> KeyTaken(k)
    BY DEF KeyTaken
  <1>5. N \in Nat /\ Cardinality(T) < N
    <2> HIDE DEF S, T
    <2> QED
      BY <1>1, <1>2, <1>3
  <1>6. \E n \in 1 .. N : f[n] \notin T /\ \A m \in 1 .. n - 1 : f[m] \in T
    <2>1. \A m, n \in 1 .. N : f[m] = f[n] => m = n
      OBVIOUS
    <2>2. f = [n \in 1 .. N |-> f[n]]
      OBVIOUS
    <2> HIDE DEF f, T, N
    <2> QED
      BY <1>3, <1>5, <2>1, <2>2, FirstFree
  <1>7. PICK n \in 1 .. N : f[n] \notin T /\ \A m \in 1 .. n - 1 : f[m] \in T
    BY <1>6
  <1>8. First(n)
    <2> HIDE DEF T, N
    <2>1. \A m \in 1 .. n : f[m] = <<en, m>> /\ m \in 1 .. N
      BY <1>5
    <2>2. n \in 1 .. n /\ \A m \in 1 .. n - 1 : m \in 1 .. n
      BY <1>5
    <2> HIDE DEF f
    <2> QED
      BY <1>4, <1>7, <2>1, <2>2
  <1> DEFINE k == CHOOSE i \in 1 .. N : First(i)
  <1>9. k \in 1 .. N
    <2> HIDE DEF First, N
    <2> QED
      BY <1>7, <1>8
  <1>10. DerivedKey(en) = <<en, k>>
    BY DEF DerivedKey
  <1> HIDE DEF k, N, T
  <1>11. k \in Nat
    BY <1>5, <1>9
  <1> QED
    BY <1>10, <1>11

\* The name of a copy is a name, and one that is not taken.
LEMMA CopyNameIs ==
  ASSUME TablesSound, NEW d, NEW name \in Texts, NEW field \in {"en", "ar"}
  PROVE /\ CopyName(d, name, field) \in Texts
        /\ \A t \in Tracks : track[t] # None /\ track[t].dept = d => track[t][field] # CopyName(d, name, field)
  <1> DEFINE S == {u \in Tracks : track[u] # None /\ track[u].dept = d}
             g == [t \in S |-> track[t][field]]
             T == {g[t] : t \in S}
             taken == {track[t][field] : t \in S}
             N == Cardinality(taken) + 1
             f == [n \in 1 .. N |-> Append(name, n)]
             First(n) == Append(name, n) \notin taken /\ \A m \in 1 .. n - 1 : Append(name, m) \in taken
  <1>1. IsFiniteSet(Tracks)
    BY CatalogueAssumption
  <1>2. IsFiniteSet(S)
    BY <1>1, FS_Subset
  <1>3. IsFiniteSet(T) /\ Cardinality(T) \in Nat
    <2>1. g = [t \in S |-> g[t]]
      OBVIOUS
    <2> HIDE DEF g, S
    <2> QED
      BY <1>2, <2>1, ImageFinite
  <1>4. taken = T
    OBVIOUS
  <1>5. N \in Nat /\ Cardinality(taken) < N /\ IsFiniteSet(taken)
    <2> HIDE DEF T, taken
    <2> QED
      BY <1>3, <1>4
  <1>6. \E n \in 1 .. N : f[n] \notin taken /\ \A m \in 1 .. n - 1 : f[m] \in taken
    <2>1. \A m, n \in 1 .. N : f[m] = f[n] => m = n
      <3>1. SUFFICES ASSUME NEW m \in 1 .. N, NEW n \in 1 .. N, Append(name, m) = Append(name, n) PROVE m = n
        OBVIOUS
      <3>2. m \in Nat /\ n \in Nat /\ name \in Seq(Nat)
        BY <1>5 DEF Texts
      <3>3. Append(name, m)[Len(name) + 1] = m /\ Append(name, n)[Len(name) + 1] = n
        BY <3>2
      <3> QED
        BY <3>1, <3>3
    <2>2. f = [n \in 1 .. N |-> f[n]]
      OBVIOUS
    <2> HIDE DEF f, taken, N
    <2> QED
      BY <1>5, <2>1, <2>2, FirstFree
  <1>7. PICK n \in 1 .. N : f[n] \notin taken /\ \A m \in 1 .. n - 1 : f[m] \in taken
    BY <1>6
  <1>8. First(n)
    <2> HIDE DEF taken, N
    <2>1. \A m \in 1 .. n : f[m] = Append(name, m) /\ m \in 1 .. N
      BY <1>5
    <2>2. n \in 1 .. n /\ \A m \in 1 .. n - 1 : m \in 1 .. n
      BY <1>5
    <2> HIDE DEF f
    <2> QED
      BY <1>7, <2>1, <2>2
  <1> DEFINE k == CHOOSE i \in 1 .. N : First(i)
  <1>9. k \in 1 .. N /\ First(k)
    <2> HIDE DEF First, N
    <2> QED
      BY <1>7, <1>8
  <1>10. CopyName(d, name, field) = Append(name, k)
    BY DEF CopyName
  <1>11. k \in Nat /\ Append(name, k) \in Texts /\ Append(name, k) \notin taken
    <2>1. k \in Nat
      <3> HIDE DEF k, N
      <3> QED
        BY <1>5, <1>9
    <2>2. Append(name, k) \notin taken
      BY <1>9
    <2> HIDE DEF k
    <2> QED
      BY <2>1, <2>2 DEF Texts
  <1> HIDE DEF k
  <1> QED
    BY <1>10, <1>11

-----------------------------------------------------------------------------
(* Calls begin.                                                            *)

\* What begins fits the tables, which it leaves alone.
LEMMA Begins ==
  ASSUME CatalogueSound, CallsSound', NEW c \in Callers,
         \/ CreateTrack(c) \/ CreateFull(c) \/ UpdateTrack(c) \/ CopyTrack(c) \/ DeleteTrack(c) \/ DeleteDepartment(c)
         \/ CreateLevel(c) \/ CreateOutcome(c) \/ CopyOutcome(c) \/ AddOutcome(c) \/ DeleteRow(c) \/ Reorder(c)
         \/ CreateSkill(c) \/ DeleteSkill(c) \/ Assign(c) \/ PatchOutcomes(c)
  PROVE CatalogueSound'
  <1>0. TablesSound /\ \A n \in case.names : n.en \in Texts /\ n.ar \in Texts
    BY CasesAssumption DEF CatalogueSound, TablesSound
  <1>1. CASE CreateTrack(c)
    <2>1. PICK d \in Departments, n \in case.names, k \in 1 .. 2 :
            Begin(c, "createTrack", "write", [dept |-> d, en |-> n.en, ar |-> n.ar, key |-> <<n.en, k>>], None)
      BY <1>1 DEF CreateTrack
    <2> DEFINE y == [op |-> "createTrack", pc |-> "write", arg |-> [dept |-> d, en |-> n.en, ar |-> n.ar, key |-> <<n.en, k>>],
                     seen |-> None, result |-> None]
    <2>2. CallTyped(y) /\ CallFits(y)
      BY <1>0, <2>1 DEF CallTyped, CallFits, NewTrackArg, Inserts
    <2> QED
      BY <1>1, <2>1, <2>2, SoundBegins DEF CreateTrack
  <1>2. CASE CreateFull(c)
    <2>1. PICK d \in Departments, n \in case.names, shape \in case.shapes :
            Begin(c, "createFull", "write", [dept |-> d, en |-> n.en, ar |-> n.ar, key |-> DerivedKey(n.en), shape |-> shape], None)
      BY <1>2 DEF CreateFull
    <2> DEFINE y == [op |-> "createFull", pc |-> "write",
                     arg |-> [dept |-> d, en |-> n.en, ar |-> n.ar, key |-> DerivedKey(n.en), shape |-> shape],
                     seen |-> None, result |-> None]
    <2>2. DerivedKey(n.en) \in Texts \X Nat
      BY <1>0, DerivedKeyIs
    <2>3. shape \in Shapes
      BY <1>0, CasesAssumption DEF TablesSound
    <2>4. y.arg \in NewTreeArg
      BY <1>0, <2>2, <2>3 DEF NewTreeArg
    <2>5. CallTyped(y) /\ CallFits(y)
      BY <2>4 DEF CallTyped, CallFits, Inserts
    <2> QED
      BY <1>2, <2>1, <2>5, SoundBegins DEF CreateFull
  <1>3. CASE UpdateTrack(c)
    <2>1. PICK t \in Tracks, edit \in Edits : Begin(c, "updateTrack", "write", [track |-> t, edit |-> edit], None)
      BY <1>3 DEF UpdateTrack
    <2> DEFINE y == [op |-> "updateTrack", pc |-> "write", arg |-> [track |-> t, edit |-> edit], seen |-> None, result |-> None]
    <2>2. edit \in [dept : Departments \cup {None}, en : Texts \cup {None}, ar : Texts \cup {None}]
      BY <1>0 DEF Edits
    <2>3. CallTyped(y) /\ CallFits(y)
      BY <2>2 DEF CallTyped, CallFits, EditArg, Inserts
    <2> QED
      BY <1>3, <2>1, <2>3, SoundBegins DEF UpdateTrack
  <1>4. CASE CopyTrack(c)
    <2>1. PICK t \in Tracks : track[t] # None /\
            LET en == CopyName(track[t].dept, track[t].en, "en")
                ar == CopyName(track[t].dept, track[t].ar, "ar")
            IN Begin(c, "copyTrack", "write", [track |-> t, en |-> en, ar |-> ar, key |-> <<en, 1>>], None)
      BY <1>4 DEF CopyTrack
    <2> DEFINE en == CopyName(track[t].dept, track[t].en, "en")
               ar == CopyName(track[t].dept, track[t].ar, "ar")
               y == [op |-> "copyTrack", pc |-> "write", arg |-> [track |-> t, en |-> en, ar |-> ar, key |-> <<en, 1>>],
                     seen |-> None, result |-> None]
    <2>2. en \in Texts /\ ar \in Texts
      BY <1>0, <2>1, TrackIs, CopyNameIs
    <2>3. CallTyped(y) /\ CallFits(y)
      <3> HIDE DEF en, ar
      <3> QED
        BY <2>2 DEF CallTyped, CallFits, CopyArg, Inserts
    <2> QED
      BY <1>4, <2>1, <2>3, SoundBegins DEF CopyTrack
  <1>5. CASE DeleteTrack(c)
    <2>1. PICK t \in Tracks : Begin(c, "deleteTrack", "write", t, None)
      BY <1>5 DEF DeleteTrack
    <2> DEFINE y == [op |-> "deleteTrack", pc |-> "write", arg |-> t, seen |-> None, result |-> None]
    <2>2. CallTyped(y) /\ CallFits(y)
      BY DEF CallTyped, CallFits, Inserts
    <2> QED
      BY <1>5, <2>1, <2>2, SoundBegins DEF DeleteTrack
  <1>6. CASE DeleteDepartment(c)
    <2>1. PICK d \in Departments : Begin(c, "deleteDepartment", "write", d, None)
      BY <1>6 DEF DeleteDepartment
    <2> DEFINE y == [op |-> "deleteDepartment", pc |-> "write", arg |-> d, seen |-> None, result |-> None]
    <2>2. CallTyped(y) /\ CallFits(y)
      BY DEF CallTyped, CallFits, Inserts
    <2> QED
      BY <1>6, <2>1, <2>2, SoundBegins DEF DeleteDepartment
  <1>7. CASE CreateLevel(c)
    <2>1. PICK t \in Tracks : Begin(c, "createLevel", "write", NewRow(t, TRUE, None), NextOrder(t))
      BY <1>7 DEF CreateLevel
    <2> DEFINE y == [op |-> "createLevel", pc |-> "write", arg |-> NewRow(t, TRUE, None), seen |-> NextOrder(t), result |-> None]
    <2>2. NextOrder(t) \in Nat
      BY <1>0, NextOrderIs
    <2>3. CallTyped(y) /\ CallFits(y)
      BY <2>2 DEF CallTyped, CallFits, InsertArg, NewRow, Inserts
    <2> QED
      BY <1>7, <2>1, <2>3, SoundBegins DEF CreateLevel
  <1>8. CASE CreateOutcome(c)
    <2>1. PICK l \in Levels, s \in AnySkill : Begin(c, "createOutcome", "write", NewRow(l, TRUE, s), NextOrder(l))
      BY <1>8 DEF CreateOutcome
    <2> DEFINE y == [op |-> "createOutcome", pc |-> "write", arg |-> NewRow(l, TRUE, s), seen |-> NextOrder(l), result |-> None]
    <2>2. NextOrder(l) \in Nat /\ s \in Skills \cup {None}
      BY <1>0, NextOrderIs DEF AnySkill
    <2>3. CallTyped(y) /\ CallFits(y)
      BY <2>2 DEF CallTyped, CallFits, InsertArg, NewRow, Inserts
    <2> QED
      BY <1>8, <2>1, <2>3, SoundBegins DEF CreateOutcome
  <1>9. CASE CopyOutcome(c)
    <2>1. PICK o \in Outcomes :
            /\ row[o] # None
            /\ Begin(c, "copyOutcome", "write", NewRow(row[o].of, FALSE, row[o].skill), NextOrder(row[o].of))
      BY <1>9 DEF CopyOutcome
    <2> DEFINE y == [op |-> "copyOutcome", pc |-> "write", arg |-> NewRow(row[o].of, FALSE, row[o].skill),
                     seen |-> NextOrder(row[o].of), result |-> None]
    <2>2. NextOrder(row[o].of) \in Nat /\ row[o].skill \in Skills \cup {None} /\ row[o].of \in Levels
      BY <1>0, <2>1, RowIs, NextOrderIs DEF TablesSound, Linked, Rows
    <2>3. CallTyped(y) /\ CallFits(y)
      BY <2>2 DEF CallTyped, CallFits, InsertArg, NewRow, Inserts
    <2> QED
      BY <1>9, <2>1, <2>3, SoundBegins DEF CopyOutcome
  <1>10. CASE AddOutcome(c)
    <2>1. PICK a \in Assigned, s \in AnySkill :
            Begin(c, "addOutcome", "write", NewRow(assignment[a].level, FALSE, s), NextPlanOrder(assignment[a].level))
      BY <1>10 DEF AddOutcome
    <2> DEFINE l == assignment[a].level
               y == [op |-> "addOutcome", pc |-> "write", arg |-> NewRow(l, FALSE, s), seen |-> NextPlanOrder(l), result |-> None]
    <2>2. NextPlanOrder(l) \in Nat /\ s \in Skills \cup {None} /\ l \in Levels
      BY <1>0, NextOrderIs DEF AnySkill, Assigned, TablesSound, Tables, AssignmentRow
    <2>3. CallTyped(y) /\ CallFits(y)
      <3> HIDE DEF l
      <3> QED
        BY <2>2 DEF CallTyped, CallFits, InsertArg, NewRow, Inserts
    <2> QED
      BY <1>10, <2>1, <2>3, SoundBegins DEF AddOutcome
  <1>11. CASE DeleteRow(c)
    <2>1. PICK r \in Rows : Begin(c, IF r \in Levels THEN "deleteLevel" ELSE "deleteOutcome", "write", r, None)
      BY <1>11 DEF DeleteRow
    <2> DEFINE op == IF r \in Levels THEN "deleteLevel" ELSE "deleteOutcome"
               y == [op |-> op, pc |-> "write", arg |-> r, seen |-> None, result |-> None]
    <2>2. CallTyped(y) /\ CallFits(y)
      BY DEF CallTyped, CallFits, Rows, Inserts
    <2> QED
      BY <1>11, <2>1, <2>2, SoundBegins DEF DeleteRow
  <1>12. CASE Reorder(c)
    <2>1. PICK p \in Parents : \E s \in Requests(p) : Begin(c, "reorder", "write", [of |-> p, order |-> s], None)
      BY <1>12 DEF Reorder
    <2>2. PICK s \in Requests(p) : Begin(c, "reorder", "write", [of |-> p, order |-> s], None)
      BY <2>1
    <2> DEFINE y == [op |-> "reorder", pc |-> "write", arg |-> [of |-> p, order |-> s], seen |-> None, result |-> None]
    <2>3. IsInjective(s) /\ \E n \in 1 .. Cardinality(Siblings(p)) : s \in [1 .. n -> Siblings(p)]
      BY DEF Requests
    <2>4. PICK n \in 1 .. Cardinality(Siblings(p)) : s \in [1 .. n -> Siblings(p)]
      BY <2>3
    <2>5. n \in Nat
      <3>1. Cardinality(Siblings(p)) \in Nat
        BY SiblingsFinite, FS_CardinalityType
      <3> QED
        BY <2>4, <3>1
    <2>6. s \in Seq(Rows) /\ \A i \in DOMAIN s : row[s[i]] # None /\ row[s[i]].of = p
      BY <2>4, <2>5 DEF Siblings
    <2>7. CallTyped(y) /\ CallFits(y)
      BY <2>3, <2>6 DEF CallTyped, CallFits, Inserts
    <2> QED
      BY <1>12, <2>2, <2>7, SoundBegins DEF Reorder
  <1>13. CASE CreateSkill(c)
    <2>1. PICK l \in {None} \cup {x \in Levels : row[x] # None}, s \in {None} \cup {x \in Skills : skill[x] # None} :
            Begin(c, "createSkill", "write", [level |-> l, skill |-> s], None)
      BY <1>13 DEF CreateSkill
    <2> DEFINE y == [op |-> "createSkill", pc |-> "write", arg |-> [level |-> l, skill |-> s], seen |-> None, result |-> None]
    <2>2. CallTyped(y) /\ CallFits(y)
      BY DEF CallTyped, CallFits, Inserts
    <2> QED
      BY <1>13, <2>1, <2>2, SoundBegins DEF CreateSkill
  <1>14. CASE DeleteSkill(c)
    <2>1. PICK s \in Skills : Begin(c, "deleteSkill", "write", s, None)
      BY <1>14 DEF DeleteSkill
    <2> DEFINE y == [op |-> "deleteSkill", pc |-> "write", arg |-> s, seen |-> None, result |-> None]
    <2>2. CallTyped(y) /\ CallFits(y)
      BY DEF CallTyped, CallFits, Inserts
    <2> QED
      BY <1>14, <2>1, <2>2, SoundBegins DEF DeleteSkill
  <1>15. CASE Assign(c)
    <2>1. PICK learner \in Learners, l \in Levels :
            /\ row[l] # None
            /\ Begin(c, "assign", "retire", [learner |-> learner, track |-> row[l].of, level |-> l],
                     [enabled |-> Enabled(l), achieved |-> AchievedEver(learner), retired |-> {}])
      BY <1>15 DEF Assign
    <2> DEFINE y == [op |-> "assign", pc |-> "retire", arg |-> [learner |-> learner, track |-> row[l].of, level |-> l],
                     seen |-> [enabled |-> Enabled(l), achieved |-> AchievedEver(learner), retired |-> {}], result |-> None]
    <2>2. row[l].of \in Tracks
      BY <1>0, <2>1 DEF TablesSound, Linked
    <2>3. Enabled(l) \subseteq Outcomes /\ AchievedEver(learner) \subseteq Outcomes /\ \A o \in Enabled(l) : row[o] # None /\ row[o].of = l
      BY DEF Enabled, AchievedEver
    <2>4. CallTyped(y) /\ CallFits(y)
      BY <2>1, <2>2, <2>3 DEF CallTyped, CallFits, AssignArg, AssignSeen, Inserts
    <2> QED
      BY <1>15, <2>1, <2>4, SoundBegins DEF Assign
  <1>16. CASE PatchOutcomes(c)
    <2>1. PICK o \in Outcomes, a \in Assignments, op \in {"addCustom", "removeCustom"} :
            assignment[a] # None /\ Begin(c, op, "write", [assignment |-> a, outcome |-> o], None)
      BY <1>16 DEF PatchOutcomes, Active, Assigned
    <2> DEFINE y == [op |-> op, pc |-> "write", arg |-> [assignment |-> a, outcome |-> o], seen |-> None, result |-> None]
    <2>2. CallTyped(y) /\ CallFits(y)
      BY <2>1 DEF CallTyped, CallFits, Inserts
    <2> QED
      BY <1>16, <2>1, <2>2, SoundBegins DEF PatchOutcomes
  <1> QED
    BY <1>1, <1>2, <1>3, <1>4, <1>5, <1>6, <1>7, <1>8, <1>9, <1>10, <1>11, <1>12, <1>13, <1>14,
       <1>15, <1>16

-----------------------------------------------------------------------------
(* Tracks and departments are written.                                     *)

\* A track is added.
TrackAdded(c, t, new) ==
  /\ t \in Tracks /\ t \notin deleted /\ track[t] = None
  /\ new \in TrackRow /\ department[new.dept] # "gone"
  /\ track' = [u \in Tracks |-> IF u = t THEN new ELSE track[u]]
  /\ Mark(t, Stale(c, Renaming))

\* What the insert of a track does: it is refused, or adds one track.
LEMMA InsertTrackDoes ==
  ASSUME CatalogueSound, NEW c \in Callers, InsertTrack(c)
  PROVE /\ call[c].op = "createTrack" /\ call[c].pc = "write" /\ call[c].arg \in NewTrackArg
        /\ UNCHANGED <<case, deleted, department, row, skill, holdings, asked>>
        /\ \/ \E result \in {"clash", "referenced"} : End(c, result, {Renaming}) /\ UNCHANGED <<track, raced>>
           \/ End(c, None, {Renaming}) /\ \E t \in Tracks : TrackAdded(c, t, NewTrack(call[c].arg, call[c].arg.dept, TRUE))
  <1>1. call[c].op = "createTrack" /\ call[c].pc = "write" /\ call[c].arg \in NewTrackArg
    BY DEF InsertTrack, At, CatalogueSound, CallTyped
  <1>2. UNCHANGED <<case, deleted, department, row, skill, holdings, asked>>
    BY DEF InsertTrack
  <1> DEFINE arg == call[c].arg
             result == NewTrackProblem(arg)
             t == Fresh(track, Tracks, 1)[1]
             new == NewTrack(arg, arg.dept, TRUE)
  <1>3. result \in {None, "clash", "referenced"} /\ (result = None <=> ~KeyTaken(arg.key)
        /\ department[arg.dept] # "gone")
    BY TwoProblems, CatalogueAssumption, ZenonT(40) DEF NewTrackProblem, KeyTaken
  <1>4. CASE result # None
    BY <1>1, <1>2, <1>3, <1>4 DEF InsertTrack
  <1>5. CASE result = None
    <2>1. /\ End(c, None, {Renaming}) /\ Room(track, Tracks, 1)
          /\ track' = [track EXCEPT ![t] = new] /\ Mark(t, Stale(c, Renaming))
      BY <1>5 DEF InsertTrack
    <2>2. t \in Tracks /\ t \notin deleted /\ track[t] = None
      BY <2>1, FreshOne
    <2>3. new \in TrackRow /\ new.dept = arg.dept
      BY <1>1 DEF NewTrack, TrackRow, NewTrackArg
    <2>4. track' = [u \in Tracks |-> IF u = t THEN new ELSE track[u]]
      <3> HIDE DEF t, new
      <3> QED
        BY <2>1, <2>2 DEF CatalogueSound, TablesSound, Tables
    <2>5. TrackAdded(c, t, new)
      <3> HIDE DEF t, new
      <3> QED
        BY <1>3, <1>5, <2>1, <2>2, <2>3, <2>4 DEF TrackAdded
    <2> QED
      BY <1>1, <1>2, <2>1, <2>2, <2>5
  <1> QED
    BY <1>4, <1>5

\* The tables after a track is added, whose levels may be added with it.
LEMMA TrackAddedSound ==
  ASSUME TablesSound, NEW c \in Callers, NEW t \in Tracks, NEW new, TrackAdded(c, t, new)
  PROVE /\ track' \in [Tracks -> TrackRow \cup {None}] /\ raced' \subseteq Tracks \cup Learners
        /\ \A u \in Tracks : track[u] # None => track'[u] # None
        /\ track'[t] # None
        /\ UNCHANGED department => \A u \in Tracks : track'[u] # None => department'[track'[u].dept] # "gone"
        /\ \A u \in Tracks : track'[u] # None => track[u] # None \/ u \notin deleted
  <1>1. None \notin TrackRow
    BY CatalogueAssumption
  <1>2. track \in [Tracks -> TrackRow \cup {None}]
        /\ \A u \in Tracks : track[u] # None => department[track[u].dept] # "gone"
    BY DEF TablesSound, Tables
  <1>3. raced' \subseteq Tracks \cup Learners
    BY DEF TablesSound, Mark, TrackAdded
  <1> QED
    BY <1>1, <1>2, <1>3 DEF TrackAdded

\* The insert of a track.
LEMMA InsertTrackSound ==
  ASSUME CatalogueSound, CallsSound', NEW c \in Callers, InsertTrack(c) PROVE CatalogueSound'
  <1>1. UNCHANGED <<case, deleted, department, row, skill, holdings, asked>>
    BY DEF InsertTrack
  <1>2. PICK result : End(c, result, {Renaming})
    BY DEF InsertTrack
  <1>3. Ages
    BY <1>1 DEF Ages, holdings
  <1>4. TablesSound
    BY DEF CatalogueSound
  <1>5. ASSUME UNCHANGED <<track, raced>> PROVE TablesSound'
    BY <1>1, <1>4, <1>5, TablesKept DEF structure
  <1>6. ASSUME NEW t \in Tracks, NEW new, TrackAdded(c, t, new)
        PROVE TablesSound'
    <2>1. /\ track' \in [Tracks -> TrackRow \cup {None}] /\ raced' \subseteq Tracks \cup Learners
          /\ \A u \in Tracks : track[u] # None => track'[u] # None
          /\ track'[t] # None
          /\ \A u \in Tracks : track'[u] # None => department'[track'[u].dept] # "gone"
          /\ \A u \in Tracks : track'[u] # None => track[u] # None \/ u \notin deleted
      BY <1>1, <1>4, <1>6, TrackAddedSound
    <2>2. (Tables(track, row, skill, assignment, progress))'
      BY <1>1, <1>4, <2>1 DEF TablesSound, Tables, holdings
    <2>3. (Linked(track, row, skill, assignment, progress))'
      BY <1>1, <1>4, <2>1 DEF TablesSound, Linked, holdings
    <2>4. deleted' \cap Present' = {}
      BY <1>1, <1>4, <2>1 DEF TablesSound, Present
    <2> QED
      BY <1>1, <1>4, <2>1, <2>2, <2>3, <2>4 DEF TablesSound
  <1>7. TablesSound'
    <2>1. CASE UNCHANGED <<track, raced>>
      BY <1>5, <2>1
    <2>2. CASE \E t \in Tracks : TrackAdded(c, t, NewTrack(call[c].arg, call[c].arg.dept, TRUE))
      BY <1>6, <2>2
    <2> QED
      BY <2>1, <2>2, InsertTrackDoes
  <1> QED
    BY <1>2, <1>3, <1>7, WritesEnd, SoundWrites DEF CatalogueSound

\* A track is edited.
LEMMA SaveTrackDoes ==
  ASSUME CatalogueSound, NEW c \in Callers, SaveTrack(c)
  PROVE /\ call[c].op = "updateTrack" /\ call[c].pc = "write" /\ call[c].arg \in EditArg
        /\ UNCHANGED <<case, deleted, department, row, skill, holdings, asked>>
        /\ \/ \E result \in {"missing", "referenced"} : End(c, result, {Renaming}) /\ UNCHANGED <<track, raced>>
           \/ LET t == call[c].arg.track
                  new == Edited(track[t], call[c].arg.edit)
              IN /\ End(c, None, {Renaming}) /\ track[t] # None
                 /\ new \in TrackRow /\ department[new.dept] # "gone"
                 /\ track' = [u \in Tracks |-> IF u = t THEN new ELSE track[u]]
                 /\ Mark(t, Stale(c, Renaming))
  <1>1. call[c].op = "updateTrack" /\ call[c].pc = "write" /\ call[c].arg \in EditArg
    BY DEF SaveTrack, At, CatalogueSound, CallTyped
  <1>2. UNCHANGED <<case, deleted, department, row, skill, holdings, asked>>
    BY DEF SaveTrack
  <1> DEFINE t == call[c].arg.track
             edit == call[c].arg.edit
             result == FirstOf(<<Problem(track[t] = None, "missing"),
                                 Problem(edit.dept # None /\ department[edit.dept] = "gone", "referenced")>>)
             new == Edited(track[t], edit)
  <1>3. result \in {None, "missing", "referenced"}
        /\ (result = None <=> track[t] # None /\ ~(edit.dept # None /\ department[edit.dept] = "gone"))
    <2> DEFINE A == track[t] = None
               B == edit.dept # None /\ department[edit.dept] = "gone"
    <2>1. A \in BOOLEAN /\ B \in BOOLEAN /\ None # "missing" /\ None # "referenced"
      BY CatalogueAssumption
    <2> HIDE DEF A, B
    <2>2. LET r == FirstOf(<<Problem(A, "missing"), Problem(B, "referenced")>>)
          IN r \in {None, "missing", "referenced"} /\ (r = None <=> ~A /\ ~B)
      BY <2>1, TwoProblems
    <2> QED
      BY <2>2 DEF A, B
  <1>4. CASE result # None
    BY <1>1, <1>2, <1>3, <1>4 DEF SaveTrack
  <1>5. CASE result = None
    <2>1. /\ End(c, None, {Renaming}) /\ Mark(t, Stale(c, Renaming))
          /\ track' = [track EXCEPT ![t] = Edited(@, edit)]
      BY <1>5 DEF SaveTrack
    <2>2. TablesSound /\ t \in Tracks /\ track[t] # None
          /\ edit \in [dept : Departments \cup {None}, en : Texts \cup {None}, ar : Texts \cup {None}]
      BY <1>1, <1>3, <1>5 DEF EditArg, CatalogueSound
    <2>3. PICK old : old = track[t]
      OBVIOUS
    <2>4. old \in TrackRow /\ department[old.dept] # "gone"
      BY <2>2, <2>3 DEF TablesSound, Tables
    <2>7. track' = [u \in Tracks |-> IF u = t THEN new ELSE track[u]]
      <3> HIDE DEF t, edit
      <3> QED
        BY <2>1, <2>2 DEF TablesSound, Tables
    <2>8. new \in TrackRow /\ department[new.dept] # "gone"
      <3> HIDE DEF edit, t
      <3> QED
        BY <1>3, <1>5, <2>2, <2>3, <2>4 DEF Edited, TrackRow, Given
    <2> QED
      BY <1>1, <1>2, <2>1, <2>2, <2>7, <2>8
  <1> QED
    BY <1>4, <1>5

\* An update of a track.
LEMMA SaveTrackSound ==
  ASSUME CatalogueSound, CallsSound', NEW c \in Callers, SaveTrack(c) PROVE CatalogueSound'
  <1>1. UNCHANGED <<case, deleted, department, row, skill, holdings, asked>>
    BY DEF SaveTrack
  <1>2. PICK result : End(c, result, {Renaming})
    BY DEF SaveTrack
  <1>3. Ages
    BY <1>1 DEF Ages, holdings
  <1>4. TablesSound
    BY DEF CatalogueSound
  <1>5. ASSUME UNCHANGED <<track, raced>> PROVE TablesSound'
    BY <1>1, <1>4, <1>5, TablesKept DEF structure
  <1>6. ASSUME NEW t \in Tracks, NEW new \in TrackRow, track[t] # None, department[new.dept] # "gone",
               track' = [u \in Tracks |-> IF u = t THEN new ELSE track[u]], Mark(t, Stale(c, Renaming))
        PROVE TablesSound'
    <2>1. /\ track' \in [Tracks -> TrackRow \cup {None}] /\ raced' \subseteq Tracks \cup Learners
          /\ \A u \in Tracks : track[u] # None <=> track'[u] # None
          /\ \A u \in Tracks : track'[u] # None => department'[track'[u].dept] # "gone"
      BY <1>1, <1>4, <1>6, CatalogueAssumption DEF TablesSound, Tables, Mark
    <2>2. (Tables(track, row, skill, assignment, progress))'
      BY <1>1, <1>4, <2>1 DEF TablesSound, Tables, holdings
    <2>3. (Linked(track, row, skill, assignment, progress))'
      BY <1>1, <1>4, <2>1 DEF TablesSound, Linked, holdings
    <2>4. deleted' \cap Present' = {}
      BY <1>1, <1>4, <2>1 DEF TablesSound, Present
    <2> QED
      BY <1>1, <1>4, <2>1, <2>2, <2>3, <2>4 DEF TablesSound
  <1>7. TablesSound'
    <2> DEFINE t == call[c].arg.track
               new == Edited(track[t], call[c].arg.edit)
    <2>1. CASE UNCHANGED <<track, raced>>
      BY <1>5, <2>1
    <2>2. CASE /\ t \in Tracks /\ track[t] # None /\ new \in TrackRow /\ department[new.dept] # "gone"
               /\ track' = [u \in Tracks |-> IF u = t THEN new ELSE track[u]] /\ Mark(t, Stale(c, Renaming))
      <3> HIDE DEF t, new
      <3> QED
        BY <1>6, <2>2
    <2>3. call[c].arg \in EditArg => t \in Tracks
      BY DEF EditArg
    <2> QED
      BY <2>1, <2>2, <2>3, SaveTrackDoes
  <1> QED
    BY <1>2, <1>3, <1>7, WritesEnd, SoundWrites DEF CatalogueSound

\* Only a column that no other table looks at.
LEMMA ToggleTrackSound ==
  ASSUME CatalogueSound, CallsSound', NEW c \in Callers, ToggleTrack(c) PROVE CatalogueSound'
  <1>1. PICK t \in Tracks : track[t] # None /\ track' = [track EXCEPT ![t].on = ~@]
    BY DEF ToggleTrack
  <1>2. Atomically(c, "toggle", {})
        /\ UNCHANGED <<case, deleted, department, row, skill, holdings, asked, raced>>
    BY DEF ToggleTrack
  <1>3. TablesSound
    BY DEF CatalogueSound
  <1>5. track' \in [Tracks -> TrackRow \cup {None}]
    BY <1>1, <1>3, TrackIs, ZenonT(40) DEF TablesSound, Tables, TrackRow
  <1>11. track'[t] \in TrackRow
    BY <1>1, <1>3, TrackIs DEF TablesSound, Tables, TrackRow
  <1>4. \A u \in Tracks : track[u] # None <=> track'[u] # None
    BY <1>1, <1>3, <1>11, CatalogueAssumption DEF TablesSound, Tables
  <1>6. \A u \in Tracks : track'[u] # None => track'[u].dept = track[u].dept
    BY <1>1, <1>3, TrackIs DEF TablesSound, Tables, TrackRow
  <1>7. (Tables(track, row, skill, assignment, progress))'
    BY <1>2, <1>3, <1>5 DEF TablesSound, Tables, holdings
  <1>8. (Linked(track, row, skill, assignment, progress))'
    BY <1>2, <1>3, <1>4 DEF TablesSound, Linked, holdings
  <1>9. deleted' \cap Present' = {}
    BY <1>2, <1>3, <1>4 DEF TablesSound, Present
  <1>10. TablesSound' /\ Ages
    BY <1>2, <1>3, <1>4, <1>6, <1>7, <1>8, <1>9 DEF TablesSound, Ages, holdings
  <1> QED
    BY <1>2, <1>10, WritesAtOnce, SoundWrites DEF CatalogueSound

\* A department goes, or is switched.
LEMMA DepartmentsSound ==
  ASSUME CatalogueSound, CallsSound', NEW c \in Callers, RemoveDepartment(c) \/ ToggleDepartment(c) PROVE CatalogueSound'
  <1>1. TablesSound /\ UNCHANGED <<case, deleted, track, row, skill, holdings, asked, raced>>
    BY DEF RemoveDepartment, ToggleDepartment, CatalogueSound
  <1>2. Ages
    BY <1>1 DEF Ages, holdings
  <1>3. ASSUME department' \in [Departments -> {"on", "off", "gone"}],
               \A d \in Departments : department'[d] = "gone" => department[d] = "gone" \/ TracksIn(d) = {}
        PROVE TablesSound'
    <2>1. \A t \in Tracks : track'[t] # None => department'[track'[t].dept] # "gone"
      BY <1>1, <1>3, TrackIs DEF TablesSound, TracksIn
    <2> QED
      BY <1>1, <1>3, <2>1 DEF TablesSound, Present, holdings
  <1>4. CASE RemoveDepartment(c)
    <2> DEFINE d == call[c].arg
               result == FirstOf(<<Problem(department[d] = "gone", "missing"), Problem(TracksIn(d) # {}, "referenced")>>)
    <2>1. /\ End(c, result, {})
          /\ department' = IF result = None THEN [department EXCEPT ![d] = "gone"] ELSE department
      BY <1>4 DEF RemoveDepartment
    <2>2. result = None => TracksIn(d) = {}
      <3> DEFINE A == department[d] = "gone"
                 B == TracksIn(d) # {}
      <3>1. A \in BOOLEAN /\ B \in BOOLEAN /\ None # "missing" /\ None # "referenced"
        BY CatalogueAssumption
      <3> HIDE DEF A, B
      <3>2. FirstOf(<<Problem(A, "missing"), Problem(B, "referenced")>>) = None => ~B
        BY <3>1, TwoProblems
      <3> QED
        BY <3>2 DEF A, B
    <2>3. TablesSound'
      <3> HIDE DEF result
      <3> QED
        BY <1>1, <1>3, <2>1, <2>2 DEF TablesSound
    <2> QED
      BY <1>2, <2>1, <2>3, WritesEnd, SoundWrites DEF CatalogueSound
  <1>5. CASE ToggleDepartment(c)
    <2>1. PICK d \in Departments : department[d] # "gone" /\ department' = [department EXCEPT ![d] = IF @ = "on" THEN "off" ELSE "on"]
      BY <1>5 DEF ToggleDepartment
    <2>2. Atomically(c, "toggle", {})
      BY <1>5 DEF ToggleDepartment
    <2>3. TablesSound'
      BY <1>1, <1>3, <2>1 DEF TablesSound
    <2> QED
      BY <1>2, <2>2, <2>3, WritesAtOnce, SoundWrites DEF CatalogueSound
  <1> QED
    BY <1>4, <1>5

-----------------------------------------------------------------------------
(* Levels, outcomes and skills are written.                                *)

\* The tables after some columns of rows change that no other table looks at.
LEMMA ColumnsChange ==
  ASSUME TablesSound, UNCHANGED <<case, deleted, department, track, skill, holdings, raced>>,
         row' \in [Rows -> ListRow \cup {None}], asked' \in [Parents -> Seq(Rows)],
         \A r \in Rows : row[r] # None <=> row'[r] # None,
         \A r \in Rows : row'[r] # None => row'[r].of = row[r].of /\ row'[r].skill \in {row[r].skill, None},
         OrdersDiffer(row')
  PROVE TablesSound' /\ Ages
  <1>1. (Tables(track, row, skill, assignment, progress))'
    BY DEF TablesSound, Tables, holdings
  <1>2. (Linked(track, row, skill, assignment, progress))'
    <2>1. \A l \in Levels : row'[l] # None => row'[l].of \in Tracks /\ track'[row'[l].of] # None
      BY DEF TablesSound, Linked, Rows
    <2>2. \A o \in Outcomes : row'[o] # None => row'[o].of \in Levels /\ row'[row'[o].of] # None
      BY DEF TablesSound, Linked, Rows
    <2>3. \A r \in Rows : row'[r] # None /\ row'[r].skill # None => skill'[row'[r].skill] # None
      BY DEF TablesSound, Linked
    <2>4. \A s \in Skills : skill'[s] # None /\ skill'[s].level # None => row'[skill'[s].level] # None
      BY DEF TablesSound, Linked, Rows, Tables, SkillRow
    <2>5. \A a \in Assignments : assignment'[a] # None => /\ row'[assignment'[a].level] # None
                                                         /\ row'[assignment'[a].level].of = assignment'[a].track
      BY DEF TablesSound, Linked, Rows, Tables, AssignmentRow, holdings
    <2>6. \A a \in Assignments, o \in Outcomes : progress'[a][o] # None => assignment'[a] # None /\ row'[o] # None
      BY DEF TablesSound, Linked, Rows, holdings
    <2> QED
      BY <2>1, <2>2, <2>3, <2>4, <2>5, <2>6 DEF Linked
  <1>3. deleted' \cap Present' = {}
    BY DEF TablesSound, Present
  <1>4. OrdersDiffer(row)'
    BY DEF OrdersDiffer
  <1> QED
    BY <1>1, <1>2, <1>3, <1>4 DEF TablesSound, Ages, holdings

\* A level or an outcome is switched.
LEMMA ToggleRowSound ==
  ASSUME CatalogueSound, CallsSound', NEW c \in Callers, ToggleLevel(c) \/ ToggleOutcome(c) PROVE CatalogueSound'
  <1>1. PICK r \in Rows : row[r] # None /\ row' = [row EXCEPT ![r].on = ~@]
                           /\ Atomically(c, "toggle", {<<"outcomes", row[r].of>>})
    BY DEF ToggleLevel, ToggleOutcome, ToggleRow, Rows
  <1>2. UNCHANGED <<case, deleted, department, track, skill, holdings, asked, raced>>
    BY DEF ToggleLevel, ToggleOutcome, ToggleRow
  <1>3. TablesSound
    BY DEF CatalogueSound
  <1>4. row' \in [Rows -> ListRow \cup {None}] /\ row'[r] \in ListRow
    BY <1>1, <1>3, RowIs DEF TablesSound, Tables, ListRow
  <1>5. \A q \in Rows : row[q] # None <=> row'[q] # None
    BY <1>1, <1>3, <1>4, CatalogueAssumption DEF TablesSound, Tables
  <1>6. \A q \in Rows : row'[q] # None => row'[q].of = row[q].of /\ row'[q].order = row[q].order
        /\ row'[q].skill = row[q].skill
    BY <1>1, <1>3, RowIs DEF TablesSound, Tables, ListRow
  <1>7. OrdersDiffer(row')
    BY <1>3, <1>5, <1>6 DEF TablesSound, OrdersDiffer
  <1>8. asked' \in [Parents -> Seq(Rows)]
    BY <1>2, <1>3 DEF TablesSound
  <1>9. TablesSound' /\ Ages
    BY <1>2, <1>3, <1>4, <1>5, <1>6, <1>7, <1>8, ColumnsChange
  <1> QED
    BY <1>1, <1>9, WritesAtOnce, SoundWrites DEF CatalogueSound

\* A level or an outcome is inserted.
RowAdded(r, new) ==
  /\ r \in Rows /\ r \notin deleted /\ row[r] = None /\ new \in ListRow
  /\ row' = [q \in Rows |-> IF q = r THEN new ELSE row[q]]

\* What the insert of a row does: it is refused, or adds one row whose order was free.
LEMMA InsertRowDoes ==
  ASSUME CatalogueSound, NEW c \in Callers, InsertRow(c)
  PROVE LET arg == call[c].arg
            seen == call[c].seen
            written == {<<"insert", arg.of>>, <<"outcomes", arg.of>>}
                         \cup IF Stale(c, <<"insert", arg.of>>) THEN {<<"late", arg.of>>} ELSE {}
        IN /\ call[c].op \in Inserts /\ call[c].pc = "write"
           /\ arg.of \in (IF call[c].op = "createLevel" THEN Tracks ELSE Levels) /\ arg.on \in BOOLEAN /\ seen \in Nat
           /\ UNCHANGED <<case, deleted, department, track, skill, holdings, asked, raced>>
           /\ \/ \E result \in {"referenced", "clash"} :
                   /\ End(c, result, written) /\ UNCHANGED row
                   /\ result = "clash" => seen \in Used(arg.of)
              \/ /\ End(c, None, written) /\ There(arg.of) /\ seen \notin Used(arg.of)
                 /\ arg.skill # None => arg.skill \in Skills /\ skill[arg.skill] # None
                 /\ \E r \in (IF call[c].op = "createLevel" THEN Levels ELSE Outcomes) : RowAdded(r, RowAt(arg, seen))
  <1> DEFINE arg == call[c].arg
             seen == call[c].seen
             ids == IF call[c].op = "createLevel" THEN Levels ELSE Outcomes
             parents == IF call[c].op = "createLevel" THEN Tracks ELSE Levels
             inserting == <<"insert", arg.of>>
             written == {inserting, <<"outcomes", arg.of>>} \cup IF Stale(c, inserting) THEN {<<"late", arg.of>>} ELSE {}
             A == ~There(arg.of)
             B == arg.skill # None /\ skill[arg.skill] = None
             C == seen \in Used(arg.of)
             result == FirstOf(<<Problem(A, "referenced"), Problem(B, "referenced"), Problem(C, "clash")>>)
             r == Fresh(row, ids, 1)[1]
  <1>1. call[c].op \in Inserts /\ call[c].pc = "write"
    BY DEF InsertRow, At
  <1>2. arg \in InsertArg(parents) /\ seen \in Nat
    BY <1>1 DEF CatalogueSound, CallTyped, Inserts
  <1>3. UNCHANGED <<case, deleted, department, track, skill, holdings, asked, raced>>
    BY DEF InsertRow
  <1>4. End(c, result, written)
        /\ IF result = None THEN Room(row, ids, 1) /\ row' = [row EXCEPT ![r] = RowAt(arg, seen)] ELSE UNCHANGED row
    BY DEF InsertRow
  <1>5. arg.of \in parents /\ arg.on \in BOOLEAN /\ arg.skill \in Skills \cup {None}
    <2> HIDE DEF arg, parents
    <2> QED
      BY <1>2 DEF InsertArg
  <1>6. result \in {None, "referenced", "clash"} /\ (result = None <=> ~A /\ ~B /\ ~C)
        /\ (result = "clash" => C)
    <2>1. A \in BOOLEAN /\ B \in BOOLEAN /\ C \in BOOLEAN /\ None # "referenced" /\ None # "clash"
      BY CatalogueAssumption DEF There
    <2> HIDE DEF A, B, C
    <2>2. result \in {None, "referenced", "clash"} /\ (result = None <=> ~A /\ ~B /\ ~C)
      BY <2>1, ThreeProblems
    <2>3. result = "clash" => C
      BY <2>1, FirstOfThree DEF Problem
    <2> QED
      BY <2>2, <2>3
  <1>7. CASE result # None
    <2> HIDE DEF result, written
    <2> QED
      BY <1>1, <1>3, <1>4, <1>5, <1>2, <1>6, <1>7 DEF written
  <1>8. CASE result = None
    <2>1. Room(row, ids, 1) /\ row' = [row EXCEPT ![r] = RowAt(arg, seen)] /\ End(c, None, written)
      BY <1>4, <1>8
    <2>2. r \in ids /\ r \notin deleted /\ row[r] = None
      BY <2>1, FreshOne
    <2>3. RowAt(arg, seen) \in ListRow
      <3> HIDE DEF arg, seen
      <3> QED
        BY <1>2, <1>5 DEF RowAt, ListRow, Parents
    <2>4. RowAdded(r, RowAt(arg, seen))
      <3>1. r \in Rows /\ row = [q \in Rows |-> row[q]]
        BY <2>2 DEF Rows, CatalogueSound, TablesSound, Tables
      <3> HIDE DEF r, arg, seen
      <3> QED
        BY <2>1, <2>2, <2>3, <3>1 DEF RowAdded
    <2> HIDE DEF r, result
    <2> QED
      BY <1>1, <1>2, <1>3, <1>5, <1>6, <1>8, <2>1, <2>2, <2>4
  <1> QED
    BY <1>7, <1>8

\* The insert of a level or an outcome.
LEMMA InsertRowSound ==
  ASSUME CatalogueSound, CallsSound', NEW c \in Callers, InsertRow(c) PROVE CatalogueSound'
  <1> DEFINE arg == call[c].arg
             seen == call[c].seen
             level == call[c].op = "createLevel"
  <1>1. /\ arg.of \in (IF level THEN Tracks ELSE Levels) /\ arg.on \in BOOLEAN /\ seen \in Nat
        /\ UNCHANGED <<case, deleted, department, track, skill, holdings, asked, raced>>
    BY InsertRowDoes
  <1>2. PICK result, written : End(c, result, written)
    BY DEF InsertRow
  <1>3. TablesSound
    BY DEF CatalogueSound
  <1>4. ASSUME UNCHANGED row PROVE TablesSound' /\ Ages
    BY <1>1, <1>3, <1>4, TablesKept DEF structure
  <1>5. ASSUME There(arg.of), seen \notin Used(arg.of), arg.skill # None => arg.skill \in Skills
        /\ skill[arg.skill] # None,
               NEW r \in (IF level THEN Levels ELSE Outcomes), RowAdded(r, RowAt(arg, seen))
        PROVE TablesSound' /\ Ages
    <2>1. PICK new : new = RowAt(arg, seen)
      OBVIOUS
    <2>2. /\ new.of = arg.of /\ new.order = seen /\ new.skill = arg.skill
          /\ r \in Rows /\ r \notin deleted /\ row[r] = None /\ new \in ListRow
          /\ row' = [q \in Rows |-> IF q = r THEN new ELSE row[q]]
      BY <1>5, <2>1 DEF RowAdded, RowAt
    <2>3. new # None
      BY <2>2, CatalogueAssumption
    <2>4. level => There(new.of) /\ new.of \in Tracks /\ track[new.of] # None /\ r \in Levels /\ r \notin Outcomes
      BY <1>1, <1>5, <2>2, CatalogueAssumption DEF There
    <2>5. ~level => new.of \in Levels /\ row[new.of] # None /\ r \in Outcomes /\ r \notin Levels
      BY <1>1, <1>5, <2>2, CatalogueAssumption DEF There, Rows
    <2> HIDE DEF arg, seen, level
    <2>6. row' \in [Rows -> ListRow \cup {None}] /\ \A q \in Rows : row[q] # None => row'[q] = row[q]
      BY <1>3, <2>2 DEF TablesSound, Tables
    <2>7. (Tables(track, row, skill, assignment, progress))'
      BY <1>1, <1>3, <2>6 DEF TablesSound, Tables, holdings
    <2>8. \A l \in Levels : row'[l] # None => row'[l].of \in Tracks /\ track'[row'[l].of] # None
      BY <1>1, <1>3, <2>2, <2>4, <2>5 DEF TablesSound, Linked, Rows
    <2>9. \A o \in Outcomes : row'[o] # None => row'[o].of \in Levels /\ row'[row'[o].of] # None
      BY <1>1, <1>3, <2>2, <2>4, <2>5, <2>6 DEF TablesSound, Linked, Rows
    <2>10. \A q \in Rows : row'[q] # None /\ row'[q].skill # None => skill'[row'[q].skill] # None
      BY <1>1, <1>3, <1>5, <2>2 DEF TablesSound, Linked
    <2>11. \A s \in Skills : skill'[s] # None /\ skill'[s].level # None => row'[skill'[s].level] # None
      BY <1>1, <1>3, <2>6 DEF TablesSound, Linked, Tables, SkillRow, Rows
    <2>12. \A a \in Assignments : assignment'[a] # None => /\ row'[assignment'[a].level] # None
                                                          /\ row'[assignment'[a].level].of = assignment'[a].track
      BY <1>1, <1>3, <2>6 DEF TablesSound, Linked, Rows, Tables, AssignmentRow, holdings
    <2>13. \A a \in Assignments, o \in Outcomes : progress'[a][o] # None => assignment'[a] # None /\ row'[o] # None
      BY <1>1, <1>3, <2>6 DEF TablesSound, Linked, Rows, holdings
    <2>14. (Linked(track, row, skill, assignment, progress))'
      BY <2>8, <2>9, <2>10, <2>11, <2>12, <2>13 DEF Linked
    <2>15. \A q \in Rows : row[q] # None /\ row[q].of = new.of => row[q].order # new.order
      BY <1>5, <2>2 DEF Used, Siblings
    <2>16. OrdersDiffer(row)'
      BY <1>3, <2>2, <2>15 DEF TablesSound, OrdersDiffer
    <2>17. deleted' \cap Present' = {}
      BY <1>1, <1>3, <2>2 DEF TablesSound, Present
    <2>18. Ages
      BY <1>1, <2>2, <2>3, <2>6 DEF Ages, holdings
    <2> QED
      BY <1>1, <1>3, <2>7, <2>14, <2>16, <2>17, <2>18 DEF TablesSound
  <1>6. TablesSound' /\ Ages
    <2>1. CASE UNCHANGED row
      BY <1>4, <2>1
    <2>2. CASE /\ There(arg.of) /\ seen \notin Used(arg.of)
               /\ arg.skill # None => arg.skill \in Skills /\ skill[arg.skill] # None
               /\ \E r \in (IF level THEN Levels ELSE Outcomes) : RowAdded(r, RowAt(arg, seen))
      <3>1. PICK r \in (IF level THEN Levels ELSE Outcomes) : RowAdded(r, RowAt(arg, seen))
        BY <2>2
      <3> HIDE DEF arg, seen, level
      <3> QED
        BY <1>5, <2>2, <3>1
    <2> QED
      BY <2>1, <2>2, InsertRowDoes
  <1> QED
    BY <1>2, <1>6, WritesEnd, SoundWrites DEF CatalogueSound

\* A reorder moves the rows that it lists.
LEMMA MoveRowsDoes ==
  ASSUME CatalogueSound, NEW c \in Callers, MoveRows(c)
  PROVE LET p == call[c].arg.of
            s == call[c].arg.order
        IN /\ call[c].op = "reorder" /\ call[c].pc = "write" /\ p \in Parents /\ s \in Seq(Rows)
           /\ \A i, j \in DOMAIN s : s[i] = s[j] => i = j
           /\ UNCHANGED <<case, deleted, department, track, skill, holdings, raced>>
           /\ \/ \E result \in {"missing", "clash"} :
                   /\ End(c, result, {<<"reorder", p>>}) /\ UNCHANGED <<row, asked>>
                   /\ result = "clash" => MeetsUnlisted(p, s) /\ \A i \in DOMAIN s : row[s[i]] # None
              \/ /\ End(c, None, {<<"reorder", p>>})
                 /\ \A i \in DOMAIN s : row[s[i]] # None /\ row[s[i]].of = p
                 /\ ~MeetsUnlisted(p, s)
                 /\ row' \in [Rows -> ListRow \cup {None}]
                 /\ \A r \in Rows \ ToSet(s) : row'[r] = row[r]
                 /\ \A i \in DOMAIN s : LET r == s[i] IN
                      row'[r] = [of |-> p, order |-> i - 1, on |-> row[r].on, skill |-> row[r].skill]
                 /\ asked' = [asked EXCEPT ![p] = s]
  <1> DEFINE p == call[c].arg.of
             s == call[c].arg.order
             A == \E i \in DOMAIN s : row[s[i]] = None
             B == MeetsUnlisted(p, s)
             result == FirstOf(<<Problem(A, "missing"), Problem(B, "clash")>>)
             Place(r) == (CHOOSE i \in DOMAIN s : s[i] = r) - 1
  <1>1. call[c].op = "reorder" /\ call[c].pc = "write"
    BY DEF MoveRows, At
  <1>2. call[c].arg \in [of : Parents, order : Seq(Rows)] /\ IsInjective(s)
    BY <1>1 DEF CatalogueSound, CallTyped
  <1>3. p \in Parents /\ s \in Seq(Rows) /\ \A i, j \in DOMAIN s : s[i] = s[j] => i = j
    <2>1. p \in Parents /\ s \in Seq(Rows)
      BY <1>2
    <2> HIDE DEF s
    <2> QED
      BY <1>2, <2>1 DEF IsInjective
  <1>4. UNCHANGED <<case, deleted, department, track, skill, holdings, raced>>
    BY DEF MoveRows
  <1>5. End(c, result, {<<"reorder", p>>})
        /\ IF result = None
           THEN /\ row' = [r \in Rows |-> IF r \in ToSet(s) THEN [row[r] EXCEPT !.order = Place(r)] ELSE row[r]]
                /\ asked' = [asked EXCEPT ![p] = s]
           ELSE UNCHANGED <<row, asked>>
    BY DEF MoveRows
  <1>6. result \in {None, "missing", "clash"} /\ (result = None <=> ~A /\ ~B)
        /\ (result = "clash" => B /\ ~A)
    <2>1. A \in BOOLEAN /\ B \in BOOLEAN /\ None # "missing" /\ None # "clash"
      BY CatalogueAssumption DEF MeetsUnlisted
    <2> HIDE DEF A, B
    <2>2. result \in {None, "missing", "clash"} /\ (result = None <=> ~A /\ ~B)
      BY <2>1, TwoProblems
    <2>3. result = "clash" => B /\ ~A
      BY <2>1, FirstOfTwo DEF Problem
    <2> QED
      BY <2>2, <2>3
  <1>7. CASE result # None
    <2> HIDE DEF result, p, s
    <2> QED
      BY <1>1, <1>3, <1>4, <1>5, <1>6, <1>7 DEF p, s
  <1>8. CASE result = None
    <2>1. \A i \in DOMAIN s : row[s[i]] # None /\ row[s[i]].of = p
      <3>1. \A i \in DOMAIN s : row[s[i]] # None
        BY <1>6, <1>8
      <3>2. \A i \in DOMAIN s : row[s[i]] # None => row[s[i]].of = p
        BY <1>1 DEF CatalogueSound, CallFits
      <3> QED
        BY <3>1, <3>2
    <2>2. row' = [r \in Rows |-> IF r \in ToSet(s) THEN [row[r] EXCEPT !.order = Place(r)] ELSE row[r]]
          /\ asked' = [asked EXCEPT ![p] = s] /\ End(c, None, {<<"reorder", p>>})
      BY <1>5, <1>8
    <2>3. row \in [Rows -> ListRow \cup {None}]
      BY DEF CatalogueSound, TablesSound, Tables
    <2>4. \A i \in DOMAIN s : s[i] \in Rows /\ s[i] \in ToSet(s) /\ i \in Nat /\ i - 1 \in Nat
      <3> HIDE DEF s
      <3> QED
        BY <1>3 DEF ToSet
    <2>5. \A i \in DOMAIN s : Place(s[i]) = i - 1
      <3>1. SUFFICES ASSUME NEW i \in DOMAIN s PROVE (CHOOSE j \in DOMAIN s : s[j] = s[i]) = i
        OBVIOUS
      <3> HIDE DEF s
      <3> QED
        BY <1>3, <3>1
    <2>6. \A i \in DOMAIN s : LET r == s[i] IN
            /\ row[r] \in ListRow
            /\ row'[r] = [of |-> p, order |-> i - 1, on |-> row[r].on, skill |-> row[r].skill]
      <3>1. SUFFICES ASSUME NEW i \in DOMAIN s
                     PROVE row[s[i]] \in ListRow
                           /\ row'[s[i]] = [of |-> p, order |-> i - 1, on |-> row[s[i]].on, skill |-> row[s[i]].skill]
        OBVIOUS
      <3>2. PICK r : r = s[i]
        OBVIOUS
      <3>3. row[r] \in ListRow /\ row[r].of = p
        BY <2>1, <2>3, <2>4, <3>2
      <3>4. row'[r] = [row[r] EXCEPT !.order = i - 1]
        <4>1. row'[r] = [row[r] EXCEPT !.order = Place(r)]
          <5> HIDE DEF Place, s
          <5> QED
            BY <2>2, <2>4, <3>2
        <4>2. Place(r) = i - 1
          BY <2>5, <3>2
        <4> QED
          BY <4>1, <4>2
      <3>5. [row[r] EXCEPT !.order = i - 1] = [of |-> p, order |-> i - 1, on |-> row[r].on, skill |-> row[r].skill]
        <4> HIDE DEF p, s
        <4> QED
          BY <3>3 DEF ListRow
      <3> QED
        BY <3>2, <3>3, <3>4, <3>5
    <2>7. \A r \in Rows \ ToSet(s) : row'[r] = row[r]
      <3> HIDE DEF Place, s
      <3> QED
        BY <2>2
    <2>8. row' \in [Rows -> ListRow \cup {None}]
      <3>1. \A r \in ToSet(s) : \E i \in DOMAIN s : r = s[i]
        BY DEF ToSet
      <3>2. \A i \in DOMAIN s : row'[s[i]] \in ListRow
        <4>1. SUFFICES ASSUME NEW i \in DOMAIN s PROVE row'[s[i]] \in ListRow
          OBVIOUS
        <4>2. PICK old : old = row[s[i]]
          OBVIOUS
        <4>3. old \in ListRow /\ row'[s[i]] = [of |-> p, order |-> i - 1, on |-> old.on, skill |-> old.skill]
          BY <2>6, <4>2
        <4> HIDE DEF p, s
        <4> QED
          BY <1>3, <2>4, <4>1, <4>3 DEF ListRow
      <3>3. row' = [r \in Rows |-> row'[r]]
        <4> HIDE DEF Place, s
        <4> QED
          BY <2>2
      <3>4. \A r \in Rows : row'[r] \in ListRow \cup {None}
        <4> HIDE DEF Place, s
        <4> QED
          BY <2>3, <2>7, <3>1, <3>2
      <3> QED
        BY <3>3, <3>4
    <2>9. ~B
      BY <1>6, <1>8
    <2> HIDE DEF p, s, Place, result
    <2> QED
      BY <1>1, <1>3, <1>4, <2>1, <2>2, <2>6, <2>7, <2>8, <2>9 DEF p, s
  <1> QED
    BY <1>7, <1>8

\* A granted reorder.
LEMMA MoveRowsSound ==
  ASSUME CatalogueSound, CallsSound', NEW c \in Callers, MoveRows(c) PROVE CatalogueSound'
  <1> DEFINE p == call[c].arg.of
             s == call[c].arg.order
  <1>1. /\ p \in Parents /\ s \in Seq(Rows)
        /\ UNCHANGED <<case, deleted, department, track, skill, holdings, raced>>
        /\ \A i, j \in DOMAIN s : s[i] = s[j] => i = j
    BY MoveRowsDoes
  <1>2. PICK result, written : End(c, result, written)
    BY DEF MoveRows
  <1>3. TablesSound
    BY DEF CatalogueSound
  <1>4. ASSUME UNCHANGED <<row, asked>> PROVE TablesSound' /\ Ages
    BY <1>1, <1>3, <1>4, TablesKept DEF structure
  <1>5. ASSUME \A i \in DOMAIN s : row[s[i]] # None /\ row[s[i]].of = p, ~MeetsUnlisted(p, s),
               row' \in [Rows -> ListRow \cup {None}], \A r \in Rows \ ToSet(s) : row'[r] = row[r],
               \A i \in DOMAIN s : LET r == s[i] IN
                      row'[r] = [of |-> p, order |-> i - 1, on |-> row[r].on, skill |-> row[r].skill],
               asked' = [asked EXCEPT ![p] = s]
        PROVE TablesSound' /\ Ages
    <2> HIDE DEF p, s
    <2>1. \A r \in ToSet(s) : \E i \in DOMAIN s : r = s[i]
      BY DEF ToSet
    <2>2. \A i \in DOMAIN s : s[i] \in Rows /\ i \in 1 .. Len(s) /\ Len(s) \in Nat
      BY <1>1
    <2>3. \A i \in DOMAIN s : /\ row'[s[i]] \in ListRow
                              /\ row'[s[i]].of = p /\ row'[s[i]].order = i - 1 /\ row'[s[i]].skill = row[s[i]].skill
      <3>1. SUFFICES ASSUME NEW i \in DOMAIN s
                     PROVE /\ row'[s[i]] \in ListRow
                           /\ row'[s[i]].of = p /\ row'[s[i]].order = i - 1 /\ row'[s[i]].skill = row[s[i]].skill
        OBVIOUS
      <3>2. row'[s[i]] = [of |-> p, order |-> i - 1, on |-> row[s[i]].on, skill |-> row[s[i]].skill]
        BY <1>5, <3>1
      <3>3. row[s[i]].on \in BOOLEAN /\ row[s[i]].skill \in Skills \cup {None}
        BY <1>3, <1>5, <2>2, <3>1, RowIs
      <3>4. i - 1 \in Nat
        BY <2>2, <3>1
      <3> QED
        BY <1>1, <3>2, <3>3, <3>4 DEF ListRow
    <2>4. \A r \in Rows : row[r] # None <=> row'[r] # None
      BY <1>5, <2>1, <2>3, CatalogueAssumption
    <2>5. \A r \in Rows : row'[r] # None => row'[r].of = row[r].of /\ row'[r].skill = row[r].skill
      BY <1>5, <2>1, <2>3
    <2>6. \A q \in Rows \ ToSet(s) : row'[q] # None /\ row'[q].of = p => ~(row'[q].order < Len(s)) /\ row'[q].order \in Nat
      BY <1>3, <1>5, <2>4, RowIs DEF MeetsUnlisted, Siblings
    <2>7. OrdersDiffer(row')
      <3>1. SUFFICES ASSUME NEW q \in Rows, NEW r \in Rows, q # r, row'[q] # None, row'[r] # None, row'[q].of = row'[r].of
                     PROVE row'[q].order # row'[r].order
        BY DEF OrdersDiffer
      <3>2. CASE q \in ToSet(s) /\ r \in ToSet(s)
        <4>1. PICK i \in DOMAIN s, j \in DOMAIN s : q = s[i] /\ r = s[j]
          BY <2>1, <3>2
        <4>2. i \in Nat /\ j \in Nat /\ i # j
          BY <2>2, <3>1, <4>1
        <4> QED
          BY <2>3, <4>1, <4>2
      <3>3. CASE q \in ToSet(s) /\ r \notin ToSet(s)
        <4>1. PICK i \in DOMAIN s : q = s[i]
          BY <2>1, <3>3
        <4> QED
          BY <2>2, <2>3, <2>6, <3>1, <3>3, <4>1
      <3>4. CASE q \notin ToSet(s) /\ r \in ToSet(s)
        <4>1. PICK i \in DOMAIN s : r = s[i]
          BY <2>1, <3>4
        <4> QED
          BY <2>2, <2>3, <2>6, <3>1, <3>4, <4>1
      <3>5. CASE q \notin ToSet(s) /\ r \notin ToSet(s)
        BY <1>3, <1>5, <3>1, <3>5 DEF TablesSound, OrdersDiffer
      <3> QED
        BY <3>2, <3>3, <3>4, <3>5
    <2>8. asked' \in [Parents -> Seq(Rows)]
      BY <1>1, <1>3, <1>5 DEF TablesSound
    <2> QED
      BY <1>1, <1>3, <1>5, <2>4, <2>5, <2>7, <2>8, ColumnsChange
  <1>6. TablesSound' /\ Ages
    <2>1. CASE UNCHANGED <<row, asked>>
      BY <1>4, <2>1
    <2>2. CASE /\ \A i \in DOMAIN s : row[s[i]] # None /\ row[s[i]].of = p
               /\ ~MeetsUnlisted(p, s)
               /\ row' \in [Rows -> ListRow \cup {None}]
               /\ \A r \in Rows \ ToSet(s) : row'[r] = row[r]
               /\ \A i \in DOMAIN s : LET r == s[i] IN
                    row'[r] = [of |-> p, order |-> i - 1, on |-> row[r].on, skill |-> row[r].skill]
               /\ asked' = [asked EXCEPT ![p] = s]
      <3> HIDE DEF p, s
      <3> QED
        BY <1>5, <2>2
    <2> QED
      BY <2>1, <2>2, MoveRowsDoes
  <1> QED
    BY <1>2, <1>6, WritesEnd, SoundWrites DEF CatalogueSound

\* A level or an outcome goes, unless something holds on to it.
LEMMA RemoveRowSound ==
  ASSUME CatalogueSound, CallsSound', NEW c \in Callers, RemoveRow(c) PROVE CatalogueSound'
  <1> DEFINE r == call[c].arg
             A == row[r] = None
             B == InUse(r)
             result == FirstOf(<<Problem(A, "missing"), Problem(B, "referenced")>>)
  <1>1. /\ End(c, result, {})
        /\ row' = IF result = None THEN [row EXCEPT ![r] = None] ELSE row
        /\ deleted' = IF result = None THEN deleted \cup {r} ELSE deleted
        /\ skill' = IF result = None
                    THEN [s \in Skills |-> IF skill[s] # None /\ skill[s].level = r THEN [level |-> None] ELSE skill[s]]
                    ELSE skill
        /\ UNCHANGED <<case, department, track, holdings, asked, raced>>
    BY DEF RemoveRow
  <1>2. TablesSound
    BY DEF CatalogueSound
  <1>3. r \in Rows
    BY DEF RemoveRow, At, CatalogueSound, CallTyped, Rows
  <1>4. A \in BOOLEAN /\ B \in BOOLEAN /\ (result = None <=> ~A /\ ~B)
    <2>1. A \in BOOLEAN /\ B \in BOOLEAN /\ None # "missing" /\ None # "referenced"
      BY CatalogueAssumption DEF InUse, LevelInUse, OutcomeInUse
    <2> HIDE DEF A, B
    <2> QED
      BY <2>1, TwoProblems
  <1>5. CASE result # None
    <2>1. TablesSound' /\ Ages
      BY <1>1, <1>2, <1>5, TablesKept DEF structure
    <2> QED
      BY <1>1, <2>1, WritesEnd, SoundWrites DEF CatalogueSound
  <1>6. CASE result = None
    <2>1. /\ row' = [row EXCEPT ![r] = None] /\ deleted' = deleted \cup {r}
          /\ skill' = [s \in Skills |-> IF skill[s] # None /\ skill[s].level = r THEN [level |-> None] ELSE skill[s]]
          /\ ~B /\ row[r] # None
      BY <1>1, <1>4, <1>6
    <2>2. \A q \in Rows : row[q] # None /\ r \in Levels => row[q].of # r
      BY <2>1 DEF InUse, LevelInUse, Siblings
    <2>3. \A a \in Assignments : assignment[a] # None /\ r \in Levels => assignment[a].level # r
      BY <2>1 DEF InUse, LevelInUse, Assigned
    <2>4. r \notin Levels => \A a \in Assignments : assignment[a] # None => progress[a][r] = None
      BY <2>1 DEF InUse, OutcomeInUse, Holders, Assigned
    <2> HIDE DEF r, A, B, result
    <2>5. row' \in [Rows -> ListRow \cup {None}] /\ \A q \in Rows : row'[q] = IF q = r THEN None ELSE row[q]
      BY <1>2, <1>3, <2>1 DEF TablesSound, Tables
    <2>6. /\ skill' \in [Skills -> SkillRow \cup {None}]
          /\ \A s \in Skills : skill'[s] # None <=> skill[s] # None
          /\ \A s \in Skills : skill'[s] # None => skill'[s].level \in {None, skill[s].level} /\ skill'[s].level # r
      <3>1. [level |-> None] \in SkillRow /\ None \notin SkillRow /\ r # None
        BY <1>3, CatalogueAssumption DEF SkillRow
      <3>2. skill \in [Skills -> SkillRow \cup {None}]
        BY <1>2 DEF TablesSound, Tables
      <3> QED
        BY <2>1, <3>1, <3>2
    <2>7. (Tables(track, row, skill, assignment, progress))'
      BY <1>1, <1>2, <2>5, <2>6 DEF TablesSound, Tables, holdings
    <2>8. \A l \in Levels : row'[l] # None => row'[l].of \in Tracks /\ track'[row'[l].of] # None
      BY <1>1, <1>2, <2>5 DEF TablesSound, Linked, Rows
    <2>9. \A o \in Outcomes : row'[o] # None => row'[o].of \in Levels /\ row'[row'[o].of] # None
      BY <1>2, <2>2, <2>5 DEF TablesSound, Linked, Rows
    <2>10. \A q \in Rows : row'[q] # None /\ row'[q].skill # None => skill'[row'[q].skill] # None
      BY <1>2, <2>5, <2>6, RowIs DEF TablesSound, Linked
    <2>11. \A s \in Skills : skill'[s] # None /\ skill'[s].level # None => row'[skill'[s].level] # None
      BY <1>2, <2>5, <2>6 DEF TablesSound, Linked, Tables, SkillRow, Rows
    <2>12. \A a \in Assignments : assignment'[a] # None => /\ row'[assignment'[a].level] # None
                                                          /\ row'[assignment'[a].level].of = assignment'[a].track
      BY <1>1, <1>2, <2>3, <2>5 DEF TablesSound, Linked, Rows, Tables, AssignmentRow, holdings
    <2>13. \A a \in Assignments, o \in Outcomes : progress'[a][o] # None => assignment'[a] # None /\ row'[o] # None
      <3>1. \A o \in Outcomes : o \notin Levels
        BY CatalogueAssumption
      <3> QED
        BY <1>1, <1>2, <2>4, <2>5, <3>1 DEF TablesSound, Linked, Rows, holdings
    <2>14. (Linked(track, row, skill, assignment, progress))'
      BY <2>8, <2>9, <2>10, <2>11, <2>12, <2>13 DEF Linked
    <2>15. OrdersDiffer(row)'
      BY <1>2, <2>5 DEF TablesSound, OrdersDiffer
    <2>16. deleted' \cap Present' = {}
      BY <1>1, <1>2, <1>3, <2>1, <2>5, <2>6, CatalogueAssumption DEF TablesSound, Present
    <2>17. Ages
      BY <1>1, <2>1, <2>5 DEF Ages, holdings
    <2>18. TablesSound'
      BY <1>1, <1>2, <2>7, <2>14, <2>15, <2>16 DEF TablesSound
    <2> QED
      BY <1>1, <2>17, <2>18, WritesEnd, SoundWrites DEF CatalogueSound
  <1> QED
    BY <1>5, <1>6

\* The tables after a skill is put on a level, or on none.
LEMMA SkillPut ==
  ASSUME TablesSound, UNCHANGED <<case, deleted, department, track, row, holdings, asked, raced>>,
         NEW s \in Skills, s \notin deleted, NEW l \in Levels \cup {None}, l # None => row[l] # None,
         skill' = [skill EXCEPT ![s] = [level |-> l]]
  PROVE TablesSound' /\ Ages
  <1>1. /\ skill' \in [Skills -> SkillRow \cup {None}]
        /\ \A x \in Skills : skill[x] # None => skill'[x] # None
        /\ \A x \in Skills : x # s => skill'[x] = skill[x]
        /\ skill'[s].level = l
    <2>1. [level |-> l] \in SkillRow /\ None \notin SkillRow
      BY CatalogueAssumption DEF SkillRow
    <2> QED
      BY <2>1 DEF TablesSound, Tables
  <1>2. (Tables(track, row, skill, assignment, progress))'
    BY <1>1 DEF TablesSound, Tables, holdings
  <1>3. (Linked(track, row, skill, assignment, progress))'
    BY <1>1, RowIs DEF TablesSound, Linked, holdings
  <1>4. deleted' \cap Present' = {}
    BY <1>1 DEF TablesSound, Present
  <1> QED
    BY <1>2, <1>3, <1>4 DEF TablesSound, Ages, holdings

\* A skill is created, or moved.
LEMMA SaveSkillSound ==
  ASSUME CatalogueSound, CallsSound', NEW c \in Callers, SaveSkill(c) PROVE CatalogueSound'
  <1> DEFINE l == call[c].arg.level
             old == call[c].arg.skill
             s == IF old = None THEN Fresh(skill, Skills, 1)[1] ELSE old
             A == l # None /\ row[l] = None
             B == old # None /\ skill[old] = None
             result == FirstOf(<<Problem(A, "referenced"), Problem(B, "missing")>>)
  <1>1. /\ End(c, result, {})
        /\ result = None /\ old = None => Room(skill, Skills, 1)
        /\ skill' = IF result = None THEN [skill EXCEPT ![s] = [level |-> l]] ELSE skill
        /\ UNCHANGED <<case, deleted, department, track, row, holdings, asked, raced>>
    BY DEF SaveSkill
  <1>2. TablesSound /\ l \in Levels \cup {None} /\ old \in Skills \cup {None}
    BY DEF CatalogueSound, SaveSkill, At, CallTyped
  <1>3. result = None => ~A /\ ~B
    <2>1. A \in BOOLEAN /\ B \in BOOLEAN /\ None # "missing" /\ None # "referenced"
      BY CatalogueAssumption
    <2> HIDE DEF A, B
    <2> QED
      BY <2>1, TwoProblems
  <1>4. CASE result # None
    <2>1. TablesSound' /\ Ages
      BY <1>1, <1>2, <1>4, TablesKept DEF structure
    <2> QED
      BY <1>1, <2>1, WritesEnd, SoundWrites DEF CatalogueSound
  <1>5. CASE result = None
    <2>1. s \in Skills /\ s \notin deleted
      <3>1. CASE old = None
        BY <1>1, <1>5, <3>1, FreshOne
      <3>2. CASE old # None
        BY <1>2, <1>3, <1>5, <3>2 DEF TablesSound, Present
      <3> QED
        BY <3>1, <3>2
    <2>2. skill' = [skill EXCEPT ![s] = [level |-> l]] /\ (l # None => row[l] # None)
      BY <1>1, <1>3, <1>5
    <2> HIDE DEF s, l
    <2>3. TablesSound' /\ Ages
      BY <1>1, <1>2, <2>1, <2>2, SkillPut
    <2> QED
      BY <1>1, <2>3, WritesEnd, SoundWrites DEF CatalogueSound
  <1> QED
    BY <1>4, <1>5

\* A skill is added to a plan; its outcome comes later.
LEMMA AddSkillSound ==
  ASSUME CatalogueSound, CallsSound', NEW c \in Callers, AddSkill(c) PROVE CatalogueSound'
  <1> DEFINE s == Fresh(skill, Skills, 1)[1]
  <1>1. UNCHANGED <<case, deleted, department, track, row, holdings, asked, raced>> /\ TablesSound
    BY DEF AddSkill, CatalogueSound
  <1>2. PICK a \in Assigned :
          /\ Room(skill, Skills, 1)
          /\ skill' = [skill EXCEPT ![s] = [level |-> None]]
          /\ Begin(c, "addSkill", "write", NewRow(assignment[a].level, FALSE, s), NextPlanOrder(assignment[a].level))
    BY DEF AddSkill
  <1> DEFINE l == assignment[a].level
             y == [op |-> "addSkill", pc |-> "write", arg |-> NewRow(l, FALSE, s), seen |-> NextPlanOrder(l), result |-> None]
  <1>3. s \in Skills /\ s \notin deleted
    BY <1>2, FreshOne
  <1>4. NextPlanOrder(l) \in Nat /\ l \in Levels
    BY <1>1, NextOrderIs DEF Assigned, TablesSound, Tables, AssignmentRow
  <1>5. call'[c] = y /\ \A d \in Callers \ {c} : call'[d] = call[d]
    <2>1. CallsOK
      BY DEF CatalogueSound, CallsSound
    <2>2. Begin(c, "addSkill", "write", NewRow(l, FALSE, s), NextPlanOrder(l))
      BY <1>2
    <2> DEFINE arg == NewRow(l, FALSE, s)
               seen == NextPlanOrder(l)
    <2>3. Begin(c, "addSkill", "write", arg, seen)
      BY <2>2
    <2>4. y = [op |-> "addSkill", pc |-> "write", arg |-> arg, seen |-> seen, result |-> None]
      OBVIOUS
    <2> HIDE DEF l, s, arg, seen, y
    <2>5. /\ call'[c] = [op |-> "addSkill", pc |-> "write", arg |-> arg, seen |-> seen, result |-> None]
          /\ \A d \in Callers \ {c} : call'[d] = call[d]
      BY <2>1, <2>3, BeginDoes
    <2> QED
      BY <2>4, <2>5
  <1>6. CallTyped(y)
    <2> HIDE DEF l, s
    <2> QED
      BY <1>3, <1>4 DEF CallTyped, InsertArg, NewRow, Inserts
  <1>7. TablesSound' /\ Ages
    <2>1. skill' = [skill EXCEPT ![s] = [level |-> None]]
      BY <1>2
    <2> HIDE DEF s
    <2> QED
      BY <1>1, <1>3, <2>1, SkillPut
  <1>8. SUFFICES ASSUME NEW d \in Callers PROVE CallTyped(call[d])' /\ CallFits(call[d])'
    BY <1>7 DEF CatalogueSound
  <1>9. CASE d = c
    <2>1. y.op = "addSkill"
      OBVIOUS
    <2> HIDE DEF y
    <2> QED
      BY <1>5, <1>6, <1>9, <2>1 DEF CallTyped, CallFits
  <1>10. CASE d # c
    <2>1. PICK x : x = call[d]
      OBVIOUS
    <2>2. CallTyped(x) /\ CallFits(x) /\ call'[d] = x
      BY <1>5, <1>10, <2>1 DEF CatalogueSound
    <2>3. CallFits(x)' /\ CallTyped(x)'
      BY <1>7, <2>2, StillFits DEF CallTyped
    <2> QED
      BY <2>2, <2>3
  <1> QED
    BY <1>9, <1>10

\* A skill goes, and its rows stay without it.
LEMMA RemoveSkillSound ==
  ASSUME CatalogueSound, CallsSound', NEW c \in Callers, RemoveSkill(c) PROVE CatalogueSound'
  <1> DEFINE s == call[c].arg
  <1>1. /\ End(c, Problem(skill[s] = None, "missing"), {})
        /\ deleted' = deleted \cup {s} /\ skill' = [skill EXCEPT ![s] = None]
        /\ row' = [r \in Rows |-> IF row[r] # None /\ row[r].skill = s THEN [row[r] EXCEPT !.skill = None] ELSE row[r]]
        /\ UNCHANGED <<case, department, track, holdings, asked, raced>>
    BY DEF RemoveSkill
  <1>2. TablesSound /\ s \in Skills
    BY DEF RemoveSkill, At, CatalogueSound, CallTyped
  <1> HIDE DEF s
  <1>3. \A r \in Rows : row[r] # None => [row[r] EXCEPT !.skill = None] =
          [of |-> row[r].of, order |-> row[r].order, on |-> row[r].on, skill |-> None]
    <2>1. \A x \in ListRow : [x EXCEPT !.skill = None] = [of |-> x.of, order |-> x.order, on |-> x.on, skill |-> None]
      BY DEF ListRow
    <2> QED
      BY <1>2, <2>1, RowIs
  <1>4. \A r \in Rows :
          /\ row'[r] \in ListRow \cup {None} /\ (row[r] # None <=> row'[r] # None)
          /\ row'[r] # None => /\ row'[r].of = row[r].of /\ row'[r].order = row[r].order
                               /\ row'[r].skill \in {None, row[r].skill} /\ row'[r].skill # s
    <2>1. SUFFICES ASSUME NEW r \in Rows
          PROVE /\ row'[r] \in ListRow \cup {None} /\ (row[r] # None <=> row'[r] # None)
                /\ row'[r] # None => /\ row'[r].of = row[r].of /\ row'[r].order = row[r].order
                                     /\ row'[r].skill \in {None, row[r].skill} /\ row'[r].skill # s
      OBVIOUS
    <2>2. CASE row[r] # None /\ row[r].skill = s
      <3>1. row'[r] = [of |-> row[r].of, order |-> row[r].order, on |-> row[r].on, skill |-> None]
        BY <1>1, <1>3, <2>2
      <3>2. row'[r] \in ListRow
        BY <1>2, <2>2, <3>1, RowIs DEF ListRow
      <3> QED
        BY <1>2, <2>2, <3>1, <3>2, CatalogueAssumption
    <2>3. CASE ~(row[r] # None /\ row[r].skill = s)
      <3>1. row'[r] = row[r]
        BY <1>1, <2>3
      <3> QED
        BY <1>2, <2>3, <3>1 DEF TablesSound, Tables
    <2> QED
      BY <2>2, <2>3
  <1>5. row' \in [Rows -> ListRow \cup {None}]
    BY <1>1, <1>4
  <1>6. skill' \in [Skills -> SkillRow \cup {None}]
        /\ \A x \in Skills : skill'[x] = IF x = s THEN None ELSE skill[x]
    BY <1>1, <1>2 DEF TablesSound, Tables
  <1>7. (Tables(track, row, skill, assignment, progress))'
    BY <1>1, <1>2, <1>5, <1>6 DEF TablesSound, Tables, holdings
  <1>8. (Linked(track, row, skill, assignment, progress))'
    <2>1. \A l \in Levels : row'[l] # None => row'[l].of \in Tracks /\ track'[row'[l].of] # None
      BY <1>1, <1>2, <1>4 DEF TablesSound, Linked, Rows
    <2>2. \A o \in Outcomes : row'[o] # None => row'[o].of \in Levels /\ row'[row'[o].of] # None
      BY <1>2, <1>4 DEF TablesSound, Linked, Rows
    <2>3. \A r \in Rows : row'[r] # None /\ row'[r].skill # None => skill'[row'[r].skill] # None
      BY <1>2, <1>4, <1>6, RowIs DEF TablesSound, Linked
    <2>4. \A x \in Skills : skill'[x] # None /\ skill'[x].level # None => row'[skill'[x].level] # None
      BY <1>2, <1>4, <1>6 DEF TablesSound, Linked, Rows, Tables, SkillRow
    <2>5. \A a \in Assignments : assignment'[a] # None => /\ row'[assignment'[a].level] # None
                                                         /\ row'[assignment'[a].level].of = assignment'[a].track
      <3>1. \A a \in Assignments : assignment[a] # None =>
              /\ assignment[a].level \in Rows
              /\ row[assignment[a].level] # None /\ row[assignment[a].level].of = assignment[a].track
        BY <1>2 DEF TablesSound, Linked, Rows, Tables, AssignmentRow
      <3>2. assignment' = assignment
        BY <1>1 DEF holdings
      <3> QED
        BY <1>4, <3>1, <3>2
    <2>6. \A a \in Assignments, o \in Outcomes : progress'[a][o] # None => assignment'[a] # None /\ row'[o] # None
      BY <1>1, <1>2, <1>4, ZenonT(40) DEF TablesSound, Linked, Rows, holdings
    <2> QED
      BY <2>1, <2>2, <2>3, <2>4, <2>5, <2>6 DEF Linked
  <1>9. OrdersDiffer(row)'
    BY <1>2, <1>4 DEF TablesSound, OrdersDiffer
  <1>10. deleted' \cap Present' = {}
    BY <1>1, <1>2, <1>4, <1>6, CatalogueAssumption DEF TablesSound, Present
  <1>11. Ages
    BY <1>1, <1>4 DEF Ages, holdings
  <1>12. TablesSound'
    BY <1>1, <1>2, <1>7, <1>8, <1>9, <1>10 DEF TablesSound
  <1> QED
    BY <1>1, <1>11, <1>12, WritesEnd, SoundWrites DEF CatalogueSound

-----------------------------------------------------------------------------
(* What learners hold is written.                                          *)

\* The tables after assignments and progress rows change, and nothing else does.
LEMMA HoldingsChange ==
  ASSUME TablesSound, UNCHANGED <<case, deleted, structure, asked>>, raced' \subseteq Tracks \cup Learners,
         assignment' \in [Assignments -> AssignmentRow \cup {None}],
         progress' \in [Assignments -> [Outcomes -> ProgressRow \cup {None}]],
         \A a \in Assignments : assignment'[a] # None => /\ row[assignment'[a].level] # None
                                                        /\ row[assignment'[a].level].of = assignment'[a].track,
         \A a \in Assignments, o \in Outcomes : progress'[a][o] # None => assignment'[a] # None /\ row[o] # None,
         \A a \in Assignments : assignment[a] # None => assignment'[a] # None
  PROVE TablesSound' /\ Ages
  <1>1. (Tables(track, row, skill, assignment, progress))'
    BY DEF TablesSound, Tables, structure
  <1>2. (Linked(track, row, skill, assignment, progress))'
    BY DEF TablesSound, Linked, structure
  <1> QED
    BY <1>1, <1>2 DEF TablesSound, structure, Present, Ages

\* An assign has retired what it has seen to be active.
LEMMA RetireSound ==
  ASSUME CatalogueSound, CallsSound', NEW c \in Callers, Retire(c) PROVE CatalogueSound'
  <1> DEFINE arg == call[c].arg
             seen == call[c].seen
             new == [seen EXCEPT !.retired = Active(arg.learner)]
             y == [op |-> "assign", pc |-> "write", arg |-> arg, seen |-> new, result |-> call[c].result]
  <1>1. /\ call[c].op = "assign" /\ call[c].pc = "retire" /\ arg \in AssignArg
        /\ seen \in AssignSeen
        /\ call[c].result = None
    BY DEF Retire, At, CatalogueSound, CallTyped, CatalogueCalls
  <1>2. Goto(c, "write", new, {}) /\ UNCHANGED <<case, deleted, structure, holdings, asked, raced>>
    BY DEF Retire
  <1>3. call'[c] = y /\ \A d \in Callers \ {c} : call'[d] = call[d]
    <2>1. CallsOK
      BY DEF CatalogueSound, CallsSound
    <2>2. Goto(c, "write", new, {})
      BY <1>2
    <2> HIDE DEF new
    <2>3. /\ call'[c] = [op |-> call[c].op, pc |-> "write", arg |-> call[c].arg, seen |-> new, result |-> call[c].result]
          /\ \A d \in Callers \ {c} : Sees(c, d, {})
      BY <2>1, <2>2, GotoDoes
    <2> QED
      BY <1>1, <2>3 DEF Sees
  <1>4. /\ new \in AssignSeen /\ new.enabled = seen.enabled
        /\ \A a \in new.retired : assignment[a] # None
    <2>1. Active(arg.learner) \in SUBSET Assignments /\ \A a \in Active(arg.learner) : assignment[a] # None
      BY DEF Active, Assigned
    <2>2. PICK S : S = Active(arg.learner)
      OBVIOUS
    <2> HIDE DEF seen
    <2> QED
      BY <1>1, <2>1, <2>2 DEF AssignSeen
  <1>5. CallTyped(y)
    <2> HIDE DEF arg, new
    <2> QED
      BY <1>1, <1>4 DEF CallTyped, Inserts
  <1>6. CallFits(y)
    <2>1. /\ IF row[arg.level] = None THEN arg.level \in deleted ELSE row[arg.level].of = arg.track
          /\ \A o \in seen.enabled : IF row[o] = None THEN o \in deleted ELSE row[o].of = arg.level
      BY <1>1 DEF CatalogueSound, CallFits
    <2> HIDE DEF arg, new, seen
    <2> QED
      BY <1>4, <2>1 DEF CallFits
  <1>7. TablesSound' /\ Ages
    BY <1>2, TablesKept DEF CatalogueSound
  <1>8. SUFFICES ASSUME NEW d \in Callers PROVE CallTyped(call[d])' /\ CallFits(call[d])'
    BY <1>7 DEF CatalogueSound
  <1>9. PICK x : x = IF d = c THEN y ELSE call[d]
    OBVIOUS
  <1>10. CallTyped(x) /\ CallFits(x) /\ call'[d] = x
    <2> HIDE DEF y
    <2> QED
      BY <1>3, <1>5, <1>6, <1>9 DEF CatalogueSound
  <1>11. CallFits(x)' /\ CallTyped(x)'
    BY <1>7, <1>10, StillFits DEF CallTyped
  <1> QED
    BY <1>10, <1>11

\* An outcome is added to what a learner has.
LEMMA AddCustomSound ==
  ASSUME CatalogueSound, CallsSound', NEW c \in Callers, AddCustom(c) PROVE CatalogueSound'
  <1> DEFINE a == call[c].arg.assignment
             o == call[c].arg.outcome
             A == row[o] = None
             B == progress[a][o] # None
             result == FirstOf(<<Problem(A, "referenced"), Problem(B, "clash")>>)
             new == [status |-> "NOT_STARTED", custom |-> TRUE]
  <1>1. /\ End(c, result, {})
        /\ progress' = IF result = None THEN [progress EXCEPT ![a][o] = new] ELSE progress
        /\ UNCHANGED <<case, deleted, structure, assignment, asked, raced>>
    BY DEF AddCustom
  <1>2. TablesSound /\ a \in Assignments /\ o \in Outcomes /\ assignment[a] # None
    BY DEF AddCustom, At, CatalogueSound, CallTyped, CallFits
  <1>3. result = None => ~A
    <2>1. A \in BOOLEAN /\ B \in BOOLEAN /\ None # "clash" /\ None # "referenced"
      BY CatalogueAssumption
    <2> HIDE DEF A, B
    <2> QED
      BY <2>1, TwoProblems
  <1>4. TablesSound' /\ Ages
    <2>1. CASE result # None
      BY <1>1, <1>2, <2>1, TablesKept DEF holdings
    <2>2. CASE result = None
      <3>1. new \in ProgressRow
        BY DEF ProgressRow, Statuses
      <3>2. progress \in [Assignments -> [Outcomes -> ProgressRow \cup {None}]] /\ row[o] # None
            /\ progress' = [progress EXCEPT ![a][o] = new]
        BY <1>1, <1>2, <1>3, <2>2 DEF TablesSound, Tables
      <3> HIDE DEF a, o, new
      <3>3. progress' \in [Assignments -> [Outcomes -> ProgressRow \cup {None}]]
        BY <1>2, <3>1, <3>2
      <3>4. \A b \in Assignments, q \in Outcomes : progress'[b][q] # None => (b = a /\ q = o) \/ progress[b][q] # None
        BY <1>2, <3>2
      <3>5. UNCHANGED <<case, deleted, structure, asked, assignment, raced>>
        BY <1>1
      <3>6. /\ raced' \subseteq Tracks \cup Learners /\ assignment' \in [Assignments -> AssignmentRow \cup {None}]
            /\ \A b \in Assignments : assignment'[b] # None => /\ row[assignment'[b].level] # None
                                                              /\ row[assignment'[b].level].of = assignment'[b].track
        BY <1>2, <3>5 DEF TablesSound, Tables, Linked
      <3>7. \A b \in Assignments, q \in Outcomes : progress'[b][q] # None => assignment'[b] # None /\ row[q] # None
        BY <1>2, <3>2, <3>4, <3>5 DEF TablesSound, Linked
      <3> QED
        BY <1>2, <3>3, <3>5, <3>6, <3>7, HoldingsChange
    <2> QED
      BY <2>1, <2>2
  <1>5. PICK answer : answer = result
    OBVIOUS
  <1> QED
    BY <1>1, <1>4, <1>5, WritesEnd, SoundWrites DEF CatalogueSound

\* A progress row goes, or changes its status.
LEMMA ProgressChange ==
  ASSUME TablesSound, UNCHANGED <<case, deleted, structure, assignment, asked, raced>>,
         progress' \in [Assignments -> [Outcomes -> ProgressRow \cup {None}]],
         \A b \in Assignments, q \in Outcomes : progress'[b][q] # None => progress[b][q] # None
  PROVE TablesSound' /\ Ages
  <1>1. /\ raced' \subseteq Tracks \cup Learners
        /\ assignment' \in [Assignments -> AssignmentRow \cup {None}]
        /\ \A b \in Assignments : assignment'[b] # None => /\ row[assignment'[b].level] # None
                                                          /\ row[assignment'[b].level].of = assignment'[b].track
        /\ \A b \in Assignments, q \in Outcomes : progress'[b][q] # None => assignment'[b] # None /\ row[q] # None
        /\ \A b \in Assignments : assignment[b] # None => assignment'[b] # None
    BY DEF TablesSound, Tables, Linked
  <1> QED
    BY <1>1, HoldingsChange

\* An outcome is taken from what a learner has.
LEMMA RemoveCustomSound ==
  ASSUME CatalogueSound, CallsSound', NEW c \in Callers, RemoveCustom(c) PROVE CatalogueSound'
  <1> DEFINE a == call[c].arg.assignment
             o == call[c].arg.outcome
             result == Problem(progress[a][o] = None, "missing")
  <1>1. /\ End(c, result, {<<"achieve", assignment[a].learner>>})
        /\ progress' = [progress EXCEPT ![a][o] = None]
        /\ UNCHANGED <<case, deleted, structure, assignment, asked, raced>>
    BY DEF RemoveCustom
  <1>2. TablesSound /\ a \in Assignments /\ o \in Outcomes
        /\ progress \in [Assignments -> [Outcomes -> ProgressRow \cup {None}]]
    BY DEF RemoveCustom, At, CatalogueSound, CallTyped, TablesSound, Tables
  <1>3. TablesSound' /\ Ages
    <2> HIDE DEF a, o
    <2>1. /\ progress' \in [Assignments -> [Outcomes -> ProgressRow \cup {None}]]
          /\ \A b \in Assignments, q \in Outcomes : progress'[b][q] # None => progress[b][q] # None
      BY <1>1, <1>2
    <2> QED
      BY <1>1, <1>2, <2>1, ProgressChange
  <1>4. PICK answer, written : answer = result /\ written = {<<"achieve", assignment[a].learner>>}
    OBVIOUS
  <1> QED
    BY <1>1, <1>3, <1>4, WritesEnd, SoundWrites DEF CatalogueSound

\* A verdict on an outcome.
LEMMA AchieveSound ==
  ASSUME CatalogueSound, CallsSound', NEW c \in Callers, Achieve(c) PROVE CatalogueSound'
  <1>1. UNCHANGED <<case, deleted, structure, assignment, asked, raced>>
    BY DEF Achieve
  <1>2. PICK a \in Assigned, o \in Outcomes, status \in {"ACHIEVED", "IN_PROGRESS"} :
          /\ progress[a][o] # None
          /\ progress' = [progress EXCEPT ![a][o].status = status]
          /\ Atomically(c, "achieve", {<<"achieve", assignment[a].learner>>})
    BY DEF Achieve
  <1>3. TablesSound /\ a \in Assignments
        /\ progress \in [Assignments -> [Outcomes -> ProgressRow \cup {None}]]
    BY DEF CatalogueSound, Assigned, TablesSound, Tables
  <1>4. TablesSound' /\ Ages
    <2>1. PICK old : old = progress[a][o]
      OBVIOUS
    <2>2. old \in ProgressRow /\ [old EXCEPT !.status = status] \in ProgressRow
      BY <1>2, <1>3, <2>1 DEF ProgressRow, Statuses
    <2>3. progress' = [progress EXCEPT ![a][o] = [old EXCEPT !.status = status]]
      BY <1>2, <2>1, Zenon
    <2>4. PICK new : new = [old EXCEPT !.status = status]
      OBVIOUS
    <2>5. /\ progress' \in [Assignments -> [Outcomes -> ProgressRow \cup {None}]]
          /\ \A b \in Assignments, q \in Outcomes : progress'[b][q] # None => progress[b][q] # None
      BY <1>2, <1>3, <2>2, <2>3, <2>4
    <2> QED
      BY <1>1, <1>3, <2>5, ProgressChange
  <1> QED
    BY <1>2, <1>4, WritesAtOnce, SoundWrites DEF CatalogueSound

\* An assign is committed: the learner is on the level, and what it has retired is not active.
Assigns(c, a) ==
  LET arg == call[c].arg
      seen == call[c].seen
  IN /\ a \in Assignments /\ assignment[a] = None
     /\ row[arg.level] # None /\ row[arg.level].of = arg.track
     /\ \A o \in seen.enabled : row[o] # None /\ row[o].of = arg.level
     /\ assignment' \in [Assignments -> AssignmentRow \cup {None}]
     /\ assignment'[a] = [learner |-> arg.learner, track |-> arg.track, level |-> arg.level, active |-> TRUE]
     /\ \A b \in Assignments \ {a} :
          IF b \in seen.retired
          THEN /\ assignment[b] # None
               /\ assignment'[b] = [learner |-> assignment[b].learner, track |-> assignment[b].track,
                                    level |-> assignment[b].level, active |-> FALSE]
          ELSE assignment'[b] = assignment[b]
     /\ progress' \in [Assignments -> [Outcomes -> ProgressRow \cup {None}]]
     /\ \A b \in Assignments \ {a} : progress'[b] = progress[b]
     /\ \A o \in Outcomes : progress'[a][o] =
          IF o \in seen.enabled THEN [status |-> IF o \in seen.achieved THEN "ACHIEVED" ELSE "NOT_STARTED", custom |-> FALSE]
          ELSE None
     /\ Mark(arg.learner, Stale(c, <<"assign", arg.learner>>))

\* What the commit of an assign does: it is refused, or adds one assignment.
LEMMA CommitDoes ==
  ASSUME CatalogueSound, NEW c \in Callers, CommitAssignment(c)
  PROVE LET arg == call[c].arg
            written == {<<"assign", arg.learner>>}
                         \cup IF Stale(c, <<"achieve", arg.learner>>) THEN {<<"achieve", arg.learner>>} ELSE {}
        IN /\ call[c].op = "assign" /\ call[c].pc = "write" /\ arg \in AssignArg /\ call[c].seen \in AssignSeen
           /\ UNCHANGED <<case, deleted, structure, asked>>
           /\ \/ End(c, "referenced", written) /\ UNCHANGED <<holdings, raced>>
              \/ End(c, None, written) /\ \E a \in Assignments : Assigns(c, a)
  <1> DEFINE arg == call[c].arg
             seen == call[c].seen
             assigning == <<"assign", arg.learner>>
             achieving == <<"achieve", arg.learner>>
             written == {assigning} \cup IF Stale(c, achieving) THEN {achieving} ELSE {}
             A == row[arg.level] = None \/ \E o \in seen.enabled : row[o] = None
             result == Problem(A, "referenced")
             a == Fresh(assignment, Assignments, 1)[1]
             mine == [learner |-> arg.learner, track |-> arg.track, level |-> arg.level, active |-> TRUE]
             mark(o) == [status |-> IF o \in seen.achieved THEN "ACHIEVED" ELSE "NOT_STARTED", custom |-> FALSE]
             rows == [o \in Outcomes |-> IF o \in seen.enabled THEN mark(o) ELSE None]
  <1>1. call[c].op = "assign" /\ call[c].pc = "write" /\ arg \in AssignArg /\ seen \in AssignSeen
    BY DEF CommitAssignment, At, CatalogueSound, CallTyped
  <1>2. UNCHANGED <<case, deleted, structure, asked>>
    BY DEF CommitAssignment
  <1>3. /\ End(c, result, written)
        /\ IF result = None
           THEN /\ Room(assignment, Assignments, 1)
                /\ assignment' = [b \in Assignments |->
                     IF b = a THEN mine
                     ELSE IF b \in seen.retired THEN [assignment[b] EXCEPT !.active = FALSE] ELSE assignment[b]]
                /\ progress' = [progress EXCEPT ![a] = rows]
                /\ Mark(arg.learner, Stale(c, assigning))
           ELSE UNCHANGED <<holdings, raced>>
    BY DEF CommitAssignment
  <1>4. result \in {None, "referenced"} /\ (result = None <=> ~A)
    <2>1. A \in BOOLEAN /\ None # "referenced"
      BY CatalogueAssumption
    <2> HIDE DEF A
    <2> QED
      BY <2>1, OneProblem
  <1>5. CASE result # None
    <2> HIDE DEF result, written
    <2> QED
      BY <1>1, <1>2, <1>3, <1>4, <1>5 DEF written
  <1>6. CASE result = None
    <2>1. /\ End(c, None, written) /\ Room(assignment, Assignments, 1)
          /\ assignment' = [b \in Assignments |->
               IF b = a THEN mine
               ELSE IF b \in seen.retired THEN [assignment[b] EXCEPT !.active = FALSE] ELSE assignment[b]]
          /\ progress' = [progress EXCEPT ![a] = rows]
          /\ Mark(arg.learner, Stale(c, assigning))
      BY <1>3, <1>6
    <2>2. a \in Assignments /\ assignment[a] = None
      BY <2>1, FreshOne
    <2>3. row[arg.level] # None /\ \A o \in seen.enabled : row[o] # None
      BY <1>4, <1>6
    <2>4. /\ IF row[arg.level] = None THEN arg.level \in deleted ELSE row[arg.level].of = arg.track
          /\ \A o \in seen.enabled : IF row[o] = None THEN o \in deleted ELSE row[o].of = arg.level
          /\ \A b \in seen.retired : assignment[b] # None
      BY <1>1 DEF CatalogueSound, CallFits
    <2>5. /\ assignment \in [Assignments -> AssignmentRow \cup {None}]
          /\ progress \in [Assignments -> [Outcomes -> ProgressRow \cup {None}]]
      BY DEF CatalogueSound, TablesSound, Tables
    <2>6. mine \in AssignmentRow
      <3> HIDE DEF arg
      <3> QED
        BY <1>1 DEF AssignArg, AssignmentRow
    <2>7. rows \in [Outcomes -> ProgressRow \cup {None}]
      BY DEF ProgressRow, Statuses
    <2>8. \A b \in seen.retired : b \in Assignments /\
            [assignment[b] EXCEPT !.active = FALSE] = [learner |-> assignment[b].learner, track |-> assignment[b].track,
                                                       level |-> assignment[b].level, active |-> FALSE]
            /\ [assignment[b] EXCEPT !.active = FALSE] \in AssignmentRow
      <3>1. seen.retired \subseteq Assignments
        BY <1>1 DEF AssignSeen
      <3>2. \A x \in AssignmentRow : /\ [x EXCEPT !.active = FALSE] =
                                         [learner |-> x.learner, track |-> x.track, level |-> x.level, active |-> FALSE]
                                    /\ [x EXCEPT !.active = FALSE] \in AssignmentRow
        <4>1. \A x \in AssignmentRow : [x EXCEPT !.active = FALSE] =
                                        [learner |-> x.learner, track |-> x.track, level |-> x.level, active |-> FALSE]
          <5>1. SUFFICES ASSUME NEW x \in AssignmentRow
                         PROVE [x EXCEPT !.active = FALSE] =
                                 [learner |-> x.learner, track |-> x.track, level |-> x.level, active |-> FALSE]
            OBVIOUS
          <5>2. PICK y : y = [x EXCEPT !.active = FALSE]
            OBVIOUS
          <5>3. x \in [learner : Learners, track : Tracks, level : Levels, active : BOOLEAN]
            BY <5>1 DEF AssignmentRow
          <5>4. y = [learner |-> x.learner, track |-> x.track, level |-> x.level, active |-> FALSE]
            BY <5>2, <5>3
          <5> QED
            BY <5>2, <5>4
        <4>2. \A x \in AssignmentRow : [learner |-> x.learner, track |-> x.track, level |-> x.level, active |-> FALSE] \in AssignmentRow
          BY DEF AssignmentRow
        <4> QED
          BY <4>1, <4>2
      <3> HIDE DEF seen
      <3> QED
        BY <2>4, <2>5, <3>1, <3>2 DEF seen
    <2>9. Assigns(c, a)
      <3>1. /\ assignment'[a] = mine
            /\ assignment' \in [Assignments -> AssignmentRow \cup {None}]
            /\ \A b \in Assignments \ {a} :
                 IF b \in seen.retired
                 THEN /\ assignment[b] # None
                      /\ assignment'[b] = [learner |-> assignment[b].learner, track |-> assignment[b].track,
                                           level |-> assignment[b].level, active |-> FALSE]
                 ELSE assignment'[b] = assignment[b]
        <4> HIDE DEF a, mine, seen, arg
        <4> QED
          BY <2>1, <2>2, <2>4, <2>5, <2>6, <2>8 DEF seen
      <3>2. /\ progress' \in [Assignments -> [Outcomes -> ProgressRow \cup {None}]]
            /\ \A b \in Assignments \ {a} : progress'[b] = progress[b]
            /\ progress'[a] = rows
        <4> HIDE DEF a, rows
        <4> QED
          BY <2>1, <2>2, <2>5, <2>7
      <3>3. \A o \in Outcomes : progress'[a][o] = IF o \in seen.enabled THEN mark(o) ELSE None
        <4> HIDE DEF a, mark
        <4> QED
          BY <3>2
      <3> HIDE DEF a
      <3> QED
        BY <2>1, <2>2, <2>3, <2>4, <3>1, <3>2, <3>3 DEF Assigns
    <2> HIDE DEF a
    <2> QED
      BY <1>1, <1>2, <2>1, <2>2, <2>9
  <1> QED
    BY <1>5, <1>6

\* The tables after an assignment is committed.
LEMMA CommitSound ==
  ASSUME CatalogueSound, CallsSound', NEW c \in Callers, CommitAssignment(c) PROVE CatalogueSound'
  <1> DEFINE arg == call[c].arg
             seen == call[c].seen
  <1>1. TablesSound /\ arg \in AssignArg /\ seen \in AssignSeen
        /\ UNCHANGED <<case, deleted, structure, asked>>
    BY CommitDoes DEF CatalogueSound
  <1>2. ASSUME UNCHANGED <<holdings, raced>> PROVE TablesSound' /\ Ages
    BY <1>1, <1>2, TablesKept
  <1>3. ASSUME NEW a \in Assignments, Assigns(c, a) PROVE TablesSound' /\ Ages
    <2>1. raced' \subseteq Tracks \cup Learners
      <3>1. arg.learner \in Learners
        BY <1>1 DEF AssignArg
      <3> QED
        BY <1>1, <1>3, <3>1 DEF Assigns, Mark, TablesSound
    <2>2. \A b \in Assignments \ {a} : assignment'[b] # None =>
            /\ assignment[b] # None
            /\ assignment'[b].level = assignment[b].level /\ assignment'[b].track = assignment[b].track
      BY <1>3 DEF Assigns
    <2>3. /\ assignment'[a].level = arg.level /\ assignment'[a].track = arg.track /\ assignment'[a] # None
          /\ row[arg.level] # None /\ row[arg.level].of = arg.track
      <3>1. assignment'[a] = [learner |-> arg.learner, track |-> arg.track, level |-> arg.level, active |-> TRUE]
            /\ row[arg.level] # None /\ row[arg.level].of = arg.track
        BY <1>3 DEF Assigns
      <3>2. assignment'[a] \in AssignmentRow
        <4> HIDE DEF arg
        <4> QED
          BY <1>1, <3>1 DEF AssignmentRow, AssignArg
      <3>3. assignment'[a] # None
        BY <3>2, CatalogueAssumption
      <3>4. assignment'[a].level = arg.level /\ assignment'[a].track = arg.track
        <4> HIDE DEF arg
        <4> QED
          BY <3>1
      <3> QED
        BY <3>1, <3>3, <3>4
    <2>4. \A b \in Assignments : assignment[b] # None => assignment'[b] # None
      <3>1. \A b \in Assignments \ {a} : b \in seen.retired /\ assignment[b] # None => assignment'[b] \in AssignmentRow
        <4>1. \A b \in Assignments \ {a} : b \in seen.retired =>
                assignment'[b] = [learner |-> assignment[b].learner, track |-> assignment[b].track,
                                  level |-> assignment[b].level, active |-> FALSE]
          BY <1>3 DEF Assigns
        <4>2. \A b \in Assignments : assignment[b] # None => assignment[b] \in AssignmentRow
          BY <1>1 DEF TablesSound, Tables
        <4>3. \A x \in AssignmentRow : [learner |-> x.learner, track |-> x.track, level |-> x.level, active |-> FALSE] \in AssignmentRow
          BY DEF AssignmentRow
        <4> HIDE DEF seen
        <4> QED
          BY <4>1, <4>2, <4>3
      <3>2. \A b \in Assignments \ {a} : b \notin seen.retired => assignment'[b] = assignment[b]
        BY <1>3 DEF Assigns
      <3> HIDE DEF seen
      <3> QED
        BY <2>3, <3>1, <3>2, CatalogueAssumption
    <2>5. \A b \in Assignments : assignment'[b] # None => /\ row[assignment'[b].level] # None
                                                         /\ row[assignment'[b].level].of = assignment'[b].track
      <3> HIDE DEF arg
      <3> QED
        BY <1>1, <2>2, <2>3 DEF TablesSound, Linked
    <2>6. \A b \in Assignments, o \in Outcomes : progress'[b][o] # None => assignment'[b] # None /\ row[o] # None
      <3>1. /\ \A b \in Assignments \ {a} : progress'[b] = progress[b]
            /\ \A o \in Outcomes : progress'[a][o] # None => o \in seen.enabled
            /\ \A o \in seen.enabled : row[o] # None
        BY <1>3 DEF Assigns
      <3> HIDE DEF seen
      <3> QED
        BY <1>1, <2>3, <2>4, <3>1 DEF TablesSound, Linked
    <2>7. /\ assignment' \in [Assignments -> AssignmentRow \cup {None}]
          /\ progress' \in [Assignments -> [Outcomes -> ProgressRow \cup {None}]]
      BY <1>3 DEF Assigns
    <2> QED
      BY <1>1, <2>1, <2>4, <2>5, <2>6, <2>7, HoldingsChange
  <1>4. TablesSound' /\ Ages
    BY <1>2, <1>3, CommitDoes
  <1>5. PICK result, written : End(c, result, written)
    BY DEF CommitAssignment
  <1> QED
    BY <1>4, <1>5, WritesEnd, SoundWrites DEF CatalogueSound

-----------------------------------------------------------------------------
(* Whole trees are written.                                                *)

\* A track goes with all it owns.
TreeGone(t) ==
  LET gone == LevelsOf(t) \cup OutcomesOf(t)
      skills == {s \in Skills : skill[s] # None /\ skill[s].level \in LevelsOf(t)}
  IN /\ track[t] # None
     /\ \A a \in Assigned : assignment[a].level \notin LevelsOf(t)
     /\ \A o \in OutcomesOf(t), a \in Assigned : progress[a][o] = None
     /\ track' \in [Tracks -> TrackRow \cup {None}]
     /\ \A u \in Tracks : track'[u] = IF u = t THEN None ELSE track[u]
     /\ row' \in [Rows -> ListRow \cup {None}]
     /\ \A r \in Rows :
          /\ row'[r] # None <=> row[r] # None /\ r \notin gone
          /\ row'[r] # None => /\ row'[r].of = row[r].of /\ row'[r].order = row[r].order /\ row'[r].on = row[r].on
                               /\ row'[r].skill \in {None, row[r].skill} /\ row'[r].skill \notin skills
     /\ skill' \in [Skills -> SkillRow \cup {None}]
     /\ \A s \in Skills : skill'[s] = IF s \in skills THEN None ELSE skill[s]
     /\ deleted' = deleted \cup gone \cup skills \cup {t}
     /\ Mark(t, FALSE)

\* What the deletion of a track does: it is refused, or takes all the track owns.
LEMMA DeleteTreeDoes ==
  ASSUME CatalogueSound, NEW c \in Callers, DeleteTree(c)
  PROVE LET t == call[c].arg
        IN /\ call[c].op = "deleteTrack" /\ call[c].pc = "write" /\ t \in Tracks
           /\ UNCHANGED <<case, department, holdings, asked>>
           /\ \/ \E result \in {"missing", "referenced"} :
                   /\ End(c, result, {}) /\ UNCHANGED <<track, row, skill, deleted, raced>>
                   /\ result = "referenced" => HeldByAssignment(t) \/ HeldByProgress(t)
              \/ End(c, None, {}) /\ TreeGone(t)
  <1> DEFINE t == call[c].arg
             A == track[t] = None
             B == HeldByAssignment(t) \/ HeldByProgress(t)
             result == FirstOf(<<Problem(A, "missing"), Problem(B, "referenced")>>)
             gone == LevelsOf(t) \cup OutcomesOf(t)
             skills == {s \in Skills : skill[s] # None /\ skill[s].level \in LevelsOf(t)}
             bare(r) == [row[r] EXCEPT !.skill = None]
  <1>1. call[c].op = "deleteTrack" /\ call[c].pc = "write" /\ t \in Tracks
    BY DEF DeleteTree, At, CatalogueSound, CallTyped
  <1>2. UNCHANGED <<case, department, holdings, asked>>
    BY DEF DeleteTree
  <1>3. /\ End(c, result, {})
        /\ IF result = None
           THEN /\ track' = [track EXCEPT ![t] = None]
                /\ row' = [r \in Rows |-> IF r \in gone THEN None
                     ELSE IF row[r] # None /\ row[r].skill \in skills THEN bare(r) ELSE row[r]]
                /\ skill' = [s \in Skills |-> IF s \in skills THEN None ELSE skill[s]]
                /\ deleted' = deleted \cup gone \cup skills \cup {t}
                /\ Mark(t, FALSE)
           ELSE UNCHANGED <<track, row, skill, deleted, raced>>
    BY DEF DeleteTree
  <1>4. result \in {None, "missing", "referenced"} /\ (result = None <=> ~A /\ ~B)
        /\ (result = "referenced" => B)
    <2>1. A \in BOOLEAN /\ B \in BOOLEAN /\ None # "missing" /\ None # "referenced"
      BY CatalogueAssumption DEF HeldByAssignment, HeldByProgress
    <2> HIDE DEF A, B
    <2>2. result \in {None, "missing", "referenced"} /\ (result = None <=> ~A /\ ~B)
      BY <2>1, TwoProblems
    <2>3. result = "referenced" => B
      BY <2>1, FirstOfTwo DEF Problem
    <2> QED
      BY <2>2, <2>3
  <1>5. CASE result # None
    <2> HIDE DEF result
    <2> QED
      BY <1>1, <1>2, <1>3, <1>4, <1>5
  <1>6. CASE result = None
    <2> HIDE DEF t
    <2>1. /\ End(c, None, {})
          /\ track' = [track EXCEPT ![t] = None]
          /\ row' = [r \in Rows |-> IF r \in gone THEN None
               ELSE IF row[r] # None /\ row[r].skill \in skills THEN bare(r) ELSE row[r]]
          /\ skill' = [s \in Skills |-> IF s \in skills THEN None ELSE skill[s]]
          /\ deleted' = deleted \cup gone \cup skills \cup {t}
          /\ Mark(t, FALSE)
      BY <1>3, <1>6
    <2>2. TablesSound /\ track \in [Tracks -> TrackRow \cup {None}] /\ row \in [Rows -> ListRow \cup {None}]
          /\ skill \in [Skills -> SkillRow \cup {None}]
      BY DEF CatalogueSound, TablesSound, Tables
    <2>3. None \notin skills
      BY CatalogueAssumption
    <2>4. \A r \in Rows : row[r] # None =>
            /\ bare(r) \in ListRow /\ bare(r) # None
            /\ bare(r).of = row[r].of /\ bare(r).order = row[r].order /\ bare(r).on = row[r].on /\ bare(r).skill = None
      <3>1. SUFFICES ASSUME NEW x \in ListRow, NEW y, y = [x EXCEPT !.skill = None]
                     PROVE y \in ListRow /\ y # None /\ y.of = x.of /\ y.order = x.order /\ y.on = x.on /\ y.skill = None
        BY <2>2
      <3>2. x \in [of : Parents, order : Nat, on : BOOLEAN, skill : Skills \cup {None}]
        BY DEF ListRow
      <3>3. y = [of |-> x.of, order |-> x.order, on |-> x.on, skill |-> None]
        BY <3>1, <3>2
      <3>4. y \in ListRow
        BY <3>2, <3>3 DEF ListRow
      <3> QED
        BY <3>3, <3>4, CatalogueAssumption
    <2>5. \A r \in Rows :
            /\ row'[r] \in ListRow \cup {None}
            /\ row'[r] # None <=> row[r] # None /\ r \notin gone
            /\ row'[r] # None => /\ row'[r].of = row[r].of /\ row'[r].order = row[r].order /\ row'[r].on = row[r].on
                                 /\ row'[r].skill \in {None, row[r].skill} /\ row'[r].skill \notin skills
      <3> HIDE DEF gone, skills, bare
      <3> QED
        BY <2>1, <2>2, <2>3, <2>4
    <2>6. row' \in [Rows -> ListRow \cup {None}]
      <3>1. row' = [r \in Rows |-> row'[r]]
        <4> HIDE DEF gone, skills, bare
        <4> QED
          BY <2>1
      <3> QED
        BY <2>5, <3>1
    <2>7. /\ track' \in [Tracks -> TrackRow \cup {None}]
          /\ \A u \in Tracks : track'[u] = IF u = t THEN None ELSE track[u]
      BY <1>1, <2>1, <2>2
    <2>8. /\ skill' \in [Skills -> SkillRow \cup {None}]
          /\ \A s \in Skills : skill'[s] = IF s \in skills THEN None ELSE skill[s]
      <3> HIDE DEF skills
      <3> QED
        BY <2>1, <2>2
    <2>9. track[t] # None /\ ~HeldByAssignment(t) /\ ~HeldByProgress(t)
      BY <1>4, <1>6
    <2>10. /\ \A a \in Assigned : assignment[a].level \notin LevelsOf(t)
           /\ \A o \in OutcomesOf(t), a \in Assigned : progress[a][o] = None
      BY <2>9 DEF HeldByAssignment, HeldByProgress, Holders
    <2>11. TreeGone(t)
      BY <2>1, <2>5, <2>6, <2>7, <2>8, <2>9, <2>10 DEF TreeGone
    <2> HIDE DEF result
    <2> QED
      BY <1>1, <1>2, <2>1, <2>11 DEF t
  <1> QED
    BY <1>5, <1>6

\* The tables without that track.
LEMMA DeleteTreeSound ==
  ASSUME CatalogueSound, CallsSound', NEW c \in Callers, DeleteTree(c) PROVE CatalogueSound'
  <1>1. TablesSound /\ call[c].arg \in Tracks /\ UNCHANGED <<case, department, holdings, asked>>
    BY DeleteTreeDoes DEF CatalogueSound
  <1>2. ASSUME UNCHANGED <<track, row, skill, deleted, raced>> PROVE TablesSound' /\ Ages
    BY <1>1, <1>2, TablesKept DEF structure
  <1>3. ASSUME NEW t \in Tracks, TreeGone(t) PROVE TablesSound' /\ Ages
    <2> DEFINE gone == LevelsOf(t) \cup OutcomesOf(t)
               skills == {s \in Skills : skill[s] # None /\ skill[s].level \in LevelsOf(t)}
    <2>1. /\ \A a \in Assigned : assignment[a].level \notin LevelsOf(t)
          /\ \A o \in OutcomesOf(t), a \in Assigned : progress[a][o] = None
          /\ track' \in [Tracks -> TrackRow \cup {None}]
          /\ \A u \in Tracks : track'[u] = IF u = t THEN None ELSE track[u]
          /\ row' \in [Rows -> ListRow \cup {None}]
          /\ \A r \in Rows : row'[r] # None <=> row[r] # None /\ r \notin gone
          /\ \A r \in Rows : row'[r] # None => /\ row'[r].of = row[r].of /\ row'[r].order = row[r].order
                                              /\ row'[r].skill \in {None, row[r].skill} /\ row'[r].skill \notin skills
          /\ skill' \in [Skills -> SkillRow \cup {None}]
          /\ \A s \in Skills : skill'[s] = IF s \in skills THEN None ELSE skill[s]
          /\ deleted' = deleted \cup gone \cup skills \cup {t}
          /\ Mark(t, FALSE)
      BY <1>3 DEF TreeGone
    <2>2. /\ LevelsOf(t) \subseteq Levels /\ OutcomesOf(t) \subseteq Outcomes /\ Levels \cap Outcomes = {}
          /\ \A l \in Levels : l \in gone <=> row[l] # None /\ row[l].of = t
          /\ \A o \in Outcomes : o \in gone <=> row[o] # None /\ row[o].of \in LevelsOf(t)
      BY CatalogueAssumption DEF LevelsOf, OutcomesOf
    <2>3. (Tables(track, row, skill, assignment, progress))'
      BY <1>1, <2>1 DEF TablesSound, Tables, holdings
    <2>4. (Linked(track, row, skill, assignment, progress))'
      <3>1. \A l \in Levels : row'[l] # None => row'[l].of \in Tracks /\ track'[row'[l].of] # None
        <4> HIDE DEF gone, skills
        <4> QED
          BY <1>1, <2>1, <2>2 DEF TablesSound, Linked, Rows
      <3>2. \A o \in Outcomes : row'[o] # None => row'[o].of \in Levels /\ row'[row'[o].of] # None
        <4>1. \A l \in Levels : row[l] # None /\ row[l].of = t => l \in LevelsOf(t)
          BY DEF LevelsOf
        <4> HIDE DEF gone, skills
        <4> QED
          BY <1>1, <2>1, <2>2, <4>1 DEF TablesSound, Linked, Rows
      <3>3. \A r \in Rows : row'[r] # None /\ row'[r].skill # None => skill'[row'[r].skill] # None
        <4> HIDE DEF gone, skills
        <4> QED
          BY <1>1, <2>1, RowIs DEF TablesSound, Linked
      <3>4. \A s \in Skills : skill'[s] # None /\ skill'[s].level # None => row'[skill'[s].level] # None
        <4>1. SUFFICES ASSUME NEW s \in Skills, skill'[s] # None, skill'[s].level # None PROVE row'[skill'[s].level] # None
          OBVIOUS
        <4>2. s \notin skills /\ skill'[s] = skill[s]
          <5> HIDE DEF gone, skills
          <5> QED
            BY <2>1, <4>1
        <4>3. PICK l \in Levels : l = skill[s].level
          BY <1>1, <4>1, <4>2 DEF TablesSound, Tables, SkillRow
        <4>4. row[l] # None /\ l \notin LevelsOf(t)
          BY <1>1, <4>1, <4>2, <4>3 DEF TablesSound, Linked
        <4>5. l \notin gone /\ l \in Rows
          BY <2>2, <4>4 DEF Rows
        <4> HIDE DEF gone, skills
        <4> QED
          BY <2>1, <4>2, <4>3, <4>4, <4>5
      <3>5. \A a \in Assignments : assignment'[a] # None => /\ row'[assignment'[a].level] # None
                                                           /\ row'[assignment'[a].level].of = assignment'[a].track
        <4>1. SUFFICES ASSUME NEW a \in Assignments, assignment[a] # None
                       PROVE row'[assignment[a].level] # None /\ row'[assignment[a].level].of = assignment[a].track
          BY <1>1 DEF holdings
        <4>2. PICK l \in Levels : l = assignment[a].level
          BY <1>1, <4>1 DEF TablesSound, Tables, AssignmentRow
        <4>3. row[l] # None /\ row[l].of = assignment[a].track /\ l \notin gone /\ l \in Rows
          BY <1>1, <2>1, <2>2, <4>1, <4>2 DEF TablesSound, Linked, Assigned, Rows
        <4> HIDE DEF gone, skills
        <4> QED
          BY <2>1, <4>2, <4>3
      <3>6. \A a \in Assignments, o \in Outcomes : progress'[a][o] # None => assignment'[a] # None /\ row'[o] # None
        <4>1. SUFFICES ASSUME NEW a \in Assignments, NEW o \in Outcomes, progress[a][o] # None
                       PROVE assignment[a] # None /\ row'[o] # None
          BY <1>1 DEF holdings
        <4>2. assignment[a] # None /\ row[o] # None
          BY <1>1, <4>1 DEF TablesSound, Linked
        <4>3. o \notin OutcomesOf(t) /\ o \in Rows
          BY <2>1, <4>1, <4>2 DEF Assigned, Rows
        <4>4. o \notin gone
          BY <2>2, <4>3
        <4> HIDE DEF gone, skills
        <4> QED
          BY <2>1, <4>2, <4>3, <4>4
      <3> QED
        BY <3>1, <3>2, <3>3, <3>4, <3>5, <3>6 DEF Linked
    <2>5. OrdersDiffer(row)'
      <3> HIDE DEF gone, skills
      <3> QED
        BY <1>1, <2>1 DEF TablesSound, OrdersDiffer
    <2>6. deleted' \cap Present' = {}
      <3>1. /\ skills \subseteq Skills /\ gone \subseteq Rows
            /\ Skills \cap (Tracks \cup Rows) = {} /\ Tracks \cap Rows = {}
        BY <2>2, CatalogueAssumption DEF Rows
      <3> HIDE DEF gone, skills
      <3> QED
        BY <1>1, <2>1, <3>1 DEF TablesSound, Present
    <2>7. Ages
      <3> HIDE DEF gone, skills
      <3> QED
        BY <1>1, <2>1 DEF Ages, holdings
    <2>8. raced' \subseteq Tracks \cup Learners
      BY <1>1, <2>1 DEF Mark, TablesSound
    <2>9. \A u \in Tracks : track'[u] # None => department'[track'[u].dept] # "gone"
      BY <1>1, <2>1 DEF TablesSound
    <2> QED
      BY <1>1, <2>3, <2>4, <2>5, <2>6, <2>7, <2>8, <2>9 DEF TablesSound
  <1>4. TablesSound' /\ Ages
    BY <1>1, <1>2, <1>3, DeleteTreeDoes
  <1>5. PICK result, written : End(c, result, written)
    BY DEF DeleteTree
  <1> QED
    BY <1>4, <1>5, WritesEnd, SoundWrites DEF CatalogueSound

\* Rows are added to parents that are new, and those that were there stay as they were.
RowsGrow ==
  /\ \A r \in Rows : row[r] # None => row'[r] = row[r]
  /\ \A r \in Rows : row[r] = None /\ row'[r] # None => row'[r].of \notin deleted /\ ~There(row'[r].of)

\* The tables after a track is added with levels, outcomes and skills, all of them fresh.
LEMMA TreeAddedSound ==
  ASSUME TablesSound, NEW c \in Callers, NEW t \in Tracks, NEW new, TrackAdded(c, t, new),
         UNCHANGED <<case, deleted, department, holdings, asked>>,
         NEW N \in SUBSET Rows, N \cap deleted = {}, \A r \in N : row[r] = None,
         row' \in [Rows -> ListRow \cup {None}], \A r \in Rows \ N : row'[r] = row[r],
         \A r \in N : row'[r] \in ListRow,
         \A l \in N \cap Levels : row'[l].of = t, \A o \in N \cap Outcomes : row'[o].of \in N \cap Levels,
         \A r \in N : row'[r].skill # None => skill'[row'[r].skill] # None,
         \A q, r \in N : q # r /\ row'[q].of = row'[r].of => row'[q].order # row'[r].order,
         NEW K \in SUBSET Skills, K \cap deleted = {}, \A s \in K : skill[s] = None,
         skill' \in [Skills -> SkillRow \cup {None}], \A s \in Skills \ K : skill'[s] = skill[s],
         \A s \in K : skill'[s] \in SkillRow /\ skill'[s].level \in N
  PROVE TablesSound' /\ Ages /\ RowsGrow
  <1>1. /\ track' \in [Tracks -> TrackRow \cup {None}] /\ raced' \subseteq Tracks \cup Learners
        /\ \A u \in Tracks : track[u] # None => track'[u] # None
        /\ track'[t] # None
        /\ \A u \in Tracks : track'[u] # None => department'[track'[u].dept] # "gone"
        /\ \A u \in Tracks : track'[u] # None => track[u] # None \/ u \notin deleted
    BY TrackAddedSound
  <1>2. /\ None \notin ListRow \cup SkillRow /\ Levels \cap Outcomes = {}
        /\ Rows = Levels \cup Outcomes
        /\ Tracks \cap Rows = {} /\ track[t] = None
    BY CatalogueAssumption DEF Rows, TrackAdded
  <1>3. \A r \in Rows : row[r] # None => r \notin N /\ row'[r] = row[r]
    OBVIOUS
  <1>4. \A s \in Skills : skill[s] # None => s \notin K /\ skill'[s] = skill[s]
    OBVIOUS
  <1>5. \A r \in N : row'[r] # None
    BY <1>2
  <1>6. (Tables(track, row, skill, assignment, progress))'
    BY <1>1 DEF TablesSound, Tables, holdings
  <1>7. (Linked(track, row, skill, assignment, progress))'
    <2>1. \A l \in Levels : row'[l] # None => row'[l].of \in Tracks /\ track'[row'[l].of] # None
      BY <1>1, <1>2 DEF TablesSound, Linked
    <2>2. \A o \in Outcomes : row'[o] # None => row'[o].of \in Levels /\ row'[row'[o].of] # None
      BY <1>2, <1>3, <1>5 DEF TablesSound, Linked
    <2>3. \A r \in Rows : row'[r] # None /\ row'[r].skill # None => skill'[row'[r].skill] # None
      BY <1>4, RowIs DEF TablesSound, Linked
    <2>4. \A s \in Skills : skill'[s] # None /\ skill'[s].level # None => row'[skill'[s].level] # None
      <3>1. SUFFICES ASSUME NEW s \in Skills, skill'[s] # None, skill'[s].level # None, s \notin K
                     PROVE row'[skill'[s].level] # None
        BY <1>5
      <3>2. PICK l \in Levels : l = skill[s].level
        BY <3>1 DEF TablesSound, Tables, SkillRow
      <3>3. row[l] # None
        BY <3>1, <3>2 DEF TablesSound, Linked
      <3> QED
        BY <1>2, <1>3, <3>1, <3>2, <3>3
    <2>5. \A a \in Assignments : assignment'[a] # None => /\ row'[assignment'[a].level] # None
                                                         /\ row'[assignment'[a].level].of = assignment'[a].track
      <3>1. SUFFICES ASSUME NEW a \in Assignments, assignment[a] # None
                     PROVE row'[assignment[a].level] # None /\ row'[assignment[a].level].of = assignment[a].track
        BY DEF holdings
      <3>2. PICK l \in Levels : l = assignment[a].level
        BY <3>1 DEF TablesSound, Tables, AssignmentRow
      <3>3. row[l] # None /\ row[l].of = assignment[a].track
        BY <3>1, <3>2 DEF TablesSound, Linked
      <3> QED
        BY <1>2, <1>3, <3>2, <3>3
    <2>6. \A a \in Assignments, o \in Outcomes : progress'[a][o] # None => assignment'[a] # None /\ row'[o] # None
      BY <1>2, <1>3 DEF TablesSound, Linked, holdings
    <2> QED
      BY <2>1, <2>2, <2>3, <2>4, <2>5, <2>6 DEF Linked
  <1>8. OrdersDiffer(row)'
    <2>1. SUFFICES ASSUME NEW q \in Rows, NEW r \in Rows, q # r, row'[q] # None, row'[r] # None, row'[q].of = row'[r].of
                   PROVE row'[q].order # row'[r].order
      BY DEF OrdersDiffer
    <2>2. \A x \in Rows \ N : row'[x] # None => row[x].of # t /\ row[x].of \notin N
      BY <1>2 DEF TablesSound, Linked
    <2>3. q \in N <=> r \in N
      BY <1>2, <2>1, <2>2
    <2> QED
      BY <2>1, <2>3 DEF TablesSound, OrdersDiffer
  <1>9. deleted' \cap Present' = {}
    BY <1>1, <1>3, <1>4 DEF TablesSound, Present
  <1>10. Ages
    BY <1>2, <1>3 DEF Ages, holdings
  <1>11. RowsGrow
    <2>1. t \notin deleted /\ ~There(t)
      BY <1>2 DEF TrackAdded, There
    <2>2. \A l \in N : l \notin deleted /\ ~There(l)
      BY <1>2 DEF There
    <2>3. \A r \in N : row'[r].of = t \/ row'[r].of \in N
      BY <1>2
    <2> QED
      BY <1>3, <2>1, <2>2, <2>3 DEF RowsGrow
  <1> QED
    BY <1>1, <1>6, <1>7, <1>8, <1>9, <1>10, <1>11 DEF TablesSound

\* The wizard adds its whole tree, or nothing.
LEMMA InsertFullDoes ==
  ASSUME CatalogueSound, NEW c \in Callers, InsertFull(c)
  PROVE LET arg == call[c].arg
        IN /\ call[c].op = "createFull" /\ call[c].pc = "write" /\ arg \in NewTreeArg
           /\ UNCHANGED <<case, deleted, department, holdings, asked>>
           /\ \/ \E result \in {"clash", "referenced"} :
                   /\ End(c, result, {Renaming}) /\ UNCHANGED <<track, row, skill, raced>>
                   /\ result = "clash" => KeyTaken(arg.key)
              \/ /\ End(c, None, {Renaming}) /\ TablesSound' /\ Ages /\ RowsGrow
                 /\ \E t \in Tracks : TrackAdded(c, t, NewTrack(arg, arg.dept, TRUE))
  <1> DEFINE arg == call[c].arg
             shape == arg.shape
             skillOf == shape.skillOf
             m == shape.skills
             n == Len(skillOf)
             t == Fresh(track, Tracks, 1)[1]
             l == Fresh(row, Levels, 1)[1]
             ss == Fresh(skill, Skills, m)
             os == Fresh(row, Outcomes, n)
             outcome(j) == [of |-> l, order |-> OrderInLevel(shape, j), on |-> TRUE, skill |-> ss[skillOf[j]]]
             E == \E i, j \in 1 .. n : i # j /\ outcome(i).order = outcome(j).order
             first == NewTrackProblem(arg)
             result == FirstOf(<<first, Problem(E, "clash")>>)
             new == NewTrack(arg, arg.dept, TRUE)
             level == [of |-> t, order |-> 1, on |-> TRUE, skill |-> None]
             at(r) == CHOOSE j \in 1 .. n : os[j] = r
  <1>1. call[c].op = "createFull" /\ call[c].pc = "write" /\ arg \in NewTreeArg
    BY DEF InsertFull, At, CatalogueSound, CallTyped
  <1>2. UNCHANGED <<case, deleted, department, holdings, asked>>
    BY DEF InsertFull
  <1>3. /\ End(c, result, {Renaming})
        /\ IF result = None
           THEN /\ Room(track, Tracks, 1) /\ Room(row, Levels, 1) /\ Room(skill, Skills, m) /\ Room(row, Outcomes, n)
                /\ track' = [track EXCEPT ![t] = new]
                /\ row' = [r \in Rows |-> IF r = l THEN level ELSE IF r \in ToSet(os) THEN outcome(at(r)) ELSE row[r]]
                /\ skill' = [s \in Skills |-> IF s \in ToSet(ss) THEN [level |-> l] ELSE skill[s]]
                /\ Mark(t, Stale(c, Renaming))
           ELSE UNCHANGED <<track, row, skill, raced>>
    BY DEF InsertFull
  <1>4. /\ shape \in Shapes /\ m \in Nat /\ skillOf \in Seq(Nat) /\ n \in Nat
        /\ \A j \in 1 .. n : skillOf[j] \in 1 .. m
    <2>1. shape \in Shapes
      <3> HIDE DEF arg
      <3> QED
        BY <1>1 DEF NewTreeArg
    <2> HIDE DEF shape
    <2> QED
      BY <2>1 DEF Shapes
  <1> HIDE DEF shape
  <1>5. ~E
    <2> HIDE DEF l, ss
    <2> QED
      BY <1>4 DEF OrderInLevel
  <1>6. first \in {None, "clash", "referenced"} /\ (first = None <=> ~KeyTaken(arg.key)
        /\ department[arg.dept] # "gone")
        /\ (first = "clash" => KeyTaken(arg.key))
    <2>1. first \in {None, "clash", "referenced"} /\ (first = None <=> ~KeyTaken(arg.key) /\ department[arg.dept] # "gone")
      BY TwoProblems, CatalogueAssumption, ZenonT(40) DEF NewTrackProblem, KeyTaken
    <2>2. first = "clash" => KeyTaken(arg.key)
      BY FirstOfTwo, CatalogueAssumption DEF NewTrackProblem, Problem
    <2> QED
      BY <2>1, <2>2
  <1>7. result = first
    <2> HIDE DEF first, E
    <2> QED
      BY <1>5, <1>6, FirstOfTwo DEF Problem
  <1>8. CASE result # None
    <2>1. result \in {"clash", "referenced"} /\ End(c, result, {Renaming}) /\ UNCHANGED <<track, row, skill, raced>>
          /\ (result = "clash" => KeyTaken(arg.key))
      <3> HIDE DEF result, first
      <3> QED
        BY <1>3, <1>6, <1>7, <1>8
    <2> HIDE DEF result
    <2> QED
      BY <1>1, <1>2, <2>1
  <1>9. CASE result = None
    <2>1. /\ End(c, None, {Renaming})
          /\ Room(track, Tracks, 1) /\ Room(row, Levels, 1) /\ Room(skill, Skills, m) /\ Room(row, Outcomes, n)
          /\ track' = [track EXCEPT ![t] = new]
          /\ row' = [r \in Rows |-> IF r = l THEN level ELSE IF r \in ToSet(os) THEN outcome(at(r)) ELSE row[r]]
          /\ skill' = [s \in Skills |-> IF s \in ToSet(ss) THEN [level |-> l] ELSE skill[s]]
          /\ Mark(t, Stale(c, Renaming))
      <3> HIDE DEF result
      <3> QED
        BY <1>3, <1>9
    <2>2. t \in Tracks /\ t \notin deleted /\ track[t] = None
      BY <2>1, FreshOne
    <2>3. l \in Levels /\ l \notin deleted /\ row[l] = None
      BY <2>1, FreshOne
    <2>4. /\ os \in [1 .. n -> Outcomes] /\ DOMAIN os = 1 .. n
          /\ \A j \in 1 .. n : os[j] \in Outcomes /\ os[j] \notin deleted /\ row[os[j]] = None
          /\ \A i, j \in 1 .. n : os[i] = os[j] => i = j
      BY <1>4, <2>1, FreshIs
    <2>5. /\ ss \in [1 .. m -> Skills] /\ DOMAIN ss = 1 .. m
          /\ \A j \in 1 .. m : ss[j] \in Skills /\ ss[j] \notin deleted /\ skill[ss[j]] = None
      BY <1>4, <2>1, FreshIs
    <2>6. TrackAdded(c, t, new)
      <3>1. new \in TrackRow /\ new.dept = arg.dept
        <4> HIDE DEF arg
        <4> QED
          BY <1>1 DEF NewTrack, TrackRow, NewTreeArg
      <3>2. department[new.dept] # "gone"
        <4> HIDE DEF new, result, first
        <4> QED
          BY <1>6, <1>7, <1>9, <3>1
      <3>3. track' = [u \in Tracks |-> IF u = t THEN new ELSE track[u]]
        <4> HIDE DEF t, new
        <4> QED
          BY <2>1, <2>2 DEF CatalogueSound, TablesSound, Tables
      <3> HIDE DEF t, new
      <3> QED
        BY <2>1, <2>2, <3>1, <3>2, <3>3 DEF TrackAdded
    <2> DEFINE N == {l} \cup ToSet(os)
               K == ToSet(ss)
    <2>7. /\ \A r \in ToSet(os) : \E j \in 1 .. n : r = os[j]
          /\ \A j \in 1 .. n : os[j] \in ToSet(os)
          /\ \A s \in ToSet(ss) : \E j \in 1 .. m : s = ss[j]
          /\ \A j \in 1 .. m : ss[j] \in ToSet(ss)
      <3> HIDE DEF os, ss
      <3> QED
        BY <2>4, <2>5 DEF ToSet
    <2> HIDE DEF t, l, os, ss, new
    <2>8. \A j \in 1 .. n : at(os[j]) = j
      BY <2>4
    <2>9. /\ Levels \cap Outcomes = {} /\ Rows = Levels \cup Outcomes /\ Parents = Tracks \cup Levels
          /\ None \notin SkillRow /\ None \notin Skills
      BY CatalogueAssumption DEF Rows, Parents
    <2>10. \A j \in 1 .. n : ss[skillOf[j]] \in Skills /\ ss[skillOf[j]] \in K
      BY <1>4, <2>5, <2>7
    <2>11. level \in ListRow /\ level.of = t /\ level.skill = None
      BY <2>2, <2>9 DEF ListRow
    <2>12. \A j \in 1 .. n : /\ outcome(j) \in ListRow /\ outcome(j).of = l /\ outcome(j).order = j
                             /\ outcome(j).skill = ss[skillOf[j]]
      BY <1>4, <2>3, <2>9, <2>10 DEF ListRow, OrderInLevel
    <2>13. row'[l] = level
      BY <2>1, <2>3, <2>9
    <2>14. \A j \in 1 .. n : row'[os[j]] = outcome(j)
      <3>1. SUFFICES ASSUME NEW j \in 1 .. n PROVE row'[os[j]] = outcome(j)
        OBVIOUS
      <3>2. os[j] \in Rows /\ os[j] # l /\ os[j] \in ToSet(os)
        BY <2>3, <2>4, <2>7, <2>9
      <3>3. row'[os[j]] = outcome(at(os[j]))
        <4> HIDE DEF outcome, at, level
        <4> QED
          BY <2>1, <3>2
      <3>4. at(os[j]) = j
        BY <2>8
      <3> HIDE DEF outcome, at
      <3> QED
        BY <3>3, <3>4
    <2> HIDE DEF outcome, at, level
    <2>15. \A r \in Rows \ N : row'[r] = row[r]
      BY <2>1
    <2>16. \A r \in N : r = l \/ \E j \in 1 .. n : r = os[j]
      BY <2>7
    <2>17. N \in SUBSET Rows /\ N \cap deleted = {} /\ \A r \in N : row[r] = None /\ row'[r] \in ListRow
      BY <2>3, <2>4, <2>9, <2>11, <2>12, <2>13, <2>14, <2>16
    <2>18. row' \in [Rows -> ListRow \cup {None}]
      <3>1. row' = [r \in Rows |-> row'[r]]
        BY <2>1
      <3>2. \A r \in Rows : row'[r] \in ListRow \cup {None}
        <4>1. \A r \in Rows : row[r] \in ListRow \cup {None}
          BY DEF CatalogueSound, TablesSound, Tables
        <4> HIDE DEF N
        <4> QED
          BY <2>15, <2>17, <4>1
      <3> QED
        BY <3>1, <3>2
    <2>19. K \in SUBSET Skills /\ K \cap deleted = {} /\ \A s \in K : skill[s] = None
      BY <2>5, <2>7
    <2>20. /\ skill' = [s \in Skills |-> IF s \in K THEN [level |-> l] ELSE skill[s]]
           /\ [level |-> l] \in SkillRow /\ [level |-> l].level = l
      BY <2>1, <2>3 DEF SkillRow
    <2> HIDE DEF K
    <2>21. /\ skill' \in [Skills -> SkillRow \cup {None}] /\ \A s \in Skills \ K : skill'[s] = skill[s]
           /\ \A s \in K : skill'[s] \in SkillRow /\ skill'[s].level \in N
      BY <2>19, <2>20 DEF CatalogueSound, TablesSound, Tables
    <2>22. \A x \in N \cap Levels : row'[x].of = t
      BY <2>4, <2>9, <2>11, <2>13, <2>16
    <2>23. \A o \in N \cap Outcomes : row'[o].of \in N \cap Levels
      BY <2>3, <2>9, <2>12, <2>14, <2>16
    <2>24. \A r \in N : row'[r].skill # None => skill'[row'[r].skill] # None
      BY <2>9, <2>10, <2>11, <2>12, <2>13, <2>14, <2>16, <2>21
    <2>25. \A q, r \in N : q # r /\ row'[q].of = row'[r].of => row'[q].order # row'[r].order
      <3>1. t # l
        BY <2>2, <2>3, <2>9, CatalogueAssumption
      <3> QED
        BY <2>11, <2>12, <2>13, <2>14, <2>16, <3>1
    <2>26. TablesSound' /\ Ages /\ RowsGrow
      <3>1. TablesSound
        BY DEF CatalogueSound
      <3>2. t \in Tracks
        BY <2>2
      <3> HIDE DEF N
      <3> QED
        BY <1>2, <2>6, <2>15, <2>17, <2>18, <2>19, <2>21, <2>22, <2>23, <2>24, <2>25, <3>1, <3>2,
           TreeAddedSound
    <2> QED
      BY <1>1, <1>2, <2>1, <2>2, <2>6, <2>26 DEF new
  <1> QED
    BY <1>8, <1>9

\* The wizard's track.
LEMMA InsertFullSound ==
  ASSUME CatalogueSound, CallsSound', NEW c \in Callers, InsertFull(c) PROVE CatalogueSound'
  <1>1. TablesSound /\ UNCHANGED <<case, deleted, department, holdings, asked>>
    BY DEF CatalogueSound, InsertFull
  <1>2. ASSUME UNCHANGED <<track, row, skill, raced>> PROVE TablesSound' /\ Ages
    BY <1>1, <1>2, TablesKept DEF structure
  <1>3. TablesSound' /\ Ages
    BY <1>2, InsertFullDoes
  <1>4. PICK result, written : End(c, result, written)
    BY DEF InsertFull
  <1> QED
    BY <1>3, <1>4, WritesEnd, SoundWrites DEF CatalogueSound

\* A copy of a track comes with copies of its levels and outcomes, or not at all.
LEMMA InsertCopyDoes ==
  ASSUME CatalogueSound, NEW c \in Callers, InsertCopy(c)
  PROVE LET arg == call[c].arg
        IN /\ call[c].op = "copyTrack" /\ call[c].pc = "write" /\ arg \in CopyArg
           /\ UNCHANGED <<case, deleted, department, skill, holdings, asked>>
           /\ \/ \E result \in {"missing", "clash"} : End(c, result, {Renaming}) /\ UNCHANGED <<track, row, raced>>
              \/ /\ End(c, None, {Renaming}) /\ TablesSound' /\ Ages /\ RowsGrow /\ track[arg.track] # None
                 /\ \E t \in Tracks : TrackAdded(c, t, NewTrack(arg, track[arg.track].dept, FALSE))
  <1> DEFINE arg == call[c].arg
             src == arg.track
             A == track[src] = None
             B == KeyTaken(arg.key)
             result == FirstOf(<<Problem(A, "missing"), Problem(B, "clash")>>)
             t == Fresh(track, Tracks, 1)[1]
             ls == Enumerate(LevelsOf(src))
             os == Enumerate(OutcomesOf(src))
             newLs == Fresh(row, Levels, Len(ls))
             newOs == Fresh(row, Outcomes, Len(os))
             at(s, x) == CHOOSE i \in DOMAIN s : s[i] = x
             new == NewTrack(arg, track[src].dept, FALSE)
             level(r) == [row[ls[at(newLs, r)]] EXCEPT !.of = t]
             outcome(r) == LET o == os[at(newOs, r)] IN [row[o] EXCEPT !.of = newLs[at(ls, row[o].of)], !.skill = None]
  <1>1. call[c].op = "copyTrack" /\ call[c].pc = "write" /\ arg \in CopyArg
    BY DEF InsertCopy, At, CatalogueSound, CallTyped
  <1>2. UNCHANGED <<case, deleted, department, skill, holdings, asked>>
    BY DEF InsertCopy
  <1>3. /\ End(c, result, {Renaming})
        /\ IF result = None
           THEN /\ Room(track, Tracks, 1) /\ Room(row, Levels, Len(ls)) /\ Room(row, Outcomes, Len(os))
                /\ track' = [track EXCEPT ![t] = new]
                /\ row' = [r \in Rows |-> IF r \in ToSet(newLs) THEN level(r) ELSE IF r \in ToSet(newOs) THEN outcome(r) ELSE row[r]]
                /\ Mark(t, Stale(c, Renaming))
           ELSE UNCHANGED <<track, row, raced>>
    BY DEF InsertCopy
  <1>4. src \in Tracks /\ arg.en \in Texts /\ arg.ar \in Texts /\ arg.key \in Texts \X Nat
    <2> HIDE DEF arg
    <2> QED
      BY <1>1 DEF CopyArg
  <1>5. result \in {None, "missing", "clash"} /\ (result = None <=> ~A /\ ~B)
    <2>1. A \in BOOLEAN /\ B \in BOOLEAN /\ None # "missing" /\ None # "clash"
      BY CatalogueAssumption DEF KeyTaken
    <2> HIDE DEF A, B
    <2> QED
      BY <2>1, TwoProblems
  <1>6. CASE result # None
    <2> HIDE DEF result
    <2> QED
      BY <1>1, <1>2, <1>3, <1>5, <1>6
  <1>7. CASE result = None
    <2>1. /\ End(c, None, {Renaming})
          /\ Room(track, Tracks, 1) /\ Room(row, Levels, Len(ls)) /\ Room(row, Outcomes, Len(os))
          /\ track' = [track EXCEPT ![t] = new]
          /\ row' = [r \in Rows |-> IF r \in ToSet(newLs) THEN level(r) ELSE IF r \in ToSet(newOs) THEN outcome(r) ELSE row[r]]
          /\ Mark(t, Stale(c, Renaming))
      <3> HIDE DEF result
      <3> QED
        BY <1>3, <1>7
    <2>2. track[src] # None /\ TablesSound
      BY <1>5, <1>7 DEF CatalogueSound
    <2>3. t \in Tracks /\ t \notin deleted /\ track[t] = None
      BY <2>1, FreshOne
    <2>4. IsFiniteSet(LevelsOf(src)) /\ IsFiniteSet(OutcomesOf(src))
      <3>1. LevelsOf(src) \subseteq Levels /\ OutcomesOf(src) \subseteq Outcomes
        BY DEF LevelsOf, OutcomesOf
      <3> QED
        BY <3>1, CatalogueAssumption, FS_Subset
    <2> DEFINE m == Len(ls)
               n == Len(os)
    <2>5. /\ m \in Nat /\ DOMAIN ls = 1 .. m /\ \A i \in 1 .. m : ls[i] \in LevelsOf(src)
          /\ \A i, j \in 1 .. m : ls[i] = ls[j] => i = j
          /\ \A x \in LevelsOf(src) : \E i \in 1 .. m : ls[i] = x
      BY <2>4, EnumerateIs
    <2>6. /\ n \in Nat /\ DOMAIN os = 1 .. n /\ \A i \in 1 .. n : os[i] \in OutcomesOf(src)
          /\ \A i, j \in 1 .. n : os[i] = os[j] => i = j
      BY <2>4, EnumerateIs
    <2>7. /\ DOMAIN newLs = 1 .. m /\ newLs \in [1 .. m -> Levels]
          /\ \A i \in 1 .. m : newLs[i] \in Levels /\ newLs[i] \notin deleted /\ row[newLs[i]] = None
          /\ \A i, j \in 1 .. m : newLs[i] = newLs[j] => i = j
      <3>1. PICK k \in Nat : k = Len(ls)
        BY <2>5
      <3>2. Room(row, Levels, k) /\ newLs = Fresh(row, Levels, k)
        BY <2>1, <3>1
      <3> HIDE DEF newLs
      <3>3. /\ newLs \in [1 .. k -> Levels] /\ DOMAIN newLs = 1 .. k
            /\ \A i \in 1 .. k : newLs[i] \in Levels /\ newLs[i] \notin deleted /\ row[newLs[i]] = None
            /\ \A i, j \in 1 .. k : newLs[i] = newLs[j] => i = j
        BY <3>2, FreshIs
      <3> HIDE DEF ls
      <3> QED
        BY <3>1, <3>3
    <2>8. /\ DOMAIN newOs = 1 .. n /\ newOs \in [1 .. n -> Outcomes]
          /\ \A i \in 1 .. n : newOs[i] \in Outcomes /\ newOs[i] \notin deleted /\ row[newOs[i]] = None
          /\ \A i, j \in 1 .. n : newOs[i] = newOs[j] => i = j
      <3>1. PICK k \in Nat : k = Len(os)
        BY <2>6
      <3>2. Room(row, Outcomes, k) /\ newOs = Fresh(row, Outcomes, k)
        BY <2>1, <3>1
      <3> HIDE DEF newOs
      <3>3. /\ newOs \in [1 .. k -> Outcomes] /\ DOMAIN newOs = 1 .. k
            /\ \A i \in 1 .. k : newOs[i] \in Outcomes /\ newOs[i] \notin deleted /\ row[newOs[i]] = None
            /\ \A i, j \in 1 .. k : newOs[i] = newOs[j] => i = j
        BY <3>2, FreshIs
      <3> HIDE DEF os
      <3> QED
        BY <3>1, <3>3
    <2>9. TrackAdded(c, t, new)
      <3>1. track[src].dept \in Departments /\ department[track[src].dept] # "gone"
        BY <1>4, <2>2, TrackIs DEF TablesSound
      <3>2. new \in TrackRow /\ new.dept = track[src].dept
        <4> HIDE DEF arg, src
        <4> QED
          BY <1>4, <3>1 DEF NewTrack, TrackRow
      <3>3. track' = [u \in Tracks |-> IF u = t THEN new ELSE track[u]]
        <4> HIDE DEF t, new
        <4> QED
          BY <2>1, <2>2, <2>3 DEF TablesSound, Tables
      <3> HIDE DEF t, new
      <3> QED
        BY <2>1, <2>3, <3>1, <3>2, <3>3 DEF TrackAdded
    <2> DEFINE NL == ToSet(newLs)
               NO == ToSet(newOs)
               N == NL \cup NO
    <2>10. /\ \A r \in NL : \E i \in 1 .. m : r = newLs[i]
           /\ \A i \in 1 .. m : newLs[i] \in NL
           /\ \A r \in NO : \E j \in 1 .. n : r = newOs[j]
           /\ \A j \in 1 .. n : newOs[j] \in NO
      <3> HIDE DEF newLs, newOs
      <3> QED
        BY <2>7, <2>8 DEF ToSet
    <2>11. /\ Levels \cap Outcomes = {} /\ Rows = Levels \cup Outcomes /\ Parents = Tracks \cup Levels
           /\ Tracks \cap Rows = {}
      BY CatalogueAssumption DEF Rows, Parents
    <2> HIDE DEF arg, src, t, ls, os, newLs, newOs, m, n, new
    <2>12. \A i \in 1 .. m : at(newLs, newLs[i]) = i /\ at(ls, ls[i]) = i
      BY <2>5, <2>7
    <2>13. \A j \in 1 .. n : at(newOs, newOs[j]) = j
      BY <2>8
    <2>14. \A i \in 1 .. m : ls[i] \in Levels /\ row[ls[i]] # None /\ row[ls[i]].of = src /\ row[ls[i]] \in ListRow
      BY <2>2, <2>5, <2>11 DEF LevelsOf, TablesSound, Tables
    <2>15. \A j \in 1 .. n : os[j] \in Outcomes /\ row[os[j]] # None /\ row[os[j]].of \in LevelsOf(src) /\ row[os[j]] \in ListRow
      BY <2>2, <2>6, <2>11 DEF OutcomesOf, TablesSound, Tables
    <2>16. \A x \in ListRow, p \in Parents :
             LET y == [x EXCEPT !.of = p]
             IN y \in ListRow /\ y.of = p /\ y.order = x.order /\ y.skill = x.skill
      <3>0. SUFFICES ASSUME NEW x \in ListRow, NEW p \in Parents
                     PROVE LET y == [x EXCEPT !.of = p]
                           IN y \in ListRow /\ y.of = p /\ y.order = x.order /\ y.skill = x.skill
        OBVIOUS
      <3>1. PICK y : y = [x EXCEPT !.of = p]
        OBVIOUS
      <3>2. x \in [of : Parents, order : Nat, on : BOOLEAN, skill : Skills \cup {None}]
        BY DEF ListRow
      <3>3. y = [of |-> p, order |-> x.order, on |-> x.on, skill |-> x.skill]
        BY <3>1, <3>2
      <3>4. y \in ListRow /\ y.of = p /\ y.order = x.order /\ y.skill = x.skill
        BY <3>2, <3>3 DEF ListRow
      <3> QED
        BY <3>1, <3>4
    <2>17. \A x \in ListRow, p \in Parents :
             LET y == [x EXCEPT !.of = p, !.skill = None]
             IN y \in ListRow /\ y.of = p /\ y.order = x.order /\ y.skill = None
      <3>0. SUFFICES ASSUME NEW x \in ListRow, NEW p \in Parents
                     PROVE LET y == [x EXCEPT !.of = p, !.skill = None]
                           IN y \in ListRow /\ y.of = p /\ y.order = x.order /\ y.skill = None
        OBVIOUS
      <3>1. PICK y : y = [x EXCEPT !.of = p, !.skill = None]
        OBVIOUS
      <3>2. x \in [of : Parents, order : Nat, on : BOOLEAN, skill : Skills \cup {None}]
        BY DEF ListRow
      <3>3. y = [of |-> p, order |-> x.order, on |-> x.on, skill |-> None]
        BY <3>1, <3>2
      <3>4. y \in ListRow /\ y.of = p /\ y.order = x.order /\ y.skill = None
        BY <3>2, <3>3 DEF ListRow
      <3> QED
        BY <3>1, <3>4
    <2>18. \A i \in 1 .. m : /\ row'[newLs[i]] \in ListRow /\ row'[newLs[i]].of = t
                             /\ row'[newLs[i]].order = row[ls[i]].order /\ row'[newLs[i]].skill = row[ls[i]].skill
      <3>1. SUFFICES ASSUME NEW i \in 1 .. m
                     PROVE /\ row'[newLs[i]] \in ListRow /\ row'[newLs[i]].of = t
                           /\ row'[newLs[i]].order = row[ls[i]].order /\ row'[newLs[i]].skill = row[ls[i]].skill
        OBVIOUS
      <3>2. newLs[i] \in Rows /\ newLs[i] \in NL
        BY <2>7, <2>10, <2>11
      <3>3. row'[newLs[i]] = level(newLs[i])
        <4> HIDE DEF level, outcome, NL, NO, at
        <4> QED
          BY <2>1, <3>2 DEF NL, NO
      <3>4. level(newLs[i]) = [row[ls[i]] EXCEPT !.of = t]
        <4>1. at(newLs, newLs[i]) = i
          BY <2>12
        <4> HIDE DEF at
        <4> QED
          BY <4>1
      <3>5. PICK x : x = row[ls[i]]
        OBVIOUS
      <3>6. row'[newLs[i]] = [x EXCEPT !.of = t] /\ x \in ListRow /\ t \in Parents
        <4> HIDE DEF level
        <4> QED
          BY <2>3, <2>11, <2>14, <3>3, <3>4, <3>5
      <3> HIDE DEF level
      <3> QED
        BY <2>16, <3>5, <3>6
    <2> DEFINE place(j) == at(ls, row[os[j]].of)
    <2>19. \A j \in 1 .. n : place(j) \in 1 .. m /\ ls[place(j)] = row[os[j]].of
      BY <2>5, <2>15
    <2>20. \A j \in 1 .. n : /\ row'[newOs[j]] \in ListRow /\ row'[newOs[j]].of = newLs[place(j)]
                             /\ row'[newOs[j]].order = row[os[j]].order /\ row'[newOs[j]].skill = None
      <3>1. SUFFICES ASSUME NEW j \in 1 .. n
                     PROVE /\ row'[newOs[j]] \in ListRow /\ row'[newOs[j]].of = newLs[place(j)]
                           /\ row'[newOs[j]].order = row[os[j]].order /\ row'[newOs[j]].skill = None
        OBVIOUS
      <3>2. newOs[j] \in Rows /\ newOs[j] \in NO /\ newOs[j] \notin NL
        BY <2>7, <2>8, <2>10, <2>11
      <3>3. row'[newOs[j]] = outcome(newOs[j])
        <4> HIDE DEF level, outcome, NL, NO, at
        <4> QED
          BY <2>1, <3>2 DEF NL, NO
      <3>4. outcome(newOs[j]) = [row[os[j]] EXCEPT !.of = newLs[place(j)], !.skill = None]
        <4>1. at(newOs, newOs[j]) = j
          BY <2>13
        <4> HIDE DEF at
        <4> QED
          BY <4>1
      <3>5. PICK x, p : x = row[os[j]] /\ p = newLs[place(j)]
        OBVIOUS
      <3>6. row'[newOs[j]] = [x EXCEPT !.of = p, !.skill = None] /\ x \in ListRow /\ p \in Parents
        <4>1. p \in Levels
          <5> HIDE DEF place
          <5> QED
            BY <2>7, <2>19, <3>5
        <4> HIDE DEF outcome, place
        <4> QED
          BY <2>11, <2>15, <3>3, <3>4, <3>5, <4>1
      <3> HIDE DEF outcome, place
      <3>7. PICK y : y = [x EXCEPT !.of = p, !.skill = None]
        OBVIOUS
      <3>8. y \in ListRow /\ y.of = p /\ y.order = x.order /\ y.skill = None
        BY <2>17, <3>6, <3>7
      <3> QED
        BY <3>5, <3>6, <3>7, <3>8
    <2> HIDE DEF at, level, outcome, place, NL, NO
    <2>21. \A r \in Rows \ N : row'[r] = row[r]
      BY <2>1 DEF NL, NO
    <2>22. \A r \in N : (\E i \in 1 .. m : r = newLs[i]) \/ (\E j \in 1 .. n : r = newOs[j])
      BY <2>10
    <2>23. N \in SUBSET Rows /\ N \cap deleted = {} /\ \A r \in N : row[r] = None /\ row'[r] \in ListRow
      BY <2>7, <2>8, <2>11, <2>18, <2>20, <2>22
    <2>24. row' \in [Rows -> ListRow \cup {None}]
      <3>1. row' = [r \in Rows |-> row'[r]]
        BY <2>1
      <3>2. \A r \in Rows : row'[r] \in ListRow \cup {None}
        <4>1. \A r \in Rows : row[r] \in ListRow \cup {None}
          BY <2>2 DEF TablesSound, Tables
        <4> HIDE DEF N
        <4> QED
          BY <2>21, <2>23, <4>1
      <3> QED
        BY <3>1, <3>2
    <2>25. \A x \in N \cap Levels : row'[x].of = t
      BY <2>8, <2>11, <2>18, <2>22
    <2>26. \A o \in N \cap Outcomes : row'[o].of \in N \cap Levels
      BY <2>7, <2>10, <2>11, <2>19, <2>20, <2>22
    <2>27. \A r \in N : row'[r].skill # None => skill'[row'[r].skill] # None
      <3>1. \A i \in 1 .. m : row[ls[i]].skill # None => skill[row[ls[i]].skill] # None
        BY <2>2, <2>11, <2>14 DEF TablesSound, Linked
      <3> QED
        BY <1>2, <2>18, <2>20, <2>22, <3>1
    <2>28. \A q, r \in N : q # r /\ row'[q].of = row'[r].of => row'[q].order # row'[r].order
      <3>1. SUFFICES ASSUME NEW q \in N, NEW r \in N, q # r, row'[q].of = row'[r].of PROVE row'[q].order # row'[r].order
        OBVIOUS
      <3>2. \A x, y \in Rows : x # y /\ row[x] # None /\ row[y] # None /\ row[x].of = row[y].of => row[x].order # row[y].order
        BY <2>2 DEF TablesSound, OrdersDiffer
      <3>3. \A i \in 1 .. m, j \in 1 .. n : row'[newLs[i]].of # row'[newOs[j]].of
        BY <2>3, <2>7, <2>11, <2>18, <2>19, <2>20
      <3>4. \A i, k \in 1 .. m : i # k => row'[newLs[i]].order # row'[newLs[k]].order
        BY <2>5, <2>11, <2>14, <2>18, <3>2
      <3>5. \A j, k \in 1 .. n : j # k /\ row'[newOs[j]].of = row'[newOs[k]].of => row'[newOs[j]].order # row'[newOs[k]].order
        <4>1. SUFFICES ASSUME NEW j \in 1 .. n, NEW k \in 1 .. n, j # k, row'[newOs[j]].of = row'[newOs[k]].of
                       PROVE row[os[j]].order # row[os[k]].order
          BY <2>20
        <4>2. place(j) = place(k)
          BY <2>7, <2>19, <2>20, <4>1
        <4>3. row[os[j]].of = row[os[k]].of
          BY <2>19, <4>2
        <4> QED
          BY <2>6, <2>11, <2>15, <3>2, <4>1, <4>3
      <3> QED
        BY <2>22, <3>1, <3>3, <3>4, <3>5
    <2>29. TablesSound' /\ Ages /\ RowsGrow
      <3>1. PICK u, x, M, K : u \in Tracks /\ u = t /\ x = new /\ M = N /\ K = {}
        BY <2>3
      <3>2. /\ K \in SUBSET Skills /\ K \cap deleted = {} /\ \A s \in K : skill[s] = None
            /\ skill' \in [Skills -> SkillRow \cup {None}] /\ \A s \in Skills \ K : skill'[s] = skill[s]
            /\ \A s \in K : skill'[s] \in SkillRow /\ skill'[s].level \in M
        BY <1>2, <2>2, <3>1 DEF TablesSound, Tables
      <3>3. /\ M \in SUBSET Rows /\ M \cap deleted = {} /\ \A r \in M : row[r] = None
            /\ row' \in [Rows -> ListRow \cup {None}] /\ \A r \in Rows \ M : row'[r] = row[r]
            /\ \A r \in M : row'[r] \in ListRow
        BY <2>21, <2>23, <2>24, <3>1
      <3>4. /\ \A l \in M \cap Levels : row'[l].of = u
            /\ \A o \in M \cap Outcomes : row'[o].of \in M \cap Levels
            /\ \A r \in M : row'[r].skill # None => skill'[row'[r].skill] # None
            /\ \A q, r \in M : q # r /\ row'[q].of = row'[r].of => row'[q].order # row'[r].order
        <4> HIDE DEF N
        <4> QED
          BY <2>25, <2>26, <2>27, <2>28, <3>1
      <3>5. UNCHANGED <<case, deleted, department, holdings, asked>> /\ TablesSound /\ TrackAdded(c, u, x)
        BY <1>2, <2>2, <2>9, <3>1
      <3>6. u \in Tracks
        BY <3>1
      <3> QED
        BY <3>2, <3>3, <3>4, <3>5, <3>6, TreeAddedSound
    <2> QED
      BY <1>1, <1>2, <2>1, <2>2, <2>3, <2>9, <2>29 DEF new, src, arg
  <1> QED
    BY <1>6, <1>7

\* The copy of a track.
LEMMA InsertCopySound ==
  ASSUME CatalogueSound, CallsSound', NEW c \in Callers, InsertCopy(c) PROVE CatalogueSound'
  <1>1. TablesSound /\ UNCHANGED <<case, deleted, department, skill, holdings, asked>>
    BY DEF CatalogueSound, InsertCopy
  <1>2. ASSUME UNCHANGED <<track, row, raced>> PROVE TablesSound' /\ Ages
    BY <1>1, <1>2, TablesKept DEF structure
  <1>3. TablesSound' /\ Ages
    BY <1>2, InsertCopyDoes
  <1>4. PICK result, written : End(c, result, written)
    BY DEF InsertCopy
  <1> QED
    BY <1>3, <1>4, WritesEnd, SoundWrites DEF CatalogueSound

-----------------------------------------------------------------------------
(* All steps together.                                                     *)

\* Whatever the catalogue does keeps its tables and its calls sound.
LEMMA CatalogueSteps ==
  ASSUME CatalogueSound, NEW c \in Callers, Step(c)
  PROVE CatalogueSound'
  <1>1. CallsSound'
    <2>1. PICK ops : ops = {}
      OBVIOUS
    <2>2. None \notin ops /\ ops \cap CatalogueCalls = {}
      BY <2>1
    <2> QED
      BY <2>2, CatalogueSpares DEF CatalogueSound
  <1>2. CASE \/ CreateTrack(c) \/ CreateFull(c) \/ UpdateTrack(c) \/ CopyTrack(c) \/ DeleteTrack(c) \/ DeleteDepartment(c)
             \/ CreateLevel(c) \/ CreateOutcome(c) \/ CopyOutcome(c) \/ AddOutcome(c) \/ DeleteRow(c) \/ Reorder(c)
             \/ CreateSkill(c) \/ DeleteSkill(c) \/ Assign(c) \/ PatchOutcomes(c)
    BY <1>1, <1>2, Begins
  <1>3. CASE \/ InsertTrack(c) \/ InsertFull(c) \/ SaveTrack(c) \/ InsertCopy(c) \/ DeleteTree(c) \/ ToggleTrack(c)
             \/ RemoveDepartment(c) \/ ToggleDepartment(c)
    BY <1>1, <1>3, InsertTrackSound, InsertFullSound, SaveTrackSound, InsertCopySound,
       DeleteTreeSound, ToggleTrackSound,
       DepartmentsSound
  <1>4. CASE \/ ToggleLevel(c) \/ ToggleOutcome(c) \/ AddSkill(c) \/ InsertRow(c) \/ RemoveRow(c) \/ MoveRows(c)
             \/ SaveSkill(c) \/ RemoveSkill(c)
    BY <1>1, <1>4, ToggleRowSound, AddSkillSound, InsertRowSound, RemoveRowSound, MoveRowsSound,
       SaveSkillSound,
       RemoveSkillSound
  <1>5. CASE Retire(c) \/ CommitAssignment(c) \/ AddCustom(c) \/ RemoveCustom(c) \/ Achieve(c)
    BY <1>1, <1>5, RetireSound, CommitSound, AddCustomSound, RemoveCustomSound, AchieveSound
  <1> QED
    BY <1>2, <1>3, <1>4, <1>5 DEF Step

\* Other services leave them alone.
LEMMA CatalogueBeside ==
  ASSUME CatalogueSound, CallsSound', Spares(CatalogueCalls), UNCHANGED <<case, structure, holdings, asked, deleted, raced>>
  PROVE CatalogueSound'
  <1>1. TablesSound' /\ Ages
    BY TablesKept DEF CatalogueSound
  <1>2. SUFFICES ASSUME NEW d \in Callers PROVE CallTyped(call[d])' /\ CallFits(call[d])'
    BY <1>1 DEF CatalogueSound
  <1>3. PICK x : x = call'[d]
    OBVIOUS
  <1>4. CASE x.op \in CatalogueCalls
    <2>1. CallTyped(x) /\ CallFits(x)
      BY <1>3, <1>4 DEF Spares, CatalogueSound
    <2>2. CallFits(x)' /\ CallTyped(x)'
      BY <1>1, <2>1, StillFits DEF CallTyped
    <2> QED
      BY <1>3, <2>2
  <1>5. CASE x.op \notin CatalogueCalls
    BY <1>3, <1>5 DEF CallTyped, CallFits, CatalogueCalls, Inserts
  <1> QED
    BY <1>4, <1>5

\* The variables have their types.
LEMMA CatalogueTypes ==
  ASSUME CatalogueSound PROVE TypeOK
  BY DEF CatalogueSound, CallsSound, TablesSound, TypeOK, Refusals
=============================================================================
