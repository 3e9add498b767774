-------------------------------- MODULE Calls --------------------------------
(***************************************************************************)
(* Requests that the API serves at once.  A request first makes its reads  *)
(* and checks, then writes, and others come between; one that its checks   *)
(* refuse changes nothing and is no step, one that the database refuses    *)
(* keeps what it has written before.  What others write between a call's   *)
(* reads and its last write is kept in crossed, so that a property can     *)
(* tell what needs an overlap to go wrong from what does not.              *)
(***************************************************************************)
EXTENDS Integers, Sequences

CONSTANTS
  None,
  Callers     \* requests that may be served at once

VARIABLES
  call,       \* call[c]: how far c's call has got
  crossed,    \* crossed[c]: what others have written since c's call made its reads
  left        \* left[op]: how often op may still be called, a bound

callVars == <<call, crossed, left>>

Idle == [op |-> None, pc |-> "idle", arg |-> None, seen |-> None, result |-> None]
CallsInit(allowed) ==
  /\ call = [c \in Callers |-> Idle]
  /\ crossed = [c \in Callers |-> {}]
  /\ left = allowed

Asked(c, op) ==
  /\ call[c].pc = "idle" /\ op \in DOMAIN left /\ left[op] > 0
  /\ left' = [left EXCEPT ![op] = @ - 1]
At(c, op, pc) == call[c].op = op /\ call[c].pc = pc
Stale(c, what) == what \in crossed[c]
Crossing(c, written) == [d \in Callers |->
  IF d # c /\ call[d].pc # "idle" THEN crossed[d] \cup written ELSE crossed[d]]

\* A call that its reads do not refuse.
Begin(c, op, pc, arg, seen) ==
  /\ Asked(c, op)
  /\ call' = [call EXCEPT ![c] = [op |-> op, pc |-> pc, arg |-> arg, seen |-> seen, result |-> None]]
  /\ crossed' = [crossed EXCEPT ![c] = {}]
\* A step that is not its last.
Goto(c, pc, seen, written) ==
  /\ call' = [call EXCEPT ![c].pc = pc, ![c].seen = seen]
  /\ crossed' = Crossing(c, written)
  /\ UNCHANGED left
\* A step that reads anew: what was written before no longer matters.
Reread(c, pc, seen) ==
  /\ call' = [call EXCEPT ![c].pc = pc, ![c].seen = seen]
  /\ crossed' = [crossed EXCEPT ![c] = {}]
  /\ UNCHANGED left
\* Its last step: result: how it failed; "clash", "referenced" and "missing" are the database's refusals.
End(c, result, written) ==
  /\ call' = [call EXCEPT ![c] = IF result = None THEN Idle
                                 ELSE [@ EXCEPT !.pc = "idle", !.seen = None, !.result = result]]
  /\ crossed' = IF result = None THEN Crossing(c, written) ELSE crossed
  /\ UNCHANGED left
\* A call of one write, or of a read and a write that only asks whether the row is there.
Atomically(c, op, written) ==
  /\ Asked(c, op)
  /\ crossed' = Crossing(c, written)
  /\ UNCHANGED call

Problem(condition, result) == IF condition THEN result ELSE None
FirstOf(problems) ==
  IF \A i \in DOMAIN problems : problems[i] = None THEN None
  ELSE problems[CHOOSE i \in DOMAIN problems : problems[i] # None /\ \A j \in 1 .. i - 1 : problems[j] = None]
=============================================================================
