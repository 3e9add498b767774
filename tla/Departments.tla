------------------------------ MODULE Departments ------------------------------
(***************************************************************************)
(* The departments of an organization, the teams and learners that hang on *)
(* them, and the script that puts learners back into the department of     *)
(* their team and deletes the departments this empties.                    *)
(*                                                                         *)
(* Abstracted: Arabic names, other organizations; a track hangs on its     *)
(* department as a team without learners does.                             *)
(***************************************************************************)
EXTENDS Calls, FiniteSets

CONSTANTS Units, UnitNames, Crews, Persons    \* departments, their names, teams, learners

UnitRow == [name : UnitNames, enabled : BOOLEAN]
PostRow == [team : Crews, unit : Units \cup {None}]
\* Learners can be counted; a department and a row are no None.
ASSUME UnitsAssumption == IsFiniteSet(Persons) /\ None \notin Units \cup UnitRow \cup PostRow

VARIABLES
  unit,        \* unit[d]: [name, enabled], or None
  base,        \* base[t]: the department of a team, or None when there is no such team
  post,        \* post[l]: [team, unit], unit may be None; or None when there is no such learner
  repaired     \* what the last run of the script came to, or None

unitVars == <<unit, base, post, repaired>>

UnitsInit(start) == unit = start.unit /\ base = start.base /\ post = start.post /\ repaired = None

Standing(d) == unit[d] # None
Taken(name, but) == \E d \in Units \ {but} : Standing(d) /\ unit[d].name = name
TeamsOf(d) == {t \in Crews : base[t] = d}
PersonsOf(d) == {l \in Persons : post[l] # None /\ post[l].unit = d}
Dependents(d) == TeamsOf(d) \cup PersonsOf(d)

-----------------------------------------------------------------------------
(* Departments.  The database keeps names unique, and a department that    *)
(* something hangs on.                                                     *)

CreateUnit(c) ==
  /\ \E name \in UnitNames : ~Taken(name, None) /\ Begin(c, "createUnit", "insert", name, None)
  /\ UNCHANGED unitVars
InsertUnit(c) ==
  /\ At(c, "createUnit", "insert")
  /\ IF Taken(call[c].arg, None) THEN End(c, "clash", {}) /\ UNCHANGED unitVars
     ELSE /\ \E d \in Units : ~Standing(d) /\ unit' = [unit EXCEPT ![d] = [name |-> call[c].arg, enabled |-> TRUE]]
          /\ End(c, None, {"units"})
          /\ UNCHANGED <<base, post, repaired>>
UpdateUnit(c) ==
  /\ \E d \in Units, name \in UnitNames, enabled \in BOOLEAN :
       /\ Standing(d) /\ (name # unit[d].name => ~Taken(name, None))
       /\ Begin(c, "updateUnit", "save", [unit |-> d, to |-> [name |-> name, enabled |-> enabled]], None)
  /\ UNCHANGED unitVars
SaveUnit(c) ==
  /\ At(c, "updateUnit", "save")
  /\ LET d == call[c].arg.unit
         refusal == FirstOf(<<Problem(~Standing(d), "missing"), Problem(Taken(call[c].arg.to.name, d), "clash")>>)
     IN IF refusal # None THEN End(c, refusal, {}) /\ UNCHANGED unit
        ELSE End(c, None, {"units"}) /\ unit' = [unit EXCEPT ![d] = call[c].arg.to]
  /\ UNCHANGED <<base, post, repaired>>
\* Only one that nothing hangs on.
DeleteUnit(c) ==
  /\ \E d \in Units : Standing(d) /\ Dependents(d) = {} /\ Begin(c, "deleteUnit", "delete", d, None)
  /\ UNCHANGED unitVars
Refusal(d) == FirstOf(<<Problem(~Standing(d), "missing"), Problem(Dependents(d) # {}, "referenced")>>)
RemoveUnit(c) ==
  /\ At(c, "deleteUnit", "delete")
  /\ LET d == call[c].arg
     IN IF Refusal(d) # None THEN End(c, Refusal(d), {}) /\ UNCHANGED unit
        ELSE End(c, None, {"units"}) /\ unit' = [unit EXCEPT ![d] = None]
  /\ UNCHANGED <<base, post, repaired>>

-----------------------------------------------------------------------------
(* Who hangs on them: a team or a learner is put into an enabled one.      *)

Accepts(d) == Standing(d) /\ unit[d].enabled
PlaceTeam(c) ==
  /\ \E t \in Crews, d \in Units : Accepts(d) /\ Begin(c, "placeTeam", "save", [team |-> t, unit |-> d], None)
  /\ UNCHANGED unitVars
SavePlace(c) ==
  /\ At(c, "placeTeam", "save")
  /\ LET to == call[c].arg
     IN IF ~Standing(to.unit) THEN End(c, "referenced", {}) /\ UNCHANGED base
        ELSE End(c, None, {"units"}) /\ base' = [base EXCEPT ![to.team] = to.unit]
  /\ UNCHANGED <<unit, post, repaired>>
MovePerson(c) ==
  /\ \E l \in Persons, d \in Units :
       post[l] # None /\ Accepts(d) /\ Begin(c, "movePerson", "save", [person |-> l, unit |-> d], None)
  /\ UNCHANGED unitVars
SaveMove(c) ==
  /\ At(c, "movePerson", "save")
  /\ LET to == call[c].arg
     IN IF ~Standing(to.unit) THEN End(c, "referenced", {}) /\ UNCHANGED post
        ELSE End(c, None, {"units"}) /\ post' = [post EXCEPT ![to.person].unit = to.unit]
  /\ UNCHANGED <<unit, base, repaired>>
\* A learner is imported into a team, with the department that the team was read with.
JoinTeam(c) ==
  /\ \E l \in Persons, t \in Crews :
       post[l] = None /\ base[t] # None /\ Begin(c, "joinTeam", "insert", [person |-> l, team |-> t], base[t])
  /\ UNCHANGED unitVars
InsertPerson(c) ==
  /\ At(c, "joinTeam", "insert")
  /\ LET d == call[c].seen
     IN IF ~Standing(d) THEN End(c, "referenced", {}) /\ UNCHANGED post
        ELSE /\ End(c, None, {"units"})
             /\ post' = [post EXCEPT ![call[c].arg.person] = [team |-> call[c].arg.team, unit |-> d]]
  /\ UNCHANGED <<unit, base, repaired>>

-----------------------------------------------------------------------------
(* The script.                                                             *)

\* only: leave learners without a department alone.  moves: where each one is to go.
Misplaced(only) ==
  {l \in Persons : /\ post[l] # None /\ post[l].unit # base[post[l].team]
                   /\ ~(only /\ post[l].unit = None)}
Vacated(moves) == {post[l].unit : l \in DOMAIN moves} \ {None}
Repair(c) ==
  /\ \E apply, only \in BOOLEAN :
       LET moves == [l \in Misplaced(only) |-> [from |-> post[l].unit, to |-> base[post[l].team]]]
       IN Begin(c, "repair", IF apply THEN "move" ELSE "judge", [apply |-> apply, only |-> only],
                [moves |-> moves, waiting |-> DOMAIN moves, vacated |-> Vacated(moves), emptied |-> {}, deleted |-> {},
                 \* what a dry run at this moment would name
                 foretold |-> {d \in Vacated(moves) : TeamsOf(d) = {} /\ PersonsOf(d) \subseteq DOMAIN moves}])
  /\ UNCHANGED unitVars
MoveMisplaced(c) ==
  /\ At(c, "repair", "move")
  /\ LET seen == call[c].seen
     IN \E l \in seen.waiting :
          IF ~Standing(seen.moves[l].to) THEN End(c, "referenced", {}) /\ UNCHANGED post
          ELSE /\ post' = [post EXCEPT ![l].unit = seen.moves[l].to]
               /\ Goto(c, "move", [seen EXCEPT !.waiting = @ \ {l}], {"units"})
  /\ UNCHANGED <<unit, base, repaired>>
Moved(c) ==
  /\ At(c, "repair", "move") /\ call[c].seen.waiting = {}
  /\ Goto(c, "judge", call[c].seen, {})
  /\ UNCHANGED unitVars
StillHeld(d, apply, moves) ==
  IF apply THEN Cardinality(PersonsOf(d))
  ELSE Cardinality(PersonsOf(d)) - Cardinality({l \in DOMAIN moves : moves[l].from = d})
Judge(c) ==
  /\ At(c, "repair", "judge")
  /\ LET seen == call[c].seen
     IN \E d \in seen.vacated :
          Goto(c, "judge",
               [seen EXCEPT !.vacated = @ \ {d},
                            !.emptied = IF Standing(d) /\ TeamsOf(d) = {} /\ StillHeld(d, call[c].arg.apply, seen.moves) <= 0
                                        THEN @ \cup {d} ELSE @], {})
  /\ UNCHANGED unitVars
DeleteEmptied(c) ==
  /\ At(c, "repair", "judge") /\ call[c].seen.vacated = {} /\ call[c].arg.apply
  /\ LET seen == call[c].seen
     IN \E d \in seen.emptied \ seen.deleted :
          IF Refusal(d) # None THEN End(c, Refusal(d), {}) /\ UNCHANGED unit
          ELSE /\ unit' = [unit EXCEPT ![d] = None]
               /\ Goto(c, "judge", [seen EXCEPT !.deleted = @ \cup {d}], {"units"})
  /\ UNCHANGED <<base, post, repaired>>
EndRepair(c) ==
  /\ At(c, "repair", "judge") /\ call[c].seen.vacated = {}
  /\ LET seen == call[c].seen
     IN /\ call[c].arg.apply => seen.emptied = seen.deleted
        /\ repaired' = [apply |-> call[c].arg.apply, foretold |-> seen.foretold, emptied |-> seen.emptied,
                        misplaced |-> Misplaced(call[c].arg.only), torn |-> Stale(c, "units")]
  /\ End(c, None, {})
  /\ UNCHANGED <<unit, base, post>>

UnitStep(c) ==
  \/ CreateUnit(c) \/ InsertUnit(c) \/ UpdateUnit(c) \/ SaveUnit(c) \/ DeleteUnit(c) \/ RemoveUnit(c)
  \/ PlaceTeam(c) \/ SavePlace(c) \/ MovePerson(c) \/ SaveMove(c) \/ JoinTeam(c) \/ InsertPerson(c)
  \/ Repair(c) \/ MoveMisplaced(c) \/ Moved(c) \/ Judge(c) \/ DeleteEmptied(c) \/ EndRepair(c)

-----------------------------------------------------------------------------
(* Properties.                                                             *)

\* Whatever hangs on a department hangs on one that is there, and names differ.
UnitsTypeOK ==
  /\ \A t \in Crews : base[t] # None => Standing(base[t])
  /\ \A l \in Persons : post[l] # None => base[post[l].team] # None /\ (post[l].unit # None => Standing(post[l].unit))
  /\ \A d \in Units : Standing(d) => ~Taken(unit[d].name, d)

\* backfill-learner-departments.ts:11-22: when nothing comes between, the script deletes just the
\* departments that a dry run names, and leaves nobody whom it looks at outside the
\* department of his team; the database refuses it, or any other call, only for what came between.
RepairDoesWhatItSays ==
  /\ repaired # None /\ ~repaired.torn =>
       repaired.emptied = repaired.foretold /\ (repaired.apply => repaired.misplaced = {})
  /\ \A c \in Callers : call[c].result # None /\ call[c].op \in {"createUnit", "updateUnit", "deleteUnit", "placeTeam",
       "movePerson", "joinTeam", "repair"} => Stale(c, "units")
=============================================================================
