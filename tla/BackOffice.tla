------------------------------ MODULE BackOffice ------------------------------
(***************************************************************************)
(* What goes on behind the portal: the catalogue and its seeding, the      *)
(* departments, the nightly jobs, what is put together for reports and     *)
(* agents, and the lists that everybody reads.  They share the requests    *)
(* that are served at once (Calls), and each keeps its own tables.         *)
(***************************************************************************)
EXTENDS Catalogue, Seeds, Departments, Sweeps, Briefings, Listings

catalogueVars == <<case, structure, holdings, asked, deleted, raced>>
officeVars == <<callVars, catalogueVars, seedVars, unitVars, sweepVars, briefVars, listVars>>

OfficeInit ==
  /\ Init
  /\ SeedsInit(case.seeds) /\ UnitsInit(case.units) /\ SweepsInit(case.sweeps)
  /\ BriefingsInit(case.briefings) /\ ListingsInit(case.listings)

\* A service takes a step only where something is asked of it, so that TLC looks no further.
Asks(calls) == DOMAIN left \cap calls # {}
SeedCalls == {"seed", "giveSkill", "reassign"}
UnitCalls == {"createUnit", "updateUnit", "deleteUnit", "placeTeam", "movePerson", "joinTeam", "repair"}
SweepCalls == {"cleanup", "fallDue", "submitTranscript", "deliver", "recompute"}
BriefCalls == {"tell", "transcript", "brief", "evaluate", "storeEvaluation", "changeSlide", "loseManager"}
ListCalls == {"walk", "open", "appoint", "dismiss", "enroll"}
ASSUME OfficeAssumption ==
  None \notin CatalogueCalls \cup SeedCalls \cup UnitCalls \cup SweepCalls \cup BriefCalls \cup ListCalls
\* What the services start with.
ASSUME StartAssumption == \A k \in Cases :
  /\ k.seeds.step \in 0 .. Len(Script) /\ k.seeds.skilled \in BOOLEAN
  /\ k.units.unit \in [Units -> UnitRow \cup {None}] /\ k.units.base \in [Crews -> Units \cup {None}]
  /\ k.units.post \in [Persons -> PostRow \cup {None}]
  /\ \A t \in Crews : k.units.base[t] # None => k.units.unit[k.units.base[t]] # None
  /\ \A l \in Persons : k.units.post[l] # None =>
       /\ k.units.base[k.units.post[l].team] # None
       /\ k.units.post[l].unit # None => k.units.unit[k.units.post[l].unit] # None
  /\ \A d, e \in Units : k.units.unit[d] # None /\ k.units.unit[e] # None /\ d # e => k.units.unit[d].name # k.units.unit[e].name
  /\ k.briefings.dispatched \subseteq Lessons /\ k.briefings.slide \in [Slides -> {"PENDING", "CLEAN", "INFECTED", None}]
  /\ k.sweeps.transcript \in [Papers -> PaperRow \cup {None}] /\ IsFiniteSet(k.sweeps.logbook)
  /\ \A p \in Papers : k.sweeps.transcript[p] # None => k.sweeps.transcript[p].version = 0
  /\ k.listings.leads \in [Groups -> Readers \cup {None}] /\ k.listings.entry \in [Entries -> EntryRow \cup {None}]
  /\ \A l \in Entries : k.listings.entry[l] # None => k.listings.entry[l].made <= FirstDay
  /\ \A l, m \in Entries : k.listings.entry[l] # None /\ k.listings.entry[m] # None
                           /\ k.listings.entry[l].made = k.listings.entry[m].made => l = m

OfficeStep(c) ==
  \/ Asks(CatalogueCalls) /\ Step(c) /\ UNCHANGED <<seedVars, unitVars, sweepVars, briefVars, listVars>>
  \/ Asks(SeedCalls) /\ SeedStep(c) /\ UNCHANGED <<catalogueVars, unitVars, sweepVars, briefVars, listVars>>
  \/ Asks(UnitCalls) /\ UnitStep(c) /\ UNCHANGED <<catalogueVars, seedVars, sweepVars, briefVars, listVars>>
  \/ Asks(SweepCalls) /\ SweepsStep(c) /\ UNCHANGED <<catalogueVars, seedVars, unitVars, briefVars, listVars>>
  \/ Asks(BriefCalls) /\ BriefStep(c) /\ UNCHANGED <<catalogueVars, seedVars, unitVars, sweepVars, listVars>>
  \/ Asks(ListCalls) /\ ListStep(c) /\ UNCHANGED <<catalogueVars, seedVars, unitVars, sweepVars, briefVars>>
OfficeNext == \E c \in Callers : OfficeStep(c)
OfficeSpec == OfficeInit /\ [][OfficeNext]_officeVars

-----------------------------------------------------------------------------
\* The types of all of them.
OfficeTypeOK ==
  TypeOK /\ SeedsTypeOK /\ UnitsTypeOK /\ SweepsTypeOK /\ BriefingsTypeOK /\ ListingsTypeOK

\* What the scripts of an operator promise: the seeding and the repair of departments.
ScriptsHold == SeedsConverge /\ RepairDoesWhatItSays
=============================================================================
