---------------------------- MODULE OrderedLists ----------------------------
(***************************************************************************)
(* What the catalogue promises of the levels of a track and the outcomes   *)
(* of a level: each is a list.  A new entry comes last, one that goes      *)
(* leaves the others as they are, and the list changes its order only to   *)
(* one that was asked for.  Catalogue keeps these lists as rows with an    *)
(* integer column that is unique within the list, and works on them by     *)
(* reads and writes that other calls come between.                         *)
(***************************************************************************)
EXTENDS Naturals, Sequences, SequencesExt

CONSTANTS
  Lists       \* the owners of the lists

VARIABLES
  list,       \* list[p]: the entries of p, in order
  asked,      \* asked[p]: the last order that was granted for p
  overtaken   \* lists with an insertion under way that another one overtook

vars == <<list, asked, overtaken>>

\* Entries that came in after the order was granted follow the ones it names.
Permuted(p) ==
  /\ IsInjective(asked'[p]) /\ ToSet(asked'[p]) \subseteq ToSet(list[p])
  /\ list'[p] = asked'[p] \o SelectSeq(list[p], LAMBDA x : x \notin ToSet(asked'[p]))

InsertedAt(p, i) == list'[p][i] \notin ToSet(list[p]) /\ RemoveAt(list'[p], i) = list[p]
Appended(p) == Len(list'[p]) = Len(list[p]) + 1 /\ InsertedAt(p, Len(list'[p]))
InsertedLate(p) == p \in overtaken /\ \E i \in DOMAIN list'[p] : InsertedAt(p, i)
Removed(p) == \E i \in DOMAIN list[p] : list'[p] = RemoveAt(list[p], i)

\* A track that is created, copied or deleted takes its lists with it.
Filled(p) == list[p] = <<>> /\ IsInjective(list'[p])
Emptied(p) == list'[p] = <<>>

Init == \A p \in Lists : IsInjective(list[p])
Next == \A p \in Lists :
  \/ Permuted(p)
  \/ /\ asked'[p] = asked[p]
     /\ \/ list'[p] = list[p]
        \/ Appended(p) \/ InsertedLate(p) \/ Removed(p) \/ Filled(p) \/ Emptied(p)
Spec == Init /\ [][Next]_vars
=============================================================================
