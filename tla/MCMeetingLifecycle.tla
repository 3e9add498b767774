------------------------ MODULE MCMeetingLifecycle ------------------------
(* Instances of MeetingLifecycle for TLC. *)
EXTENDS MeetingLifecycle, TLC

\* A request is named for what it does; a second one of a kind ends in "2".
MCOperationOf ==
  [r \in Requests |-> CASE r = "confirm2" -> "confirm"
                        [] r = "reschedule2" -> "reschedule"
                        [] r = "cancel2" -> "cancel"
                        [] OTHER -> r]

\* No session has a meeting yet.
NothingBooked == [s \in Sessions |-> None]

\* Every session has its meeting (give at least as many events as sessions).
AllBooked ==
  CHOOSE f \in [Sessions -> Events] : \A s, t \in Sessions : f[s] = f[t] => s = t

\* Graph's ids are interchangeable where no session starts with one.
EventSymmetry == Permutations(Events)
============================================================================
