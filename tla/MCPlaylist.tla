----------------------------- MODULE MCPlaylist -----------------------------
(* A finite instance of Playlist for TLC, with one TV and one              *)
(* administrator.                                                          *)
EXTENDS Playlist

(* No step comes between those of a request.  A poll reads the tables and  *)
(* no requests, a request reads no polls and writes the tables in its last *)
(* step only: every other order leads to the same tables and screens.      *)
MCRequestsApart ==
  (\E c \in Admins : requests[c] # Idle) => requests' # requests

(* A poll that has read nothing but its device's row: what happens next is *)
(* a change of that row, or else may as well have happened before the      *)
(* poll, which is then the calmer one.                                     *)
MCRowChangesFirst ==
  \A d \in Devices :
    (polls[d].step = "reads" /\ polls[d].todo = Reads /\ polls' = polls) =>
      \/ devices[d] # polls[d].row
      \/ \E c \in Admins : requests[c] # Idle \/ requests'[c].op = "patch"

(* BOUND: of the polls of a TV only the first is disturbed, and by no      *)
(* request but the first.  What it leaves on the screen does not depend on *)
(* what was there before.                                                  *)
MCMayDisturb(d) == screen[d] = NoScreen /\ asked <= 1

MCFirstIsDisturbed ==
  \A d \in Devices :
    (polls[d] # NoPoll /\ ~calm'[d]) => MCMayDisturb(d) /\ asked' <= 1

(* Reads between which nothing changed lead to one state in every order:   *)
(* those of a calm poll come in this one, and what it leaves out is read   *)
(* after something changed.                                                *)
(* BOUND: what is left then comes in this order too.                       *)
MCOrder == <<"settings", "blocks", "items", "groups", "layers">>

MCDone(poll) ==
  IF poll.step # "reads" THEN {}
  ELSE {i \in DOMAIN MCOrder : /\ MCOrder[i] \notin poll.todo
                               /\ i = 5 => "groups" \notin poll.todo}

MCReadsInOrder ==
  \A d \in Devices : \A i \in MCDone(polls'[d]) \ MCDone(polls[d]) :
    IF calm[d] /\ MCMayDisturb(d) THEN \A j \in MCDone(polls[d]) : j < i
                                  ELSE 1..(i - 1) \subseteq MCDone(polls[d])

(* BOUND: one part of live ends, or the submission goes off air.           *)
MCOneEnds ==
  Cardinality({<<scope, part>> \in Scopes \X {"main", "alert"} :
                 part \in live[scope].over})
    + (IF airing THEN 0 ELSE 1) <= 1

=============================================================================
