--------------------------- MODULE MCSubmissions ---------------------------
(* Finite instances of Submissions for TLC. *)
EXTENDS Submissions

(* Two acceptable periods, and one that ends before it starts.             *)
MCPeriods == {<<0, 2>>, <<1, 2>>, <<2, 1>>}

(* Of a form that is open, only what its reviewer has on screen and whether*)
(* the row is still the one shown are part of a state.                     *)
MCView ==
  <<now, rows, reviews,
    [c \in Clients |->
       CASE requests[c].phase = "idle"    -> <<>>
         [] requests[c].phase = "writing" -> <<requests[c]>>
         [] OTHER -> <<requests[c].submission, ViewIsCurrent(c),
                       IF c \in Reviewers THEN requests[c].seen ELSE None>>]>>

=============================================================================
