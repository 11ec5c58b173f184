---------------------------- MODULE Publication ----------------------------
(***************************************************************************)
(* What the lifecycle of submissions promises, without versions, requests  *)
(* in flight, clocks or jobs: every submission goes through a review of its*)
(* present content, each operation takes effect at one instant, and while  *)
(* a submission is cleared for the screens its content does not change.    *)
(***************************************************************************)

CONSTANTS Submission, Content, None

VARIABLES
  phase,    \* how far each submission has come
  content   \* what it would show

vars == <<phase, content>>

Phases == {"none", "waiting", "cleared", "returned", "closed"}

TypeOK ==
  /\ phase \in [Submission -> Phases]
  /\ content \in [Submission -> Content \cup {None}]

Init ==
  /\ phase = [s \in Submission |-> "none"]
  /\ content = [s \in Submission |-> None]

Goes(s, from, to) ==
  /\ phase[s] \in from
  /\ phase' = [phase EXCEPT ![s] = to]

NewContent(s) ==
  \E c \in Content : content' = [content EXCEPT ![s] = c]

Offer(s) == Goes(s, {"none"}, "waiting") /\ NewContent(s)

(* Revising what is cleared sends it back to the reviewers. *)
Revise(s) ==
  /\ \/ Goes(s, {"waiting", "cleared"}, "waiting")
     \/ Goes(s, {"returned"}, "returned")
  /\ NewContent(s)

Resubmit(s) == Goes(s, {"returned"}, "waiting") /\ UNCHANGED content

Clear(s) == Goes(s, {"waiting"}, "cleared") /\ UNCHANGED content

Return(s) == Goes(s, {"waiting", "cleared"}, "returned") /\ UNCHANGED content

Withdraw(s) ==
  Goes(s, {"waiting", "cleared", "returned"}, "closed") /\ UNCHANGED content

(* Any number of cleared submissions may run out at once. *)
Expire(over) ==
  /\ \A s \in over : phase[s] = "cleared"
  /\ phase' = [s \in Submission |-> IF s \in over THEN "closed" ELSE phase[s]]
  /\ UNCHANGED content

Next ==
  \/ \E s \in Submission : \/ Offer(s) \/ Revise(s) \/ Resubmit(s)
                           \/ Clear(s) \/ Return(s) \/ Withdraw(s)
  \/ \E over \in SUBSET Submission : Expire(over)

Spec == Init /\ [][Next]_vars

=============================================================================
