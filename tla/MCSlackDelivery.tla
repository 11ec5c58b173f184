--------------------------- MODULE MCSlackDelivery ---------------------------
(* A finite instance of SlackDelivery for TLC. *)
EXTENDS SlackDelivery, TLC

MCSymmetry == Permutations(Dispatchers)

(* BOUND: notices about reviews are explored beside a first incident only. *)
MCRemindersApart ==
  \A s \in Slots, d \in Device, i \in Incident :
    notices[Review(s)] # "NONE" /\ notices[Off(d, i)] # "NONE" => i = 1

=============================================================================
