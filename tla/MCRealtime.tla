----------------------------- MODULE MCRealtime -----------------------------
(* Finite instances of Realtime for TLC. *)
EXTENDS Realtime, TLC

(* Connections are interchangeable. *)
MCSymmetry == Permutations(Sockets)

(* No step and no property depends on what a connection that is gone asked *)
(* for, on what a player was told that is no longer in, or on what is      *)
(* remembered of a room when nobody is left to look it up.                 *)
MCView ==
  <<[s \in Sockets |->
       CASE sock[s].step = "gone" -> <<>>
         [] sock[s].step = "in"   -> <<sock[s], told[s]>>
         [] OTHER                 -> <<sock[s]>>],
    IF \E s \in Sockets : sock[s].step \in {"out", "checking"} THEN known ELSE <<>>,
    count, rooms, device, disconnects, noticeVars>>

(* BOUND: a program is shown by one group, not that which TVs follow at    *)
(* first, if by any.                                                       *)
MCOneShows ==
  edited' \subseteq {{}} \cup {{g} : g \in Groups \ {CHOOSE g \in Groups : TRUE}}

(* BOUND: one TV connects by the old path, naming its room.               *)
MCOneByRoom ==
  Cardinality({s \in Sockets : sock'[s].role = "host" /\ sock'[s].room # None}) <= 1

=============================================================================
