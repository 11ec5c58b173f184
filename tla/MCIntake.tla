------------------------------ MODULE MCIntake ------------------------------
(* Finite instances of Intake for TLC. *)
EXTENDS Intake, TLC

(* Requests are interchangeable. *)
MCSymmetry == Permutations(Requests)

(* A request is remembered for what it still does and for its answer, which*)
(* no property looks at once the key was renewed; a completed key that is  *)
(* stale is like one that is not.                                          *)
MCSeen(r) ==
  LET q == requests[r] IN
  CASE q.at = "done" -> IF q.answer = None \/ renewals[q.key] > 0 THEN <<>>
                        ELSE <<q.key, q.draft, q.answer>>
    [] q.at \in {"release", "unread"} -> <<q.at, q.key>>
    [] q.at = "complete" -> <<q.at, q.key, q.draft, q.answer>>
    [] OTHER -> <<q>>

MCView ==
  <<now, rows, lock, reader, faults, renewals, [r \in Requests |-> MCSeen(r)],
    [k \in Keys |-> IF keys[k].status = "COMPLETED" THEN [keys[k] EXCEPT !.stale = FALSE]
                    ELSE keys[k]]>>

(* Nothing depends on the reader: what happens after somebody has read to  *)
(* the end happens as well while nobody has begun.                         *)
MCReading == ~reader.finished

=============================================================================
