------------------------------ MODULE MCAssets ------------------------------
(* Finite instances of Assets for TLC. *)
EXTENDS Assets

(* Requests are interchangeable: a second one begins only beside the first.*)
MCFirst == CHOOSE c \in Calls : TRUE

MCInOrder ==
  \A c \in Calls \ {MCFirst} :
    calls[c].at = "idle" /\ calls'[c].at # "idle" => calls[MCFirst].at # "idle"

(* No step and no property depends on an answer that was given, on what an *)
(* idle pod did last, on claims to a video that is decided, or on what an  *)
(* upload was that is deleted and cannot come again.                       *)
MCOpen(a) == rows[a].status \in {"ABSENT", "PENDING_UPLOAD", "PROCESSING"}

MCView ==
  <<[a \in Asset |-> IF MCOpen(a) THEN rows[a]
                     ELSE <<rows[a].status, rows[a].kind>>],
    [a \in Asset |-> IF age[a] > 0 /\ Upload(a) \notin files THEN {}
                     ELSE {content[a]}],
    [c \in Calls |-> IF calls[c].at = "idle" THEN {} ELSE {calls[c]}],
    [p \in Pods |->
       CASE pods[p].at = "idle" -> <<pods[p].failed>>
         [] pods[p].at \notin {"idle", "start"} /\ ~MCOpen(pods[p].asset) ->
              <<[pods[p] EXCEPT !.claim = 0]>>
         [] OTHER -> <<pods[p]>>],
    files, queue, forms, used, age, doomed, faults>>

=============================================================================
