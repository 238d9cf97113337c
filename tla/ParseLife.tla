----------------------------- MODULE ParseLife -----------------------------
(***************************************************************************)
(* What poll() and the consumer may rely on about one call of a handler    *)
(* (README.md, "Handler"): true gives the buffer back to poll(), and then  *)
(* no message of it may be waiting for the consumer; false leaves it to    *)
(* the consumer, who releases it with the final message.                   *)
(***************************************************************************)
VARIABLES
  stage,   \* "poll" holds the buffer, the "handler" parses it, or it is
           \* left to the "consumer"
  queued   \* what was queued of this buffer: "nothing", "some" messages that
           \* are not final, or also the "final" one

Init == stage = "poll" /\ queued = "nothing"

Call ==
  /\ stage \in {"poll", "consumer"}
  /\ stage' = "handler" /\ queued' = "nothing"

\* Nothing is queued behind a final message.
Push ==
  /\ stage = "handler" /\ queued # "final"
  /\ queued' \in {"some", "final"}
  /\ stage' \in {"handler", "consumer"}
  /\ queued' = "final" => stage' = "consumer"

Reject ==
  /\ stage = "handler" /\ queued = "nothing"
  /\ stage' = "poll" /\ UNCHANGED queued

Next == Call \/ Push \/ Reject

Spec == Init /\ [][Next]_<<stage, queued>>
=============================================================================
