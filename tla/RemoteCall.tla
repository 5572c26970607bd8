------------------------------ MODULE RemoteCall ------------------------------
(***************************************************************************)
(* What the MaluDB client promises the callers of its operations, without  *)
(* attempts in progress, back-off, status codes or a network: requests are *)
(* sent within a budget and never once there is an outcome, MaluDB         *)
(* performs the operation at most once per request, though perhaps after   *)
(* the caller was told that it failed, a value is returned only after the  *)
(* operation was performed, and a time-out is reported only when the       *)
(* budget is used up.                                                      *)
(*                                                                         *)
(* The promise is deliberately no stronger than the code: a failure does   *)
(* not say that nothing was performed, nor that nothing will be.           *)
(***************************************************************************)
EXTENDS Naturals

CONSTANTS Call,   \* the calls in progress
          Budget  \* the most requests that one call may send

VARIABLES sent,       \* requests sent, per call
          performed,  \* how often MaluDB performed the call's operation
          outcome     \* what the call returned or threw

vars == <<sent, performed, outcome>>

Returned == {"ok", "invalid_json"}        \* MaluDB answered 2xx
Exhausted == {"timeout", "network"}       \* the last request had no answer
Outcome == Returned \cup Exhausted \cup {"unavailable", "http_error", "transport_error"}

Init == /\ sent = [c \in Call |-> 0]
        /\ performed = [c \in Call |-> 0]
        /\ outcome = [c \in Call |-> "none"]

Send(c) == /\ outcome[c] = "none" /\ sent[c] < Budget
           /\ sent' = [sent EXCEPT ![c] = @ + 1]
           /\ UNCHANGED <<performed, outcome>>

\* A request that was sent, now or long ago, takes effect.
Perform(c) == /\ performed[c] < sent[c]
              /\ performed' = [performed EXCEPT ![c] = @ + 1]
              /\ UNCHANGED <<sent, outcome>>

Settle(c, o) == /\ outcome[c] = "none" /\ sent[c] > 0
                /\ o \in Returned => performed[c] > 0
                /\ o \in Exhausted => sent[c] = Budget
                /\ outcome' = [outcome EXCEPT ![c] = o]
                /\ UNCHANGED <<sent, performed>>

Next == \E c \in Call : Send(c) \/ Perform(c) \/ \E o \in Outcome : Settle(c, o)

Spec == Init /\ [][Next]_vars
=============================================================================
