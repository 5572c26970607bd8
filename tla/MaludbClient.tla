---------------------------- MODULE MaludbClient ----------------------------
(***************************************************************************)
(* The request engine of the MaluDB client: one call of an operation, its  *)
(* attempts, and the requests they put on the network.                     *)
(*                                                                         *)
(* An attempt that times out is aborted by the client alone: its request   *)
(* may be on its way still, and MaluDB may perform it before, during or    *)
(* after a later attempt, or after the call has thrown.                    *)
(*                                                                         *)
(* Abstractions.  Time is not counted: a timer may fire whenever fetch is  *)
(* pending, and back-off is a place where the call rests.  Answers are     *)
(* classes of status codes.  MaluDB, gateways and the network are          *)
(* external: they perform a request at most once, answer as they like, and *)
(* an answer other than 2xx does not say that nothing was performed.       *)
(***************************************************************************)
EXTENDS Naturals, FiniteSets

CONSTANTS Call,        \* calls in progress, of operations that change MaluDB
          MaxRetries   \* config.maxRetries

ASSUME RetriesAssumption == MaxRetries \in Nat

VARIABLES
  pc,         \* where request() stands, per call
  attempt,    \* its loop variable
  response,   \* class of the status of the response at hand
  result,     \* what the call returned or threw
  inflight,   \* network: attempts whose request has not reached MaluDB
  answer,     \* network: the answer to the attempt in progress
  performed   \* MaluDB: how often it performed the call's operation

local == <<pc, attempt, response, result>>
vars == <<pc, attempt, response, result, inflight, answer, performed>>

\* 2xx, 429, 501, any other 5xx, any other status.
Status == {"ok", "throttled", "unavailable", "server_error", "refused"}

\* Mutant: 501 is taken for one more server error.
RetryableWith501(status) == status \in {"throttled", "server_error", "unavailable"}
\* isRetryableStatus
Retryable(status) == status \in {"throttled", "server_error"}

Attempts == 1 .. MaxRetries + 1

Init ==
  /\ pc = [c \in Call |-> "idle"]
  /\ attempt = [c \in Call |-> 0]
  /\ response = [c \in Call |-> "none"]
  /\ result = [c \in Call |-> "none"]
  /\ inflight = [c \in Call |-> {}]
  /\ answer = [c \in Call |-> "none"]
  /\ performed = [c \in Call |-> 0]

Goto(c, place) == pc' = [pc EXCEPT ![c] = place]

\* The call returns or throws.
Settle(c, outcome) ==
  /\ Goto(c, "settled")
  /\ result' = [result EXCEPT ![c] = outcome]

\* Mutant: one retry too many.
RetryOrOnceMore(c, outcome) ==
  IF attempt[c] <= MaxRetries + 1 THEN Goto(c, "backoff") /\ UNCHANGED result
                                  ELSE Settle(c, outcome)
\* The attempt failed in a way that may pass.
RetryOr(c, outcome) ==
  IF attempt[c] <= MaxRetries THEN Goto(c, "backoff") /\ UNCHANGED result
                              ELSE Settle(c, outcome)

-----------------------------------------------------------------------------
(* The client.                                                              *)

\* First pass through the loop: fetch is called.
Begin(c) ==
  /\ pc[c] = "idle"
  /\ Goto(c, "fetching")
  /\ attempt' = [attempt EXCEPT ![c] = 1]
  /\ inflight' = [inflight EXCEPT ![c] = {1}]
  /\ UNCHANGED <<response, result, answer, performed>>

\* Mutant: the loop variable is not advanced.
AgainUncounted(c) ==
  /\ pc[c] = "backoff"
  /\ Goto(c, "fetching")
  /\ inflight' = [inflight EXCEPT ![c] = @ \cup {attempt[c]}]
  /\ answer' = [answer EXCEPT ![c] = "none"]
  /\ response' = [response EXCEPT ![c] = "none"]
  /\ UNCHANGED <<attempt, result, performed>>

\* The back-off has elapsed: fetch is called again.
Again(c) ==
  /\ pc[c] = "backoff"
  /\ Goto(c, "fetching")
  /\ attempt' = [attempt EXCEPT ![c] = @ + 1]
  /\ inflight' = [inflight EXCEPT ![c] = @ \cup {attempt[c] + 1}]
  /\ answer' = [answer EXCEPT ![c] = "none"]
  /\ response' = [response EXCEPT ![c] = "none"]
  /\ UNCHANGED <<result, performed>>

\* fetch rejects: the timer fired, or the transport failed.
FetchFails(c, why) ==
  /\ pc[c] = "fetching"
  /\ RetryOr(c, why)
  /\ answer' = [answer EXCEPT ![c] = "none"]
  /\ UNCHANGED <<attempt, response, inflight, performed>>

\* fetch resolves: status and headers are there, the timer is cleared.
FetchResolves(c) ==
  /\ pc[c] = "fetching"
  /\ answer[c] # "none"
  /\ Goto(c, "reading")
  /\ response' = [response EXCEPT ![c] = answer[c]]
  /\ answer' = [answer EXCEPT ![c] = "none"]
  /\ UNCHANGED <<attempt, result, inflight, performed>>

\* Mutant: whatever the status, a body that was read is a result.
BodyReadUnchecked(c, json) ==
  /\ pc[c] = "reading"
  /\ Settle(c, IF json THEN "ok" ELSE "invalid_json")
  /\ UNCHANGED <<attempt, response, inflight, answer, performed>>

\* The body is read.  parseJson refuses a result that is not JSON; parseError
\* takes any text.
BodyRead(c, json) ==
  /\ pc[c] = "reading"
  /\ \/ response[c] = "ok" /\ Settle(c, IF json THEN "ok" ELSE "invalid_json")
     \/ response[c] = "unavailable" /\ Settle(c, "unavailable")
     \/ Retryable(response[c]) /\ RetryOr(c, "http_error")
     \/ /\ response[c] \notin {"ok", "unavailable"} /\ ~Retryable(response[c])
        /\ Settle(c, "http_error")
  /\ UNCHANGED <<attempt, response, inflight, answer, performed>>

\* The connection breaks under response.text(), outside the try: the transport's
\* own error leaves request().
BodyFails(c) ==
  /\ pc[c] = "reading"
  /\ Settle(c, "transport_error")
  /\ UNCHANGED <<attempt, response, inflight, answer, performed>>

-----------------------------------------------------------------------------
(* MaluDB and the network.                                                  *)

\* A request arrives, is performed or not, and is answered.  Only the attempt in
\* progress still has somebody to answer to.
Serve(c, n, does, status) ==
  /\ n \in inflight[c]
  /\ status = "ok" => does
  /\ inflight' = [inflight EXCEPT ![c] = @ \ {n}]
  /\ performed' = [performed EXCEPT ![c] = @ + (IF does THEN 1 ELSE 0)]
  /\ answer' = IF pc[c] = "fetching" /\ attempt[c] = n
               THEN [answer EXCEPT ![c] = status] ELSE answer
  /\ UNCHANGED local

\* A request never arrives.
Lose(c, n) ==
  /\ n \in inflight[c]
  /\ inflight' = [inflight EXCEPT ![c] = @ \ {n}]
  /\ UNCHANGED <<local, answer, performed>>

-----------------------------------------------------------------------------
Client(c) == \/ Again(c)
             \/ \E why \in {"timeout", "network"} : FetchFails(c, why)
             \/ FetchResolves(c)
             \/ \E json \in BOOLEAN : BodyRead(c, json)
             \/ BodyFails(c)

Next == \E c \in Call : \/ Begin(c)
                        \/ Client(c)
                        \/ \E n \in Attempts, does \in BOOLEAN, s \in Status : Serve(c, n, does, s)
                        \/ \E n \in Attempts : Lose(c, n)

Spec == Init /\ [][Next]_vars

\* Timers fire, back-offs elapse, and a body arrives or its connection breaks.
FairSpec == Spec /\ \A c \in Call : WF_vars(Client(c))

-----------------------------------------------------------------------------
(* Properties.                                                              *)

\* Calls are where the loop can be, within its attempts.
TypeOK ==
  /\ pc \in [Call -> {"idle", "fetching", "reading", "backoff", "settled"}]
  /\ attempt \in [Call -> 0 .. MaxRetries + 1]
  /\ response \in [Call -> Status \cup {"none"}]
  /\ result \in [Call -> {"none", "ok", "invalid_json", "unavailable", "http_error",
                          "timeout", "network", "transport_error"}]
  /\ inflight \in [Call -> SUBSET Attempts]
  /\ answer \in [Call -> Status \cup {"none"}]
  /\ performed \in [Call -> Nat]

\* However requests are delayed, an operation is performed at most once per attempt.
PerformedPerAttempt ==
  \A c \in Call : performed[c] + Cardinality(inflight[c]) <= attempt[c]

\* The request loop, its back-off and the network implement RemoteCall: a request that
\* arrives late is one of those that were sent, and none is sent after the outcome.
Remote == INSTANCE RemoteCall
            WITH Budget <- MaxRetries + 1, sent <- attempt, outcome <- result
ImplementsCall == Remote!Spec

\* What a call reports is so: if it returned, MaluDB performed the operation; it
\* reports 501, which skips a run instead of failing it, exactly for a 501 it read;
\* and it reports a timeout or a network failure only when no attempt is left.
ResultsAreTrue ==
  \A c \in Call : pc[c] = "settled" =>
    /\ result[c] = "ok" => performed[c] > 0
    /\ result[c] # "transport_error" =>
         (result[c] = "unavailable" <=> response[c] = "unavailable")
    /\ result[c] \in {"timeout", "network"} => attempt[c] = MaxRetries + 1

\* Only what may pass is retried: a call that has MaluDB's answer to the attempt
\* in progress sends another request only if that answer is retryable.
TerminalIsFinal ==
  [][\A c \in Call : attempt'[c] > attempt[c] =>
       response[c] \in {"none", "throttled", "server_error"}]_vars

\* Every call settles, whatever MaluDB and the network do.
CallsSettle == \A c \in Call : pc[c] # "idle" ~> pc[c] = "settled"
=============================================================================
