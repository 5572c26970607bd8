-------------------------- MODULE MaludbClientProofs --------------------------
(***************************************************************************)
(* Theorems about MaludbClient for every set of calls and every maxRetries.*)
(*                                                                         *)
(* What a result says of MaluDB follows from what the call holds on the    *)
(* way to it: Sound says it of every place of the loop.                    *)
(***************************************************************************)
EXTENDS MaludbClient, FiniteSetTheorems, TLAPS

\* Requests on their way are numbered by the attempts made so far.
Numbered(c) ==
  /\ inflight[c] \subseteq 1 .. attempt[c]
  /\ pc[c] = "idle" => attempt[c] = 0 /\ performed[c] = 0
  /\ pc[c] # "idle" => attempt[c] > 0
  /\ pc[c] = "backoff" => attempt[c] <= MaxRetries

\* What a call knows of the attempt in progress is so.
Sound(c) ==
  /\ answer[c] = "ok" => performed[c] > 0
  /\ response[c] = "ok" => performed[c] > 0
  /\ pc[c] \in {"idle", "fetching"} => response[c] = "none"
  /\ pc[c] = "reading" => response[c] # "none"
  /\ pc[c] = "backoff" => response[c] \in {"none", "throttled", "server_error"}
  /\ result[c] = "none" <=> pc[c] # "settled"
  /\ result[c] = "invalid_json" => performed[c] > 0

IInv == /\ TypeOK /\ ResultsAreTrue
        /\ \A c \in Call : Numbered(c) /\ Sound(c)

-----------------------------------------------------------------------------
LEMMA InitType == Init => IInv
  BY RetriesAssumption DEF Init, IInv, TypeOK, Attempts, Status, ResultsAreTrue,
     Numbered, Sound

\* RetryOr goes to the back-off or settles, and touches pc and result alone.
LEMMA RetryOrCases ==
  ASSUME NEW c \in Call, NEW outcome, RetryOr(c, outcome)
  PROVE  \/ /\ attempt[c] <= MaxRetries
            /\ pc' = [pc EXCEPT ![c] = "backoff"] /\ result' = result
         \/ /\ ~(attempt[c] <= MaxRetries)
            /\ pc' = [pc EXCEPT ![c] = "settled"]
            /\ result' = [result EXCEPT ![c] = outcome]
  BY DEF RetryOr, Settle, Goto

LEMMA NextType == IInv /\ [Next]_vars => IInv'
<1> SUFFICES ASSUME IInv, [Next]_vars PROVE IInv'
  OBVIOUS
<1> USE DEF IInv, TypeOK, Attempts, Status, ResultsAreTrue, Numbered, Sound
<1>1. ASSUME NEW c \in Call, Begin(c) PROVE IInv'
  BY <1>1, RetriesAssumption DEF Begin, Goto
<1>2. ASSUME NEW c \in Call, Again(c) PROVE IInv'
  <2>1. attempt[c] + 1 \in Attempts
    BY <1>2, RetriesAssumption DEF Again
  <2> QED BY <1>2, <2>1, RetriesAssumption DEF Again, Goto
<1>3. ASSUME NEW c \in Call, NEW why \in {"timeout", "network"}, FetchFails(c, why)
      PROVE  IInv'
  BY <1>3, RetryOrCases, RetriesAssumption DEF FetchFails
<1>4. ASSUME NEW c \in Call, FetchResolves(c) PROVE IInv'
  BY <1>4 DEF FetchResolves, Goto
<1>5. ASSUME NEW c \in Call, NEW json \in BOOLEAN, BodyRead(c, json) PROVE IInv'
  <2>1. CASE Retryable(response[c]) /\ RetryOr(c, "http_error")
    BY <1>5, <2>1, RetryOrCases, RetriesAssumption DEF BodyRead, Retryable
  <2>2. CASE Settle(c, IF json THEN "ok" ELSE "invalid_json") /\ response[c] = "ok"
    BY <1>5, <2>2 DEF BodyRead, Settle, Goto
  <2>3. CASE Settle(c, "unavailable") /\ response[c] = "unavailable"
    BY <1>5, <2>3 DEF BodyRead, Settle, Goto
  <2>4. CASE Settle(c, "http_error") /\ response[c] \notin {"ok", "unavailable"}
    BY <1>5, <2>4 DEF BodyRead, Settle, Goto
  <2> QED BY <1>5, <2>1, <2>2, <2>3, <2>4 DEF BodyRead
<1>6. ASSUME NEW c \in Call, BodyFails(c) PROVE IInv'
  BY <1>6 DEF BodyFails, Settle, Goto
<1>7. ASSUME NEW c \in Call, NEW n \in Attempts, NEW does \in BOOLEAN,
             NEW status \in Status, Serve(c, n, does, status)
      PROVE  IInv'
  BY <1>7 DEF Serve, local
<1>8. ASSUME NEW c \in Call, NEW n \in Attempts, Lose(c, n) PROVE IInv'
  BY <1>8 DEF Lose, local
<1>9. CASE UNCHANGED vars
  BY <1>9 DEF vars
<1> QED BY <1>1, <1>2, <1>3, <1>4, <1>5, <1>6, <1>7, <1>8, <1>9 DEF Next, Client

LEMMA Invariance == Spec => []IInv
  BY InitType, NextType, PTL DEF Spec

\* The request loop keeps its types, and never makes more than 1 + maxRetries attempts.
THEOREM TypeCorrect == Spec => []TypeOK
<1>1. IInv => TypeOK
  BY DEF IInv
<1> QED BY <1>1, Invariance, PTL

\* A result says what MaluDB answered, and failure is reported only when no attempt
\* is left.
THEOREM TrueResults == Spec => []ResultsAreTrue
<1>1. IInv => ResultsAreTrue
  BY DEF IInv
<1> QED BY <1>1, Invariance, PTL

\* After a terminal answer no further request is sent.
THEOREM TerminalAnswersAreFinal == Spec => TerminalIsFinal
<1>1. IInv /\ [Next]_vars =>
        [\A c \in Call : attempt'[c] > attempt[c] =>
           response[c] \in {"none", "throttled", "server_error"}]_vars
  <2> SUFFICES ASSUME IInv, Next, NEW c \in Call, attempt'[c] > attempt[c]
               PROVE  response[c] \in {"none", "throttled", "server_error"}
    BY DEF vars
  <2>1. \E d \in Call : Begin(d) \/ Again(d) \/ attempt' = attempt
    BY DEF Next, Client, FetchFails, FetchResolves, BodyRead, BodyFails, Serve, Lose, local
  <2>2. Begin(c) \/ Again(c)
    BY <2>1 DEF Begin, Again, IInv, TypeOK
  <2> QED BY <2>2 DEF Begin, Again, IInv, Sound
<1> QED BY <1>1, Invariance, PTL DEF Spec, TerminalIsFinal

-----------------------------------------------------------------------------
(* What may still happen to a call is counted with what has happened.       *)

Counted(c) == performed[c] + Cardinality(inflight[c]) <= attempt[c]

\* A set of attempts is finite, and its cardinality a natural number.
LEMMA InflightFinite ==
  ASSUME IInv, NEW c \in Call
  PROVE  IsFiniteSet(inflight[c]) /\ Cardinality(inflight[c]) \in Nat
<1>1. IsFiniteSet(1 .. attempt[c])
  BY FS_Interval DEF IInv, TypeOK
<1> QED BY <1>1, FS_Subset, FS_CardinalityType DEF IInv, Numbered

\* One element more, and one less.
LEMMA OneMore ==
  ASSUME NEW S, IsFiniteSet(S), NEW x, x \notin S
  PROVE  Cardinality(S \cup {x}) = Cardinality(S) + 1
  BY FS_AddElement

LEMMA OneLess ==
  ASSUME NEW S, IsFiniteSet(S), NEW x, x \in S
  PROVE  Cardinality(S \ {x}) = Cardinality(S) - 1
  BY FS_RemoveElement

LEMMA InitCounted == Init => PerformedPerAttempt
  BY FS_EmptySet DEF Init, PerformedPerAttempt

LEMMA NextCounted == IInv /\ PerformedPerAttempt /\ [Next]_vars => PerformedPerAttempt'
<1> SUFFICES ASSUME IInv, PerformedPerAttempt, [Next]_vars, NEW c \in Call
             PROVE  Counted(c)'
  BY DEF PerformedPerAttempt, Counted
<1>0. /\ Counted(c) /\ performed[c] \in Nat /\ attempt[c] \in Nat
      /\ IsFiniteSet(inflight[c]) /\ Cardinality(inflight[c]) \in Nat
  BY InflightFinite, RetriesAssumption DEF IInv, TypeOK, PerformedPerAttempt, Counted
\* The first request is on its way.
<1>1. CASE Begin(c)
  <2>1. inflight'[c] = {1} /\ attempt'[c] = 1 /\ performed'[c] = 0
    BY <1>1 DEF Begin, IInv, TypeOK, Numbered
  <2>2. Cardinality({1}) = 1
    BY FS_Singleton
  <2> QED BY <2>1, <2>2 DEF Counted
\* One more request and one more attempt.
<1>2. CASE Again(c)
  <2>1. /\ inflight'[c] = inflight[c] \cup {attempt[c] + 1}
        /\ attempt'[c] = attempt[c] + 1 /\ performed'[c] = performed[c]
    BY <1>2 DEF Again, IInv, TypeOK
  <2>2. attempt[c] + 1 \notin inflight[c]
    BY <1>0 DEF IInv, Numbered
  <2>3. Cardinality(inflight[c] \cup {attempt[c] + 1}) = Cardinality(inflight[c]) + 1
    <3>1. IsFiniteSet(inflight[c])
      BY <1>0
    <3> QED BY <3>1, <2>2, OneMore
  <2> QED BY <1>0, <2>1, <2>3 DEF Counted
\* A request arrives or is lost: what was to come has come, or will not.
<1>3. ASSUME NEW n \in Attempts,
             \/ \E does \in BOOLEAN, s \in Status : Serve(c, n, does, s)
             \/ Lose(c, n)
      PROVE  Counted(c)'
  <2>1. /\ n \in inflight[c] /\ inflight'[c] = inflight[c] \ {n}
        /\ attempt'[c] = attempt[c]
        /\ performed'[c] \in {performed[c], performed[c] + 1}
    BY <1>0, <1>3 DEF Serve, Lose, local, IInv, TypeOK
  <2>2. Cardinality(inflight[c] \ {n}) = Cardinality(inflight[c]) - 1
    <3>1. IsFiniteSet(inflight[c]) /\ n \in inflight[c]
      BY <1>0, <2>1
    <3> QED BY <3>1, OneLess
  <2> QED BY <1>0, <2>1, <2>2 DEF Counted
\* Every other step, of this or of another call, leaves the count alone.
<1>4. CASE /\ inflight'[c] = inflight[c] /\ attempt'[c] = attempt[c]
           /\ performed'[c] = performed[c]
  BY <1>0, <1>4 DEF Counted
<1>5. ASSUME NEW d \in Call, d # c, Begin(d) \/ Again(d)
      PROVE  /\ inflight'[c] = inflight[c] /\ attempt'[c] = attempt[c]
             /\ performed'[c] = performed[c]
  BY <1>5 DEF Begin, Again, IInv, TypeOK
<1>6. ASSUME NEW d \in Call, d # c, NEW n \in Attempts,
             \/ \E does \in BOOLEAN, s \in Status : Serve(d, n, does, s)
             \/ Lose(d, n)
      PROVE  /\ inflight'[c] = inflight[c] /\ attempt'[c] = attempt[c]
             /\ performed'[c] = performed[c]
  BY <1>6 DEF Serve, Lose, local, IInv, TypeOK
<1>7. ASSUME NEW d \in Call,
             \/ \E why \in {"timeout", "network"} : FetchFails(d, why)
             \/ FetchResolves(d) \/ BodyFails(d)
             \/ \E json \in BOOLEAN : BodyRead(d, json)
      PROVE  UNCHANGED <<inflight, attempt, performed>>
  BY <1>7 DEF FetchFails, FetchResolves, BodyFails, BodyRead
<1>8. CASE UNCHANGED vars
  BY <1>4, <1>8 DEF vars
<1> QED BY <1>1, <1>2, <1>3, <1>4, <1>5, <1>6, <1>7, <1>8 DEF Next, Client

\* However requests are delayed, an operation is performed at most once per attempt:
\* at most 1 + maxRetries times, and never if it was never sent.
THEOREM PerformedAtMostOncePerAttempt == Spec => []PerformedPerAttempt
  BY Invariance, InitCounted, NextCounted, PTL DEF Spec

-----------------------------------------------------------------------------
(* Refinement of RemoteCall.                                                *)

LEMMA InitRemote == Init => Remote!Init
  BY DEF Init, Remote!Init

\* A call settles with an outcome that what it has sent and read allows.
LEMMA SettleRemote ==
  ASSUME IInv, NEW c \in Call, NEW o \in Remote!Outcome, Settle(c, o),
         pc[c] \in {"fetching", "reading"}, UNCHANGED <<attempt, performed>>,
         o \in {"ok", "invalid_json"} => performed[c] > 0,
         o \in {"timeout", "network"} => attempt[c] = MaxRetries + 1
  PROVE  Remote!Next
<1>1. result[c] = "none" /\ attempt[c] > 0
  BY DEF IInv, Sound, Numbered
<1>2. Remote!Settle(c, o)
  BY <1>1 DEF Settle, Remote!Settle, Remote!Returned, Remote!Exhausted
<1> QED BY <1>2 DEF Remote!Next

LEMMA NextRemote ==
  IInv /\ PerformedPerAttempt /\ [Next]_vars => [Remote!Next]_(Remote!vars)
<1> SUFFICES ASSUME IInv, PerformedPerAttempt, [Next]_vars
             PROVE  [Remote!Next]_(Remote!vars)
  OBVIOUS
<1>0. \A c \in Call : attempt[c] \in Nat /\ performed[c] \in Nat
  BY RetriesAssumption DEF IInv, TypeOK
<1>1. ASSUME NEW c \in Call, Begin(c) \/ Again(c) PROVE Remote!Next
  <2>1. result[c] = "none" /\ attempt[c] < MaxRetries + 1
    BY <1>0, <1>1, RetriesAssumption DEF Begin, Again, IInv, Sound, Numbered
  <2>2. attempt' = [attempt EXCEPT ![c] = @ + 1] /\ UNCHANGED <<performed, result>>
    <3>1. CASE Begin(c)
      <4>1. attempt[c] = 0 /\ 0 + 1 = 1
        BY <3>1 DEF Begin, IInv, Numbered
      <4> QED BY <3>1, <4>1 DEF Begin
    <3> QED BY <1>1, <3>1 DEF Again
  <2>3. Remote!Send(c)
    BY <2>1, <2>2 DEF Remote!Send
  <2> QED BY <2>3 DEF Remote!Next
<1>2. ASSUME NEW c \in Call, NEW why \in {"timeout", "network"}, FetchFails(c, why)
      PROVE  [Remote!Next]_(Remote!vars)
  <2>1. CASE result' = result
    BY <1>2, <2>1 DEF FetchFails, Remote!vars
  <2>2. CASE ~(attempt[c] <= MaxRetries) /\ Settle(c, why)
    <3>1. attempt[c] = MaxRetries + 1
      BY <2>2, RetriesAssumption DEF IInv, TypeOK
    <3>2. why \in Remote!Outcome
      BY DEF Remote!Outcome, Remote!Exhausted
    <3> QED BY <1>2, <2>2, <3>1, <3>2, SettleRemote DEF FetchFails
  <2> QED BY <1>2, <2>1, <2>2 DEF FetchFails, RetryOr
<1>3. ASSUME NEW c \in Call, NEW json \in BOOLEAN, BodyRead(c, json)
      PROVE  [Remote!Next]_(Remote!vars)
  <2>0. /\ {"ok", "invalid_json", "unavailable", "http_error"} \subseteq Remote!Outcome
        /\ pc[c] = "reading" /\ UNCHANGED <<attempt, performed>>
    BY <1>3 DEF BodyRead, Remote!Outcome, Remote!Returned
  <2>1. CASE result' = result
    BY <2>0, <2>1 DEF Remote!vars
  <2>2. CASE response[c] = "ok" /\ Settle(c, IF json THEN "ok" ELSE "invalid_json")
    <3>1. performed[c] > 0
      BY <2>2 DEF IInv, Sound
    <3> QED BY <2>0, <2>2, <3>1, SettleRemote
  <2>3. CASE Settle(c, "unavailable") \/ Settle(c, "http_error")
    BY <2>0, <2>3, SettleRemote
  <2> QED BY <1>3, <2>1, <2>2, <2>3 DEF BodyRead, RetryOr
<1>4. ASSUME NEW c \in Call, BodyFails(c) PROVE [Remote!Next]_(Remote!vars)
  <2>1. "transport_error" \in Remote!Outcome
    BY DEF Remote!Outcome
  <2> QED BY <1>4, <2>1, SettleRemote DEF BodyFails
\* A request that arrives is among those sent and not yet performed.
<1>5. ASSUME NEW c \in Call, NEW n \in Attempts, NEW does \in BOOLEAN, NEW status \in Status,
             Serve(c, n, does, status)
      PROVE  [Remote!Next]_(Remote!vars)
  <2>0. UNCHANGED <<attempt, result>>
    BY <1>5 DEF Serve, local
  <2>1. CASE does
    <3>1. inflight[c] # {} /\ IsFiniteSet(inflight[c]) /\ Cardinality(inflight[c]) \in Nat
      BY <1>5, InflightFinite DEF Serve
    <3>2. Cardinality(inflight[c]) # 0
      BY <3>1, FS_EmptySet
    <3>3. performed[c] < attempt[c]
      BY <1>0, <3>1, <3>2 DEF PerformedPerAttempt
    <3>4. performed' = [performed EXCEPT ![c] = @ + 1]
      BY <1>5, <2>1 DEF Serve
    <3>5. Remote!Perform(c)
      BY <2>0, <3>3, <3>4 DEF Remote!Perform
    <3> QED BY <3>5 DEF Remote!Next
  <2>2. CASE ~does
    <3>1. performed' = performed
      BY <1>0, <1>5, <2>2 DEF Serve, IInv, TypeOK
    <3> QED BY <2>0, <3>1 DEF Remote!vars
  <2> QED BY <2>1, <2>2
<1>6. ASSUME NEW c \in Call,
             FetchResolves(c) \/ (\E n \in Attempts : Lose(c, n)) \/ UNCHANGED vars
      PROVE  UNCHANGED <<attempt, performed, result>>
  BY <1>6 DEF FetchResolves, Lose, local, vars
<1>7. CASE UNCHANGED <<attempt, performed, result>>
  BY <1>7 DEF Remote!vars
<1>8. CASE UNCHANGED vars
  BY <1>8 DEF vars, Remote!vars
<1> QED BY <1>1, <1>2, <1>3, <1>4, <1>5, <1>6, <1>7, <1>8 DEF Next, Client

\* A call of the client, with its attempts, back-off and late requests, is the remote
\* call it promises: within its budget, silent once settled, and truthful.
THEOREM ClientImplementsCall == Spec => ImplementsCall
  BY Invariance, InitCounted, NextCounted, InitRemote, NextRemote, PTL
     DEF Spec, ImplementsCall, Remote!Spec

-----------------------------------------------------------------------------
(* Why a call settles.  Each step of the client uses up some of what the    *)
(* call may still do; CallsSettle needs, beyond this, only that timers fire *)
(* and back-offs elapse.                                                    *)

\* A bound on the steps a call that was begun may still take: three for each attempt.
StepsOf(place, n) ==
  CASE place = "settled"  -> 0
    [] place = "backoff"  -> 3 * (MaxRetries + 1 - n)
    [] place = "reading"  -> 3 * (MaxRetries + 1 - n) + 1
    [] place = "fetching" -> 3 * (MaxRetries + 1 - n) + 2

StepsLeft(c) == StepsOf(pc[c], attempt[c])

\* A call under way stands still or comes closer to its result, which is at most
\* 3 maxRetries + 2 steps away; MaluDB and the network never set it back.
RunsDown ==
  \A c \in Call : pc[c] # "idle" =>
    /\ StepsLeft(c) \in 0 .. 3 * MaxRetries + 2
    /\ \/ pc'[c] = pc[c] /\ attempt'[c] = attempt[c]
       \/ StepsLeft(c)' < StepsLeft(c)

\* Where a step of the client may take its call.
LEMMA MoveRunsDown ==
  ASSUME IInv, NEW c \in Call, NEW place,
         pc' = [pc EXCEPT ![c] = place], \A d \in Call \ {c} : attempt'[d] = attempt[d],
         \/ pc[c] = "idle"
         \/ /\ attempt'[c] = attempt[c]
            /\ \/ pc[c] = "fetching" /\ place \in {"reading", "settled"}
               \/ pc[c] \in {"fetching", "reading"} /\ place = "backoff"
               \/ pc[c] = "reading" /\ place = "settled"
         \/ /\ pc[c] = "backoff" /\ place = "fetching" /\ attempt'[c] = attempt[c] + 1
  PROVE  RunsDown
<1>1. \A d \in Call : pc'[d] = IF d = c THEN place ELSE pc[d]
  BY DEF IInv, TypeOK
<1>2. \A d \in Call : attempt[d] \in 0 .. MaxRetries + 1 /\ MaxRetries \in Nat
                      /\ pc[d] \in {"idle", "fetching", "reading", "backoff", "settled"}
                      /\ (pc[d] # "idle" => attempt[d] > 0)
                      /\ (pc[d] = "backoff" => attempt[d] <= MaxRetries)
  BY RetriesAssumption DEF IInv, TypeOK, Numbered
<1>3. ASSUME NEW d \in Call, pc[d] # "idle" PROVE StepsLeft(d) \in 0 .. 3 * MaxRetries + 2
  BY <1>2, <1>3 DEF StepsLeft, StepsOf
<1>4. ASSUME pc[c] # "idle" PROVE StepsLeft(c)' < StepsLeft(c)
  BY <1>1, <1>2, <1>4 DEF StepsLeft, StepsOf
<1> QED BY <1>1, <1>3, <1>4 DEF RunsDown

LEMMA NextRunsDown == IInv /\ [Next]_vars => [RunsDown]_vars
<1> SUFFICES ASSUME IInv, Next PROVE RunsDown
  BY DEF vars
<1>1. ASSUME NEW c \in Call, Begin(c) PROVE RunsDown
  <2>1. \A d \in Call \ {c} : attempt'[d] = attempt[d]
    BY <1>1 DEF Begin, IInv, TypeOK
  <2> QED BY <1>1, <2>1, MoveRunsDown DEF Begin, Goto
<1>2. ASSUME NEW c \in Call, Again(c) PROVE RunsDown
  <2>1. attempt'[c] = attempt[c] + 1 /\ \A d \in Call \ {c} : attempt'[d] = attempt[d]
    BY <1>2 DEF Again, IInv, TypeOK
  <2> QED BY <1>2, <2>1, MoveRunsDown DEF Again, Goto
<1>3. ASSUME NEW c \in Call, NEW why \in {"timeout", "network"}, FetchFails(c, why)
      PROVE  RunsDown
  BY <1>3, RetryOrCases, MoveRunsDown DEF FetchFails
<1>4. ASSUME NEW c \in Call, FetchResolves(c) PROVE RunsDown
  BY <1>4, MoveRunsDown DEF FetchResolves, Goto
<1>5. ASSUME NEW c \in Call, NEW json \in BOOLEAN, BodyRead(c, json) PROVE RunsDown
  <2>1. \E place \in {"backoff", "settled"} : pc' = [pc EXCEPT ![c] = place]
    <3>1. CASE RetryOr(c, "http_error")
      BY <3>1, RetryOrCases
    <3> QED BY <1>5, <3>1 DEF BodyRead, Settle, Goto
  <2> QED BY <1>5, <2>1, MoveRunsDown DEF BodyRead
<1>6. ASSUME NEW c \in Call, BodyFails(c) PROVE RunsDown
  BY <1>6, MoveRunsDown DEF BodyFails, Settle, Goto
\* MaluDB and the network leave the call where it is.
<1>7. ASSUME NEW c \in Call, NEW n \in Attempts,
             \/ \E does \in BOOLEAN, s \in Status : Serve(c, n, does, s)
             \/ Lose(c, n)
      PROVE  RunsDown
  <2>1. UNCHANGED <<pc, attempt>>
    BY <1>7 DEF Serve, Lose, local
  <2>2. ASSUME NEW d \in Call, pc[d] # "idle" PROVE StepsLeft(d) \in 0 .. 3 * MaxRetries + 2
    BY <2>2, RetriesAssumption DEF IInv, TypeOK, Numbered, StepsLeft, StepsOf
  <2> QED BY <2>1, <2>2 DEF RunsDown
<1> QED BY <1>1, <1>2, <1>3, <1>4, <1>5, <1>6, <1>7 DEF Next, Client

\* No call retries for ever: whatever MaluDB answers and the network loses or delays,
\* each step of the client brings the call closer to its result.
THEOREM CallsRunDown == Spec => [][RunsDown]_vars
  BY Invariance, NextRunsDown, PTL DEF Spec
=============================================================================
