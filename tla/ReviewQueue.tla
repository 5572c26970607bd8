----------------------------- MODULE ReviewQueue -----------------------------
(***************************************************************************)
(* The review queue: scan workers raise review items, operators resolve    *)
(* them through POST /v1/reviews/:id/resolve of the control API, and an    *)
(* accepted item's proposed action is executed against MaluDB.             *)
(*                                                                         *)
(* Shared state is the agent's review_items table and the memory that      *)
(* MaluDB keeps.  Every `await' of a handler ends an action, so a request  *)
(* or a scan holds across actions exactly the values the code holds in its *)
(* local variables.                                                        *)
(*                                                                         *)
(* Abstractions.  The statements are those of one (subject, verb,          *)
(* predicate) slot with pairwise different objects, so the conflict group  *)
(* that findCandidateConflicts returns is the set of open statements.  A   *)
(* proposal keeps its type and target; rationale, summary and wording are  *)
(* dropped, except that a model's empty title makes a proposal that the    *)
(* API's schema refuses.  Confidences are MaluDB's and may change between  *)
(* scans, so the loser of a group is any of its members.  Requests that    *)
(* the client gave up on and that are alike count as one.                  *)
(***************************************************************************)
EXTENDS Naturals, FiniteSets

CONSTANTS Statement,    \* statements of one slot in MaluDB
          Cluster,      \* clusters of overlapping memories
          Request,      \* concurrent resolve requests of the control API
          Scan,         \* concurrent scan jobs of the worker
          ScanModes,    \* the (createReviewItems, autoResolve) payloads in use
          MaxAttempts,  \* 1 + maxRetries of the MaluDB client
          MaxMerges,    \* bound on the merges MaluDB performs per cluster
          None          \* no key, proposal or result

\* A conflict is two or more statements; its dedup key is the sorted id list.
Conflict == {g \in SUBSET Statement : \E s, t \in g : s # t}
Key == Conflict \cup Cluster

ASSUME NoneAssumption == \A k \in Key : k # None
ASSUME ClusterAssumption == \A c \in Cluster, g \in SUBSET Statement : c # g
ASSUME AttemptsAssumption == MaxAttempts \in Nat \ {0}
ASSUME MergesAssumption == MaxMerges \in Nat
ASSUME ModesAssumption == ScanModes \subseteq [create : BOOLEAN, auto : BOOLEAN]

\* The proposed actions.  "untitled" is a consolidate with title "".
Close(s) == [type |-> "closeStatement", target |-> s]
Merge(c) == [type |-> "consolidate", target |-> c]
Untitled(c) == [type |-> "untitled", target |-> c]

\* The proposals a scan may store under key k.
ProposalsFor(k) ==
  IF k \in Cluster THEN {Merge(k), Untitled(k)} ELSE {Close(s) : s \in k}

Proposal == UNION {ProposalsFor(k) : k \in Key}

\* parseReviewProposal succeeds.
Executable(a) == a.type \in {"closeStatement", "consolidate"}

VARIABLES
  items,    \* review_items, by dedup key
  valid,    \* MaluDB: validity of each statement
  merges,   \* MaluDB: consolidations of each cluster
  late,     \* network: requests nobody waits for, which MaluDB may still perform
  reqs,     \* resolve requests in the API process
  scans,    \* scan jobs in the worker process
  asked,    \* history: keys some operator asked to accept
  carried   \* history: actions that accepts carried out, by key

memory == <<valid, merges, late>>
history == <<asked, carried>>
vars == <<items, valid, merges, late, reqs, scans, asked, carried>>

Status == {"none", "open", "accepted", "rejected"}
Resolved == {"accepted", "rejected"}

NoItem == [status |-> "none", proposal |-> None, result |-> None]
IdleScan == [pc |-> "idle", key |-> None, action |-> None,
             mode |-> [create |-> FALSE, auto |-> FALSE]]
IdleReq == [pc |-> "idle", key |-> None, decision |-> "none",
            action |-> None, attempts |-> 0, reply |-> "none"]

Init ==
  /\ items = [k \in Key |-> NoItem]
  /\ valid \in [Statement -> {"absent", "open"}]
  /\ merges = [c \in Cluster |-> 0]
  /\ late = {}
  /\ reqs = [r \in Request |-> IdleReq]
  /\ scans = [w \in Scan |-> IdleScan]
  /\ asked = {}
  /\ carried = [k \in Key |-> {}]

-----------------------------------------------------------------------------
(* MaluDB: closing a statement is idempotent, consolidating is not.         *)

Effect(a) ==
  \/ /\ a.type = "closeStatement"
     /\ valid' = [valid EXCEPT ![a.target] = "closed"]
     /\ UNCHANGED merges
  \/ /\ a.type = "consolidate"
     /\ merges[a.target] < MaxMerges
     /\ merges' = [merges EXCEPT ![a.target] = @ + 1]
     /\ UNCHANGED valid

\* Other users of MaluDB assert a statement in the slot.
NewStatement(s) ==
  /\ valid[s] = "absent"
  /\ valid' = [valid EXCEPT ![s] = "open"]
  /\ UNCHANGED <<items, merges, late, reqs, scans, history>>

-----------------------------------------------------------------------------
(* The resolve route.  Each step ends at an await of the handler.           *)

Goto(r, pc) == reqs' = [reqs EXCEPT ![r].pc = pc]
Reply(r, reply) ==
  reqs' = [reqs EXCEPT ![r] = [@ EXCEPT !.pc = "idle", !.reply = reply]]

Receive(r, k, decision) ==
  /\ reqs[r].pc = "idle"
  /\ reqs' = [reqs EXCEPT ![r] = [IdleReq EXCEPT !.pc = "reading", !.key = k,
                                                 !.decision = decision]]
  /\ asked' = IF decision = "accept" THEN asked \cup {k} ELSE asked
  /\ UNCHANGED <<items, memory, scans, carried>>

\* Mutant: the reject branch forgets to return and falls through to the accept.
ReadItemFallsThrough(r) ==
  LET item == items[reqs[r].key] IN
  /\ reqs[r].pc = "reading"
  /\ item.status = "open" /\ Executable(item.proposal)
  /\ reqs' = [reqs EXCEPT ![r] = [@ EXCEPT !.pc = "executing", !.action = item.proposal]]
  /\ UNCHANGED <<items, memory, scans, history>>

\* Mutant: the accept is recorded before the action is executed.
ReadItemRecordsFirst(r) ==
  LET item == items[reqs[r].key] IN
  /\ reqs[r].pc = "reading"
  /\ item.status = "open" /\ Executable(item.proposal) /\ reqs[r].decision = "accept"
  /\ reqs' = [reqs EXCEPT ![r] = [@ EXCEPT !.pc = "recording", !.action = item.proposal]]
  /\ UNCHANGED <<items, memory, scans, history>>

\* getReviewItem, and the checks made on the row it returned.
ReadItem(r) ==
  LET item == items[reqs[r].key] IN
  /\ reqs[r].pc = "reading"
  /\ \/ item.status = "none" /\ Reply(r, "not_found")
     \/ item.status \in Resolved /\ Reply(r, "already_resolved")
     \/ /\ item.status = "open"
        /\ reqs[r].decision = "reject"
        /\ Goto(r, "rejecting")
     \/ /\ item.status = "open"
        /\ reqs[r].decision = "accept"
        /\ ~Executable(item.proposal)
        /\ Reply(r, "no_proposed_action")
     \/ /\ item.status = "open"
        /\ reqs[r].decision = "accept"
        /\ Executable(item.proposal)
        /\ reqs' = [reqs EXCEPT ![r] = [@ EXCEPT !.pc = "executing",
                                                 !.action = item.proposal]]
  /\ UNCHANGED <<items, memory, scans, history>>

\* Mutant: UPDATE ... WHERE id = $1, without the status = 'open' guard.
SetUnconditionally(k, status, result) ==
  items' = [items EXCEPT ![k] = [@ EXCEPT !.status = status, !.result = result]]

\* resolveReviewItem: the row changes only while its status is still open.
CompareAndSet(k, status, result) ==
  IF items[k].status = "open"
  THEN items' = [items EXCEPT ![k] = [@ EXCEPT !.status = status,
                                               !.result = result]]
  ELSE UNCHANGED items

RecordReject(r) ==
  /\ reqs[r].pc = "rejecting"
  /\ CompareAndSet(reqs[r].key, "rejected", None)
  /\ Reply(r, IF items[reqs[r].key].status = "open"
              THEN "resolved" ELSE "not_found")
  /\ UNCHANGED <<memory, scans, history>>

RecordAccept(r) ==
  /\ reqs[r].pc = "recording"
  /\ CompareAndSet(reqs[r].key, "accepted", reqs[r].action)
  /\ Reply(r, IF items[reqs[r].key].status = "open"
              THEN "resolved" ELSE "already_resolved")
  /\ UNCHANGED <<memory, scans, history>>

-----------------------------------------------------------------------------
(* executeProposal, through the client's attempt loop.                      *)

\* What an accept has sent.
Sent(r) == [key |-> reqs[r].key, action |-> reqs[r].action]

TakesEffect(r) ==
  /\ Effect(reqs[r].action)
  /\ carried' = [carried EXCEPT ![reqs[r].key] = @ \cup {reqs[r].action}]
  /\ UNCHANGED <<items, late, scans, asked>>

\* Mutant: one attempt too many.
AttemptFailedOffByOne(r) ==
  IF reqs[r].attempts < MaxAttempts
  THEN reqs' = [reqs EXCEPT ![r].attempts = @ + 1]
  ELSE Reply(r, "execution_failed")

\* Mutant: the attempts start over when they are used up.
AttemptFailedStartsOver(r) ==
  reqs' = [reqs EXCEPT ![r].attempts = (@ + 1) % MaxAttempts]

\* A retryable failure: another attempt, or the 502 that leaves the item open.
AttemptFailed(r) ==
  IF reqs[r].attempts + 1 < MaxAttempts
  THEN reqs' = [reqs EXCEPT ![r].attempts = @ + 1]
  ELSE Reply(r, "execution_failed")

CallAnswered(r) ==
  /\ reqs[r].pc = "executing"
  /\ TakesEffect(r)
  /\ Goto(r, "recording")

\* MaluDB acted, but the answer timed out or was lost, or its body broke off,
\* which the client does not retry.
AnswerLost(r) ==
  /\ reqs[r].pc = "executing"
  /\ TakesEffect(r)
  /\ AttemptFailed(r) \/ Reply(r, "execution_failed")

\* The client gives up on a request before MaluDB acts: it may never arrive, or later.
CallLost(r) ==
  /\ reqs[r].pc = "executing"
  /\ AttemptFailed(r)
  /\ late' \in {late, late \cup {Sent(r)}}
  /\ UNCHANGED <<items, valid, merges, scans, history>>

\* Mutant: the error of the call is swallowed, as the auto-resolve path does.
CallRefusedSwallowed(r) ==
  /\ reqs[r].pc = "executing"
  /\ Goto(r, "recording")
  /\ UNCHANGED <<items, memory, scans, history>>

\* A 4xx or 501 answer, or no token for the tenant: never retried.
CallRefused(r) ==
  /\ reqs[r].pc = "executing"
  /\ Reply(r, "execution_failed")
  /\ UNCHANGED <<items, memory, scans, history>>

\* The API process dies with every request it was serving, but not with those it sent.
ApiCrash ==
  /\ \E r \in Request : reqs[r].pc # "idle"
  /\ reqs' = [r \in Request |->
                IF reqs[r].pc = "idle" THEN reqs[r] ELSE IdleReq]
  /\ \E out \in SUBSET {r \in Request : reqs[r].pc = "executing"} :
       late' = late \cup {Sent(r) : r \in out}
  /\ UNCHANGED <<items, valid, merges, scans, history>>

\* A late request arrives, whatever has become of the item since.
Arrive(x) ==
  /\ x \in late
  /\ Effect(x.action)
  /\ late' = late \ {x}
  /\ carried' = [k \in Key |-> carried[k] \cup (IF k = x.key THEN {x.action} ELSE {})]
  /\ UNCHANGED <<items, reqs, scans, asked>>

-----------------------------------------------------------------------------
(* The scan workers.                                                        *)

\* Mutant: the conflict clause resets the row as if it were new.
UpsertReopens(k, proposal) ==
  items' = [items EXCEPT ![k] =
    [status |-> "open", proposal |-> proposal, result |-> None]]

\* createReviewItem: an existing row keeps its status and loses its payload.
Upsert(k, proposal) ==
  items' = [items EXCEPT ![k] =
    IF @.status = "none"
    THEN [status |-> "open", proposal |-> proposal, result |-> None]
    ELSE [@ EXCEPT !.proposal = proposal]]

\* Statements are listed and judged; the loser is fixed for the iteration.
JudgeConflict(w, loser, mode) ==
  LET group == {s \in Statement : valid[s] = "open"} IN
  /\ scans[w].pc = "idle"
  /\ group \in Conflict
  /\ loser \in group
  /\ scans' = [scans EXCEPT ![w] =
       [pc |-> "judged", key |-> group, action |-> Close(loser), mode |-> mode]]
  /\ UNCHANGED <<items, memory, reqs, history>>

\* A consolidation scan always records an item and never acts by itself.
JudgeCluster(w, c, proposal) ==
  /\ scans[w].pc = "idle"
  /\ scans' = [scans EXCEPT ![w] =
       [pc |-> "judged", key |-> c, action |-> proposal,
        mode |-> [create |-> TRUE, auto |-> FALSE]]]
  /\ UNCHANGED <<items, memory, reqs, history>>

RecordItem(w) ==
  /\ scans[w].pc = "judged"
  /\ IF scans[w].mode.create
     THEN Upsert(scans[w].key, scans[w].action) ELSE UNCHANGED items
  /\ scans' = [scans EXCEPT ![w] =
       IF @.mode.auto THEN [@ EXCEPT !.pc = "resolving"] ELSE IdleScan]
  /\ UNCHANGED <<memory, reqs, history>>

\* The close that a scan has sent, for no item.
SentByScan(w) == [key |-> None, action |-> scans[w].action]

\* The auto-resolve close, in all its attempts; its failure is logged and swallowed.
AutoResolve(w) ==
  /\ scans[w].pc = "resolving"
  /\ Effect(scans[w].action) \/ UNCHANGED <<valid, merges>>
  /\ late' \in {late, late \cup {SentByScan(w)}}
  /\ scans' = [scans EXCEPT ![w] = IdleScan]
  /\ UNCHANGED <<items, reqs, history>>

\* The worker dies, or the job throws, between two steps.
ScanCrash(w) ==
  /\ scans[w].pc # "idle"
  /\ \/ UNCHANGED late
     \/ scans[w].pc = "resolving" /\ late' = late \cup {SentByScan(w)}
  /\ scans' = [scans EXCEPT ![w] = IdleScan]
  /\ UNCHANGED <<items, valid, merges, reqs, history>>

-----------------------------------------------------------------------------
Handle(r) == \/ ReadItem(r) \/ RecordReject(r) \/ RecordAccept(r)
             \/ CallAnswered(r) \/ AnswerLost(r) \/ CallLost(r) \/ CallRefused(r)

Work(w) == \/ \E s \in Statement, m \in ScanModes : JudgeConflict(w, s, m)
           \/ \E c \in Cluster : \E p \in ProposalsFor(c) : JudgeCluster(w, c, p)
           \/ RecordItem(w)
           \/ AutoResolve(w)
           \/ ScanCrash(w)

Next == \/ \E r \in Request, k \in Key, d \in {"accept", "reject"} : Receive(r, k, d)
        \/ \E r \in Request : Handle(r)
        \/ \E w \in Scan : Work(w)
        \/ \E s \in Statement : NewStatement(s)
        \/ \E x \in late : Arrive(x)
        \/ ApiCrash

Spec == Init /\ [][Next]_vars

\* A handler that is not killed runs on: every await it makes is answered,
\* fails, or is aborted by the client's timeout.
FairSpec == Spec /\ \A r \in Request : WF_vars(Handle(r))

-----------------------------------------------------------------------------
(* Properties.                                                              *)

Item == [status : Status, proposal : Proposal \cup {None},
         result : Proposal \cup {None}]
Req == [pc : {"idle", "reading", "rejecting", "executing", "recording"},
        key : Key \cup {None}, decision : {"none", "accept", "reject"},
        action : Proposal \cup {None}, attempts : 0 .. (MaxAttempts - 1),
        reply : {"none", "resolved", "not_found", "already_resolved",
                 "no_proposed_action", "execution_failed"}]
ScanState == [pc : {"idle", "judged", "resolving"}, key : Key \cup {None},
              action : Proposal \cup {None},
              mode : [create : BOOLEAN, auto : BOOLEAN]]

\* Every variable keeps its type: rows, requests and scans as the code has them.
TypeOK ==
  /\ items \in [Key -> Item]
  /\ valid \in [Statement -> {"absent", "open", "closed"}]
  /\ merges \in [Cluster -> Nat]
  /\ late \subseteq [key : Key \cup {None}, action : Proposal \cup {None}]
  /\ reqs \in [Request -> Req]
  /\ scans \in [Scan -> ScanState]
  /\ asked \in SUBSET Key
  /\ carried \in [Key -> SUBSET (Proposal \cup {None})]

\* The memory shows an action: its statement is closed, or its cluster is merged.
InEffect(a) == \/ a.type = "closeStatement" /\ valid[a.target] = "closed"
               \/ a.type = "consolidate" /\ merges[a.target] > 0

\* An item marked accepted stores, as its result, an action that MaluDB really
\* carried out for that item and that its memory shows, whatever raced the request
\* that recorded it, and whatever requests and scans have done since.
AcceptedWasCarriedOut ==
  \A k \in Key : items[k].status = "accepted" =>
    items[k].result \in carried[k] /\ InEffect(items[k].result)

\* Without auto-resolve nothing in MaluDB is closed or merged unless an operator
\* asked to accept an item about it (reviews.ts: "Nothing destructive happens
\* without an explicit accept").
NothingWithoutAccept ==
  /\ (\A m \in ScanModes : ~m.auto) =>
       \A s \in Statement : valid[s] = "closed" => \E k \in asked \ Cluster : s \in k
  /\ \A c \in Cluster : merges[c] > 0 => c \in asked

\* The replies tell the truth: whoever was told "resolved" made the decision the
\* item now shows, at most one request is ever told so, and a loser of the race
\* (409) was refused because the item had really been resolved.
RepliesAreTrue ==
  \A r \in Request :
    /\ reqs[r].reply = "resolved" =>
         /\ items[reqs[r].key].status =
              (IF reqs[r].decision = "accept" THEN "accepted" ELSE "rejected")
         /\ \A q \in Request \ {r} :
              reqs[q].reply = "resolved" => reqs[q].key # reqs[r].key
    /\ reqs[r].reply = "already_resolved" => items[reqs[r].key].status \in Resolved

\* A decision is final: no later resolve, crash, retry or re-scan reopens an item
\* or changes its status or recorded result.
DecisionIsFinal ==
  [][\A k \in Key : items[k].status \in Resolved =>
       /\ items'[k].status = items[k].status
       /\ items'[k].result = items[k].result]_vars

\* A request is answered (or dies with the process) whatever MaluDB does.
RequestsEnd == \A r \in Request : reqs[r].pc # "idle" ~> reqs[r].pc = "idle"

\* The queue implements the decisions it promises.
Decision == INSTANCE ReviewDecision WITH
              Action <- Proposal,
              decision <- [k \in Key |-> items[k].status],
              carried <- carried
ImplementsDecision == Decision!Spec

-----------------------------------------------------------------------------
(* What comments of the code claim, and the interleavings above refute.     *)

\* review-items.ts: the compare-and-set makes a second resolve, or one racing
\* another, update nothing, "so the caller never double-executes the proposed
\* action": no two requests have both executed the action of one item.
NeverDoubleExecutes ==
  \A q, r \in Request : q # r /\ reqs[q].pc = "recording" /\ reqs[r].pc = "recording" =>
    reqs[q].key # reqs[r].key
=============================================================================
