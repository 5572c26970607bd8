-------------------------- MODULE ReviewQueueProofs --------------------------
(***************************************************************************)
(* Theorems about ReviewQueue for every set of statements, clusters,       *)
(* requests and scans.                                                     *)
(*                                                                         *)
(* The safety properties are not inductive: they say nothing of what a     *)
(* request or a scan carries in its local variables from one await to the  *)
(* next.  Support says it.                                                 *)
(***************************************************************************)
EXTENDS ReviewQueue, TLAPS

\* A request being served, and a scan past its judgement, is about some item.
Keyed ==
  /\ \A r \in Request : reqs[r].pc # "idle" => reqs[r].key \in Key
  /\ \A w \in Scan : scans[w].pc # "idle" => scans[w].key \in Key

\* A scan past its judgement holds a proposal for its key; only a scan whose
\* payload enables auto-resolve gets to the step that closes a statement.
ScanSupport ==
  \A w \in Scan : scans[w].pc # "idle" =>
    /\ scans[w].key \in Key
    /\ scans[w].action \in ProposalsFor(scans[w].key)
    /\ scans[w].mode.auto => /\ scans[w].action.type = "closeStatement"
                             /\ \E m \in ScanModes : m.auto
    /\ scans[w].pc = "resolving" => scans[w].mode.auto

\* A raised item holds a proposal for its own key.
ItemSupport ==
  \A k \in Key : items[k].status # "none" => items[k].proposal \in ProposalsFor(k)

\* A request that is executing or recording an action was asked to accept an item
\* that exists, and holds an executable action proposed for it; at the recording
\* step the action has been carried out.
Supported(r) ==
  /\ reqs[r].pc # "idle" => reqs[r].key \in Key /\ reqs[r].reply = "none"
  /\ reqs[r].reply \in {"resolved", "already_resolved"} => reqs[r].key \in Key
  /\ reqs[r].pc = "reading" /\ reqs[r].decision # "reject" =>
       reqs[r].decision = "accept" /\ reqs[r].key \in asked
  /\ reqs[r].pc = "rejecting" => /\ reqs[r].decision = "reject"
                                 /\ items[reqs[r].key].status # "none"
  /\ reqs[r].pc \in {"executing", "recording"} =>
       /\ reqs[r].decision = "accept"
       /\ reqs[r].key \in asked
       /\ items[reqs[r].key].status # "none"
       /\ reqs[r].action \in ProposalsFor(reqs[r].key)
       /\ Executable(reqs[r].action)
  /\ reqs[r].pc = "recording" => reqs[r].action \in carried[reqs[r].key]

RequestSupport == \A r \in Request : Supported(r)

\* A request that may still arrive carries an executable action that was proposed for an
\* item somebody asked to accept, or the close of a scan whose payload allows it.
LateSupport ==
  \A x \in late :
    \/ /\ x.key \in asked
       /\ items[x.key].status # "none"
       /\ x.action \in ProposalsFor(x.key)
       /\ Executable(x.action)
    \/ /\ x.key = None
       /\ \E k \in Key : x.action \in ProposalsFor(k)
       /\ x.action.type = "closeStatement"
       /\ \E m \in ScanModes : m.auto

Support == ScanSupport /\ ItemSupport /\ RequestSupport /\ LateSupport

\* What an accept has carried out for an item was proposed for it, and MaluDB's memory
\* shows it.
Effects ==
  \A k \in Key : \A a \in carried[k] : a \in ProposalsFor(k) /\ InEffect(a)

IInv == TypeOK /\ Keyed /\ Support /\ Effects
             /\ AcceptedWasCarriedOut /\ NothingWithoutAccept /\ RepliesAreTrue

-----------------------------------------------------------------------------
(* Proposals and rows. *)

\* A proposal for an item closes a member of its conflict or merges its cluster.
LEMMA ProposalShape ==
  ASSUME NEW k \in Key, NEW a \in ProposalsFor(k)
  PROVE  /\ a \in Proposal
         /\ a.type = "closeStatement" => k \notin Cluster /\ a.target \in k
         /\ a.type = "consolidate" => k \in Cluster /\ a.target = k
  BY DEF Proposal, ProposalsFor, Close, Merge, Untitled

\* A conflict is not a cluster, and closing any member of it may be proposed.
LEMMA ConflictProposals ==
  ASSUME NEW g \in Conflict, NEW s \in g
  PROVE  /\ g \in Key \ Cluster
         /\ Close(s) \in ProposalsFor(g)
         /\ Close(s) \in Proposal
<1>1. g \in Key \ Cluster
  BY ClusterAssumption DEF Key, Conflict
<1>2. Close(s) \in ProposalsFor(g)
  BY <1>1 DEF ProposalsFor
<1> QED BY <1>1, <1>2 DEF Proposal

\* The null row is an item.
LEMMA NoItemIsItem == NoItem \in Item
  BY DEF NoItem, Item, Status

\* The idle request and the idle scan have their types.
LEMMA IdleTypes == IdleReq \in Req /\ IdleScan \in ScanState
  BY AttemptsAssumption DEF IdleReq, Req, IdleScan, ScanState

\* Ending a request with a reply, or moving it, keeps the requests well typed.
LEMMA ReplyType ==
  ASSUME TypeOK, NEW r \in Request,
         NEW reply \in {"none", "resolved", "not_found", "already_resolved",
                        "no_proposed_action", "execution_failed"}
  PROVE  Reply(r, reply) => reqs' \in [Request -> Req]
<1>1. reqs[r] \in Req
  BY DEF TypeOK
<1>2. [reqs[r] EXCEPT !.pc = "idle", !.reply = reply] \in Req
  BY <1>1 DEF Req
<1> QED BY <1>2 DEF TypeOK, Reply

LEMMA ExecutingType ==
  ASSUME NEW q \in Req, NEW a \in Proposal \cup {None}
  PROVE  [q EXCEPT !.pc = "executing", !.action = a] \in Req
  BY DEF Req

\* Recording a decision on a row keeps it a row.
LEMMA CompareAndSetType ==
  ASSUME TypeOK, NEW k \in Key, NEW st \in Resolved, NEW res \in Proposal \cup {None}
  PROVE  CompareAndSet(k, st, res) => items' \in [Key -> Item]
<1>1. [items[k] EXCEPT !.status = st, !.result = res] \in Item
  <2>1. items[k] \in Item
    BY DEF TypeOK
  <2> QED BY <2>1 DEF Item, Status, Resolved
<1> QED BY <1>1 DEF TypeOK, CompareAndSet

LEMMA GotoType ==
  ASSUME TypeOK, NEW r \in Request,
         NEW pc \in {"idle", "reading", "rejecting", "executing", "recording"}
  PROVE  Goto(r, pc) => reqs' \in [Request -> Req]
  BY DEF TypeOK, Goto, Req

LEMMA AttemptType ==
  ASSUME TypeOK, NEW r \in Request
  PROVE  AttemptFailed(r) => reqs' \in [Request -> Req]
<1>1. CASE reqs[r].attempts + 1 < MaxAttempts
  BY <1>1, AttemptsAssumption DEF TypeOK, AttemptFailed, Req
<1>2. CASE ~(reqs[r].attempts + 1 < MaxAttempts)
  BY <1>2, ReplyType DEF AttemptFailed
<1> QED BY <1>1, <1>2

LEMMA EffectType ==
  ASSUME TypeOK, NEW a
  PROVE  Effect(a) => /\ valid' \in [Statement -> {"absent", "open", "closed"}]
                      /\ merges' \in [Cluster -> Nat]
  BY DEF TypeOK, Effect

\* What a request or a scan has sent has a type of its own.
LEMMA SentType ==
  ASSUME TypeOK, NEW r \in Request
  PROVE  Sent(r) \in [key : Key \cup {None}, action : Proposal \cup {None}]
  BY DEF TypeOK, Req, Sent

LEMMA SentByScanType ==
  ASSUME TypeOK, NEW w \in Scan
  PROVE  SentByScan(w) \in [key : Key \cup {None}, action : Proposal \cup {None}]
  BY DEF TypeOK, ScanState, SentByScan

-----------------------------------------------------------------------------
(* Type correctness. *)

LEMMA InitTypeOK == Init => TypeOK
  BY NoItemIsItem, IdleTypes DEF Init, TypeOK, memory, history

LEMMA NextTypeOK == TypeOK /\ Keyed /\ [Next]_vars => TypeOK'
<1> SUFFICES ASSUME TypeOK, Keyed, [Next]_vars PROVE TypeOK'
  OBVIOUS
<1> USE DEF TypeOK, memory, history
<1>1. ASSUME NEW r \in Request, NEW k \in Key, NEW d \in {"accept", "reject"},
             Receive(r, k, d)
      PROVE  TypeOK'
  <2>1. [IdleReq EXCEPT !.pc = "reading", !.key = k, !.decision = d] \in Req
    BY IdleTypes DEF Req, IdleReq
  <2> QED BY <1>1, <2>1 DEF Receive
<1>2. ASSUME NEW r \in Request, ReadItem(r)
      PROVE  TypeOK'
  <2>1. reqs' \in [Request -> Req]
    <3>1. CASE /\ items[reqs[r].key].status = "open"
               /\ Executable(items[reqs[r].key].proposal)
               /\ reqs' = [reqs EXCEPT ![r] = [@ EXCEPT !.pc = "executing",
                                 !.action = items[reqs[r].key].proposal]]
      <4>1. items[reqs[r].key].proposal \in Proposal \cup {None}
        BY <1>2 DEF ReadItem, Item, Keyed
      <4>2. [reqs[r] EXCEPT !.pc = "executing",
                            !.action = items[reqs[r].key].proposal] \in Req
        BY <4>1, ExecutingType
      <4> QED BY <3>1, <4>2
    <3> QED BY <1>2, <3>1, ReplyType, GotoType DEF ReadItem
  <2> QED BY <1>2, <2>1 DEF ReadItem
<1>3. ASSUME NEW r \in Request, RecordReject(r)
      PROVE  TypeOK'
  <2>1. reqs' \in [Request -> Req]
    BY <1>3, ReplyType DEF RecordReject
  <2>2. items' \in [Key -> Item]
    BY <1>3, CompareAndSetType DEF RecordReject, Resolved, Keyed
  <2> QED BY <1>3, <2>1, <2>2 DEF RecordReject
<1>4. ASSUME NEW r \in Request, RecordAccept(r)
      PROVE  TypeOK'
  <2>1. reqs' \in [Request -> Req]
    BY <1>4, ReplyType DEF RecordAccept
  <2>2. reqs[r].action \in Proposal \cup {None}
    BY DEF Req
  <2>3. items' \in [Key -> Item]
    BY <1>4, <2>2, CompareAndSetType DEF RecordAccept, Resolved, Keyed
  <2> QED BY <1>4, <2>1, <2>3 DEF RecordAccept
<1>5. ASSUME NEW r \in Request, CallAnswered(r) \/ AnswerLost(r)
      PROVE  TypeOK'
  <2>1. /\ TakesEffect(r)
        /\ \/ Goto(r, "recording") \/ AttemptFailed(r)
           \/ Reply(r, "execution_failed")
    BY <1>5 DEF CallAnswered, AnswerLost
  <2>2. reqs' \in [Request -> Req]
    BY <2>1, GotoType, AttemptType, ReplyType
  <2>3. reqs[r].action \in Proposal \cup {None}
    BY DEF Req
  <2>4. carried' \in [Key -> SUBSET (Proposal \cup {None})]
    BY <2>1, <2>3 DEF TakesEffect
  <2> QED BY <2>1, <2>2, <2>4, EffectType DEF TakesEffect
<1>6. ASSUME NEW r \in Request, CallLost(r) \/ CallRefused(r)
      PROVE  TypeOK'
  <2>1. reqs' \in [Request -> Req]
    BY <1>6, AttemptType, ReplyType DEF CallLost, CallRefused
  <2>2. late' \subseteq late \cup {Sent(r)}
    BY <1>6 DEF CallLost, CallRefused
  <2> QED BY <1>6, <2>1, <2>2, SentType DEF CallLost, CallRefused
<1>7. CASE ApiCrash
  <2>1. late' \subseteq [key : Key \cup {None}, action : Proposal \cup {None}]
    BY <1>7, SentType DEF ApiCrash
  <2> QED BY <1>7, <2>1, IdleTypes DEF ApiCrash
<1>8. ASSUME NEW w \in Scan, NEW s \in Statement, NEW m \in ScanModes,
             JudgeConflict(w, s, m)
      PROVE  TypeOK'
  <2> DEFINE group == {t \in Statement : valid[t] = "open"}
  <2>1. group \in Key /\ Close(s) \in Proposal
    BY <1>8, ConflictProposals DEF JudgeConflict
  <2>2. scans' = [scans EXCEPT ![w] = [pc |-> "judged", key |-> group,
                                       action |-> Close(s), mode |-> m]]
    BY <1>8 DEF JudgeConflict
  <2>3. [pc |-> "judged", key |-> group, action |-> Close(s), mode |-> m] \in ScanState
    BY <2>1, ModesAssumption DEF ScanState
  <2>4. scans' \in [Scan -> ScanState]
    BY <2>2, <2>3
  <2> QED BY <1>8, <2>4 DEF JudgeConflict
<1>9. ASSUME NEW w \in Scan, NEW c \in Cluster, NEW p \in ProposalsFor(c),
             JudgeCluster(w, c, p)
      PROVE  TypeOK'
  <2>1. c \in Key /\ p \in Proposal
    BY DEF Key, Proposal
  <2>2. scans' \in [Scan -> ScanState]
    BY <1>9, <2>1 DEF JudgeCluster, ScanState
  <2> QED BY <1>9, <2>2 DEF JudgeCluster
<1>10. ASSUME NEW w \in Scan, RecordItem(w)
       PROVE  TypeOK'
  <2>1. scans' \in [Scan -> ScanState]
    BY <1>10, IdleTypes DEF RecordItem, ScanState
  <2>2. scans[w].action \in Proposal \cup {None}
    BY DEF ScanState
  <2>3. items' \in [Key -> Item]
    BY <1>10, <2>2 DEF RecordItem, Upsert, Item, Status
  <2> QED BY <1>10, <2>1, <2>3 DEF RecordItem
<1>11. ASSUME NEW w \in Scan, AutoResolve(w)
       PROVE  TypeOK'
  <2>1. late' \subseteq late \cup {SentByScan(w)}
    BY <1>11 DEF AutoResolve
  <2>2. /\ valid' \in [Statement -> {"absent", "open", "closed"}]
        /\ merges' \in [Cluster -> Nat]
    BY <1>11, EffectType DEF AutoResolve
  <2> QED BY <1>11, <2>1, <2>2, SentByScanType, IdleTypes DEF AutoResolve
<1>12. ASSUME NEW w \in Scan, ScanCrash(w)
       PROVE  TypeOK'
  <2>1. late' \subseteq late \cup {SentByScan(w)}
    BY <1>12 DEF ScanCrash
  <2> QED BY <1>12, <2>1, SentByScanType, IdleTypes DEF ScanCrash
<1>13. ASSUME NEW s \in Statement, NewStatement(s)
       PROVE  TypeOK'
  BY <1>13 DEF NewStatement
<1>14. CASE UNCHANGED vars
  BY <1>14 DEF vars
<1>15. ASSUME NEW x \in late, Arrive(x)
       PROVE  TypeOK'
  <2>1. x.action \in Proposal \cup {None}
    OBVIOUS
  <2>2. carried' \in [Key -> SUBSET (Proposal \cup {None})]
    BY <1>15, <2>1 DEF Arrive
  <2> QED BY <1>15, <2>2, EffectType DEF Arrive
<1> QED
  BY <1>1, <1>2, <1>3, <1>4, <1>5, <1>6, <1>7, <1>8, <1>9, <1>10, <1>11, <1>12,
     <1>13, <1>14, <1>15 DEF Next, Handle, Work

\* A step of request r leaves the other requests alone, and r about the same item
\* with the same decision.
Advances(r) ==
  /\ \A q \in Request \ {r} : reqs'[q] = reqs[q]
  /\ reqs'[r].key = reqs[r].key
  /\ reqs'[r].decision = reqs[r].decision

LEMMA ReplyAdvances ==
  ASSUME TypeOK, NEW r \in Request, NEW reply, Reply(r, reply)
  PROVE  /\ Advances(r)
         /\ reqs'[r].pc = "idle" /\ reqs'[r].reply = reply
         /\ reqs'[r].action = reqs[r].action
<1>1. reqs[r] \in Req
  BY DEF TypeOK
<1>2. reqs'[r] = [reqs[r] EXCEPT !.pc = "idle", !.reply = reply]
  BY DEF TypeOK, Reply
<1>3. \A q \in Request \ {r} : reqs'[q] = reqs[q]
  BY DEF TypeOK, Reply
<1> QED BY <1>1, <1>2, <1>3 DEF Req, Advances

LEMMA GotoAdvances ==
  ASSUME TypeOK, NEW r \in Request, NEW pc, Goto(r, pc)
  PROVE  /\ Advances(r)
         /\ reqs'[r].pc = pc /\ reqs'[r].reply = reqs[r].reply
         /\ reqs'[r].action = reqs[r].action
  BY DEF TypeOK, Goto, Req, Advances

\* A failed attempt either stays at the call or ends the request with a 502.
LEMMA AttemptAdvances ==
  ASSUME TypeOK, NEW r \in Request, AttemptFailed(r)
  PROVE  /\ Advances(r)
         /\ reqs'[r].action = reqs[r].action
         /\ \/ reqs'[r].pc = reqs[r].pc /\ reqs'[r].reply = reqs[r].reply
            \/ reqs'[r].pc = "idle" /\ reqs'[r].reply = "execution_failed"
<1>1. CASE reqs[r].attempts + 1 < MaxAttempts
  BY <1>1 DEF TypeOK, AttemptFailed, Req, Advances
<1>2. CASE ~(reqs[r].attempts + 1 < MaxAttempts)
  BY <1>2, ReplyAdvances DEF AttemptFailed
<1> QED BY <1>1, <1>2

LEMMA ReadAdvances ==
  ASSUME TypeOK, NEW r \in Request, ReadItem(r)
  PROVE  Advances(r)
<1>1. CASE reqs' = [reqs EXCEPT ![r] = [@ EXCEPT !.pc = "executing",
                                 !.action = items[reqs[r].key].proposal]]
  <2>1. reqs'[r] = [reqs[r] EXCEPT !.pc = "executing",
                                  !.action = items[reqs[r].key].proposal]
    BY <1>1 DEF TypeOK
  <2>2. \A q \in Request \ {r} : reqs'[q] = reqs[q]
    BY <1>1 DEF TypeOK
  <2>3. reqs[r] \in Req
    BY DEF TypeOK
  <2> QED BY <2>1, <2>2, <2>3 DEF Req, Advances
<1>2. CASE Goto(r, "rejecting")
  BY <1>2, GotoAdvances
<1>3. CASE \E reply \in {"not_found", "already_resolved", "no_proposed_action"} : Reply(r, reply)
  BY <1>3, ReplyAdvances
<1> QED BY <1>1, <1>2, <1>3 DEF ReadItem

LEMMA HandleAdvances ==
  ASSUME TypeOK, NEW r \in Request, Handle(r)
  PROVE  Advances(r) /\ reqs[r].pc # "idle"
<1>1. CASE ReadItem(r)
  BY <1>1, ReadAdvances DEF ReadItem
<1>2. CASE RecordReject(r) \/ RecordAccept(r)
  BY <1>2, ReplyAdvances DEF RecordReject, RecordAccept
<1>3. CASE CallAnswered(r)
  BY <1>3, GotoAdvances DEF CallAnswered
<1>4. CASE AnswerLost(r) \/ CallLost(r) \/ CallRefused(r)
  BY <1>4, AttemptAdvances, ReplyAdvances DEF AnswerLost, CallLost, CallRefused
<1> QED BY <1>1, <1>2, <1>3, <1>4 DEF Handle

LEMMA NextKeyed == TypeOK /\ Keyed /\ [Next]_vars => Keyed'
<1> SUFFICES ASSUME TypeOK, Keyed, [Next]_vars PROVE Keyed'
  OBVIOUS
<1>1. \A r \in Request : reqs'[r].pc # "idle" => reqs'[r].key \in Key
  <2> SUFFICES ASSUME NEW q \in Request, reqs'[q].pc # "idle" PROVE reqs'[q].key \in Key
    OBVIOUS
  <2> USE DEF TypeOK, Keyed
  <2>1. ASSUME NEW r \in Request, NEW k \in Key, NEW d \in {"accept", "reject"},
               Receive(r, k, d)
        PROVE  reqs'[q].key \in Key
    BY <2>1 DEF Receive, IdleReq
  <2>2. ASSUME NEW r \in Request, Handle(r)
        PROVE  reqs'[q].key \in Key
    BY <2>2, HandleAdvances DEF Advances
  <2>3. CASE ApiCrash
    BY <2>3 DEF ApiCrash, IdleReq
  <2>4. CASE \/ \E w \in Scan : Work(w)
             \/ \E s \in Statement : NewStatement(s)
             \/ \E x \in late : Arrive(x)
             \/ UNCHANGED vars
    BY <2>4 DEF Work, JudgeConflict, JudgeCluster, RecordItem, AutoResolve, ScanCrash,
                NewStatement, Arrive, vars
  <2> QED BY <2>1, <2>2, <2>3, <2>4 DEF Next
<1>2. \A w \in Scan : scans'[w].pc # "idle" => scans'[w].key \in Key
  <2> SUFFICES ASSUME NEW v \in Scan, scans'[v].pc # "idle" PROVE scans'[v].key \in Key
    OBVIOUS
  <2> USE DEF TypeOK, Keyed
  <2>1. ASSUME NEW w \in Scan, NEW s \in Statement, NEW m \in ScanModes,
               JudgeConflict(w, s, m)
        PROVE  scans'[v].key \in Key
    BY <2>1, ConflictProposals DEF JudgeConflict
  <2>2. ASSUME NEW w \in Scan, NEW c \in Cluster, NEW p \in ProposalsFor(c),
               JudgeCluster(w, c, p)
        PROVE  scans'[v].key \in Key
    BY <2>2 DEF JudgeCluster, Key
  <2>3. ASSUME NEW w \in Scan, RecordItem(w) \/ AutoResolve(w) \/ ScanCrash(w)
        PROVE  scans'[v].key \in Key
    <3>1. scans' = [scans EXCEPT ![w] = IdleScan]
          \/ scans' = [scans EXCEPT ![w] = [@ EXCEPT !.pc = "resolving"]]
      BY <2>3 DEF RecordItem, AutoResolve, ScanCrash
    <3>2. scans[w].pc # "idle"
      BY <2>3 DEF RecordItem, AutoResolve, ScanCrash
    <3> QED BY <3>1, <3>2 DEF IdleScan, ScanState
  <2>4. CASE UNCHANGED scans
    BY <2>4
  <2>5. ASSUME NEW r \in Request, Handle(r)
        PROVE  UNCHANGED scans
    BY <2>5 DEF Handle, ReadItem, RecordReject, RecordAccept, CallAnswered,
                AnswerLost, CallLost, CallRefused, TakesEffect
  <2> QED
    BY <2>1, <2>2, <2>3, <2>4, <2>5
       DEF Next, Work, Receive, NewStatement, Arrive, ApiCrash, vars
<1> QED BY <1>1, <1>2 DEF Keyed

\* Rows, requests, scans and MaluDB's state keep their types in every behaviour.
THEOREM TypeCorrect == Spec => []TypeOK
<1>1. Init => Keyed
  BY DEF Init, Keyed, IdleReq, IdleScan
<1> QED BY <1>1, InitTypeOK, NextTypeOK, NextKeyed, PTL DEF Spec

-----------------------------------------------------------------------------
(* What no step undoes. *)

\* A row is never deleted or reopened.
RowSteady(k) ==
  /\ items[k].status # "none" => items'[k].status # "none"
  /\ items[k].status \in Resolved =>
       items'[k].status = items[k].status /\ items'[k].result = items[k].result

\* Rows are steady and the histories only grow.
Steady ==
  /\ \A k \in Key : RowSteady(k) /\ carried[k] \subseteq carried'[k]
  /\ asked \subseteq asked'

\* The compare-and-set changes one open row, whose proposal it keeps.
LEMMA CompareAndSetRow ==
  ASSUME TypeOK, NEW k \in Key, NEW st, NEW res, CompareAndSet(k, st, res)
  PROVE  /\ \A j \in Key \ {k} : items'[j] = items[j]
         /\ items'[k].proposal = items[k].proposal
         /\ items[k].status # "open" => items'[k] = items[k]
         /\ items[k].status = "open" => items'[k].status = st /\ items'[k].result = res
<1>1. items[k] \in Item
  BY DEF TypeOK
<1>2. CASE items[k].status = "open"
  <2>1. items'[k] = [items[k] EXCEPT !.status = st, !.result = res]
    BY <1>2 DEF TypeOK, CompareAndSet
  <2>2. \A j \in Key \ {k} : items'[j] = items[j]
    BY <1>2 DEF TypeOK, CompareAndSet
  <2> QED BY <1>1, <1>2, <2>1, <2>2 DEF Item
<1>3. CASE items[k].status # "open"
  BY <1>3 DEF CompareAndSet
<1> QED BY <1>2, <1>3

\* The upsert opens a missing row and otherwise replaces its proposal only.
LEMMA UpsertRow ==
  ASSUME TypeOK, NEW k \in Key, NEW p, Upsert(k, p)
  PROVE  /\ \A j \in Key \ {k} : items'[j] = items[j]
         /\ items'[k].proposal = p
         /\ items[k].status = "none" => items'[k].status = "open"
         /\ items[k].status # "none" =>
              items'[k].status = items[k].status /\ items'[k].result = items[k].result
<1>1. items[k] \in Item
  BY DEF TypeOK
<1>2. \A j \in Key \ {k} : items'[j] = items[j]
  BY DEF TypeOK, Upsert
<1>3. CASE items[k].status = "none"
  <2>1. items'[k] = [status |-> "open", proposal |-> p, result |-> None]
    BY <1>3 DEF TypeOK, Upsert
  <2> QED BY <1>2, <1>3, <2>1
<1>4. CASE items[k].status # "none"
  <2>1. items'[k] = [items[k] EXCEPT !.proposal = p]
    BY <1>4 DEF TypeOK, Upsert
  <2> QED BY <1>1, <1>2, <1>4, <2>1 DEF Item
<1> QED BY <1>3, <1>4

\* A step changes the rows by a request's compare-and-set or a scan's upsert.
LEMMA RowsChange ==
  ASSUME [Next]_vars
  PROVE  \/ UNCHANGED items
         \/ \E r \in Request : RecordReject(r) \/ RecordAccept(r)
         \/ \E w \in Scan : RecordItem(w) /\ Upsert(scans[w].key, scans[w].action)
<1>1. ASSUME NEW r \in Request, Handle(r)
      PROVE  UNCHANGED items \/ RecordReject(r) \/ RecordAccept(r)
  BY <1>1 DEF Handle, ReadItem, CallAnswered, AnswerLost, CallLost, CallRefused, TakesEffect
<1>2. ASSUME NEW w \in Scan, Work(w)
      PROVE  UNCHANGED items \/ (RecordItem(w) /\ Upsert(scans[w].key, scans[w].action))
  BY <1>2 DEF Work, JudgeConflict, JudgeCluster, RecordItem, AutoResolve, ScanCrash
<1>3. CASE UNCHANGED vars
  BY <1>3 DEF vars
<1> QED BY <1>1, <1>2, <1>3 DEF Next, Receive, NewStatement, Arrive, ApiCrash

\* The histories change when an accept is received and when a call takes effect.
LEMMA HistoryGrows ==
  ASSUME TypeOK, [Next]_vars
  PROVE  asked \subseteq asked' /\ \A k \in Key : carried[k] \subseteq carried'[k]
<1>1. ASSUME NEW r \in Request, Handle(r)
      PROVE  asked' = asked /\ \A k \in Key : carried[k] \subseteq carried'[k]
  <2>1. CASE TakesEffect(r)
    BY <2>1 DEF TakesEffect, TypeOK
  <2> QED BY <1>1, <2>1 DEF Handle, ReadItem, RecordReject, RecordAccept,
       CallAnswered, AnswerLost, CallLost, CallRefused, history
<1>2. ASSUME NEW r \in Request, NEW k \in Key, NEW d \in {"accept", "reject"},
             Receive(r, k, d)
      PROVE  asked \subseteq asked' /\ carried' = carried
  BY <1>2 DEF Receive
<1>3. ASSUME NEW w \in Scan, Work(w)
      PROVE  UNCHANGED history
  BY <1>3 DEF Work, JudgeConflict, JudgeCluster, RecordItem, AutoResolve, ScanCrash
<1>4. CASE UNCHANGED vars
  BY <1>4 DEF vars
<1>5. ASSUME NEW x \in late, Arrive(x)
      PROVE  asked' = asked /\ \A k \in Key : carried[k] \subseteq carried'[k]
  BY <1>5 DEF Arrive
<1> QED BY <1>1, <1>2, <1>3, <1>4, <1>5 DEF Next, NewStatement, ApiCrash, history

LEMMA NextSteady == TypeOK /\ Keyed /\ [Next]_vars => Steady
<1> SUFFICES ASSUME TypeOK, Keyed, [Next]_vars PROVE Steady
  OBVIOUS
<1>1. ASSUME NEW k \in Key
      PROVE  RowSteady(k)
  <2> USE DEF RowSteady
  <2>1. CASE UNCHANGED items
    BY <2>1
  <2>2. ASSUME NEW j \in Key, NEW st \in Resolved, NEW res, CompareAndSet(j, st, res)
        PROVE  RowSteady(k)
    BY <2>2, CompareAndSetRow DEF Resolved
  <2>3. ASSUME NEW r \in Request, RecordReject(r) \/ RecordAccept(r)
        PROVE  RowSteady(k)
    BY <2>2, <2>3 DEF RecordReject, RecordAccept, Keyed, Resolved
  <2>4. ASSUME NEW w \in Scan, RecordItem(w), Upsert(scans[w].key, scans[w].action)
        PROVE  RowSteady(k)
    BY <2>4, UpsertRow DEF RecordItem, Keyed, Resolved
  <2> QED BY <2>1, <2>3, <2>4, RowsChange
<1> QED BY <1>1, HistoryGrows DEF Steady

\* Decided items stay decided: DecisionIsFinal, for any number of requests and scans.
THEOREM DecisionsAreFinal == Spec => DecisionIsFinal
<1>1. TypeOK /\ Keyed /\ [Next]_vars =>
        [\A k \in Key : items[k].status \in Resolved =>
           /\ items'[k].status = items[k].status
           /\ items'[k].result = items[k].result]_vars
  BY NextSteady DEF Steady, RowSteady
<1>2. Init => Keyed
  BY DEF Init, Keyed, IdleReq, IdleScan
<1> QED
  BY <1>1, <1>2, InitTypeOK, NextTypeOK, NextKeyed, PTL DEF Spec, DecisionIsFinal

-----------------------------------------------------------------------------
(* The supporting invariant. *)

LEMMA NextScanSupport == TypeOK /\ Keyed /\ ScanSupport /\ [Next]_vars => ScanSupport'
<1> SUFFICES ASSUME TypeOK, Keyed, ScanSupport, [Next]_vars,
                    NEW v \in Scan, scans'[v].pc # "idle"
             PROVE  /\ scans'[v].key \in Key
                    /\ scans'[v].action \in ProposalsFor(scans'[v].key)
                    /\ scans'[v].mode.auto => /\ scans'[v].action.type = "closeStatement"
                                              /\ \E m \in ScanModes : m.auto
                    /\ scans'[v].pc = "resolving" => scans'[v].mode.auto
  BY DEF ScanSupport
<1> USE DEF TypeOK, ScanSupport
<1>1. ASSUME NEW w \in Scan, NEW s \in Statement, NEW m \in ScanModes,
             JudgeConflict(w, s, m), v = w
      PROVE  /\ scans'[v].key \in Key
             /\ scans'[v].action \in ProposalsFor(scans'[v].key)
             /\ scans'[v].action.type = "closeStatement"
             /\ scans'[v].mode = m
             /\ scans'[v].pc = "judged"
  <2> DEFINE group == {t \in Statement : valid[t] = "open"}
  <2>1. scans'[v] = [pc |-> "judged", key |-> group, action |-> Close(s), mode |-> m]
    BY <1>1 DEF JudgeConflict
  <2>2. group \in Conflict /\ s \in group
    BY <1>1 DEF JudgeConflict
  <2>3. group \in Key /\ Close(s) \in ProposalsFor(group)
    BY <2>2, ConflictProposals
  <2> QED BY <2>1, <2>3 DEF Close
<1>2. ASSUME NEW w \in Scan, NEW c \in Cluster, NEW p \in ProposalsFor(c),
             JudgeCluster(w, c, p), v = w
      PROVE  /\ scans'[v].key = c /\ c \in Key
             /\ scans'[v].action = p
             /\ ~scans'[v].mode.auto
             /\ scans'[v].pc = "judged"
  BY <1>2 DEF JudgeCluster, Key
<1>3. ASSUME NEW w \in Scan, RecordItem(w), v = w
      PROVE  /\ scans[v].pc # "idle" /\ scans[v].mode.auto
             /\ scans'[v].key = scans[v].key /\ scans'[v].action = scans[v].action
             /\ scans'[v].mode = scans[v].mode
  BY <1>3 DEF RecordItem, IdleScan, ScanState
<1>4. ASSUME NEW w \in Scan, AutoResolve(w) \/ ScanCrash(w)
      PROVE  scans'[v] = scans[v]
  BY <1>4 DEF AutoResolve, ScanCrash, IdleScan
<1>5. ASSUME NEW w \in Scan, Work(w), v # w
      PROVE  scans'[v] = scans[v]
  BY <1>5 DEF Work, JudgeConflict, JudgeCluster, RecordItem, AutoResolve, ScanCrash
<1>6. ASSUME NEW r \in Request, Handle(r)
      PROVE  UNCHANGED scans
  BY <1>6 DEF Handle, ReadItem, RecordReject, RecordAccept, CallAnswered, AnswerLost,
              CallLost, CallRefused, TakesEffect
<1>7. UNCHANGED scans \/ \E w \in Scan : Work(w)
  BY <1>6 DEF Next, Receive, NewStatement, Arrive, ApiCrash, vars
<1>8. CASE UNCHANGED scans
  BY <1>8
<1>9. ASSUME NEW w \in Scan, Work(w)
      PROVE  /\ scans'[v].key \in Key
             /\ scans'[v].action \in ProposalsFor(scans'[v].key)
             /\ scans'[v].mode.auto => /\ scans'[v].action.type = "closeStatement"
                                       /\ \E m \in ScanModes : m.auto
             /\ scans'[v].pc = "resolving" => scans'[v].mode.auto
  BY <1>1, <1>2, <1>3, <1>4, <1>5, <1>9 DEF Work
<1> QED BY <1>7, <1>8, <1>9

LEMMA NextItemSupport ==
  TypeOK /\ Keyed /\ ScanSupport /\ ItemSupport /\ [Next]_vars => ItemSupport'
<1> SUFFICES ASSUME TypeOK, Keyed, ScanSupport, ItemSupport, [Next]_vars,
                    NEW k \in Key, items'[k].status # "none"
             PROVE  items'[k].proposal \in ProposalsFor(k)
  BY DEF ItemSupport
<1>1. ASSUME NEW r \in Request, NEW st, NEW res, reqs[r].key \in Key,
             CompareAndSet(reqs[r].key, st, res)
      PROVE  items'[k].proposal \in ProposalsFor(k)
  BY <1>1, CompareAndSetRow DEF ItemSupport
<1>2. ASSUME NEW r \in Request, RecordReject(r) \/ RecordAccept(r)
      PROVE  items'[k].proposal \in ProposalsFor(k)
  BY <1>1, <1>2 DEF RecordReject, RecordAccept, Keyed
<1>3. ASSUME NEW w \in Scan, RecordItem(w), Upsert(scans[w].key, scans[w].action)
      PROVE  items'[k].proposal \in ProposalsFor(k)
  <2>1. scans[w].key \in Key /\ scans[w].action \in ProposalsFor(scans[w].key)
    BY <1>3 DEF ScanSupport, RecordItem
  <2> QED BY <1>3, <2>1, UpsertRow DEF ItemSupport
<1>4. CASE UNCHANGED items
  BY <1>4 DEF ItemSupport
<1> QED BY <1>2, <1>3, <1>4, RowsChange

LEMMA NextRequestSupport ==
  TypeOK /\ Keyed /\ ItemSupport /\ RequestSupport /\ [Next]_vars => RequestSupport'
<1> SUFFICES ASSUME TypeOK, Keyed, ItemSupport, RequestSupport, [Next]_vars,
                    NEW q \in Request
             PROVE  Supported(q)'
  BY DEF RequestSupport
<1>0. Supported(q) /\ reqs[q] \in Req /\ Steady
  BY NextSteady DEF RequestSupport, TypeOK
<1> USE DEF Supported
\* Steadiness keeps whatever a request that does not move relies on.
<1>1. CASE reqs'[q] = reqs[q]
  BY <1>0, <1>1 DEF Steady, RowSteady, Keyed
<1>2. ASSUME NEW k \in Key, NEW d \in {"accept", "reject"}, Receive(q, k, d)
      PROVE  Supported(q)'
  <2>1. reqs'[q] = [IdleReq EXCEPT !.pc = "reading", !.key = k, !.decision = d]
    BY <1>2 DEF Receive, TypeOK
  <2>2. /\ reqs'[q].pc = "reading" /\ reqs'[q].key = k /\ reqs'[q].decision = d
        /\ reqs'[q].reply = "none"
    BY <2>1 DEF IdleReq
  <2>3. d = "accept" => k \in asked'
    BY <1>2 DEF Receive
  <2> QED BY <2>2, <2>3
<1>3. CASE ReadItem(q)
  <2>1. /\ reqs'[q].key = reqs[q].key /\ reqs'[q].decision = reqs[q].decision
        /\ reqs[q].pc = "reading" /\ reqs[q].key \in Key /\ reqs[q].reply = "none"
    BY <1>0, <1>3, ReadAdvances DEF Advances, ReadItem
  <2>2. CASE \E reply \in {"not_found", "already_resolved", "no_proposed_action"} :
               Reply(q, reply)
    BY <2>1, <2>2, ReplyAdvances
  <2>3. CASE /\ items[reqs[q].key].status = "open" /\ reqs[q].decision = "reject"
             /\ Goto(q, "rejecting")
    BY <1>3, <2>1, <2>3, GotoAdvances DEF ReadItem
  <2>4. CASE /\ items[reqs[q].key].status = "open" /\ reqs[q].decision = "accept"
             /\ Executable(items[reqs[q].key].proposal)
             /\ reqs' = [reqs EXCEPT ![q] = [@ EXCEPT !.pc = "executing",
                                   !.action = items[reqs[q].key].proposal]]
    <3>1. reqs'[q] = [reqs[q] EXCEPT !.pc = "executing",
                                     !.action = items[reqs[q].key].proposal]
      BY <2>4 DEF TypeOK
    <3>2. /\ reqs'[q].pc = "executing" /\ reqs'[q].reply = "none"
          /\ reqs'[q].action = items[reqs[q].key].proposal
      BY <1>0, <2>1, <3>1 DEF Req
    <3>3. items[reqs[q].key].proposal \in ProposalsFor(reqs[q].key)
      BY <2>1, <2>4 DEF ItemSupport
    <3>4. UNCHANGED <<items, asked>>
      BY <1>3 DEF ReadItem, history
    <3> QED BY <1>0, <2>1, <2>4, <3>2, <3>3, <3>4
  <2> QED BY <1>3, <2>2, <2>3, <2>4 DEF ReadItem
<1>4. CASE \E reply : Reply(q, reply) /\ reqs[q].pc # "idle"
  BY <1>0, <1>4, ReplyAdvances DEF Advances
<1>5. CASE CallAnswered(q)
  <2>1. /\ reqs'[q].pc = "recording" /\ reqs'[q].reply = reqs[q].reply
        /\ reqs'[q].action = reqs[q].action /\ Advances(q)
    BY <1>5, GotoAdvances DEF CallAnswered
  <2>2. reqs[q].key \in Key /\ reqs[q].action \in carried'[reqs[q].key]
    BY <1>5 DEF CallAnswered, TakesEffect, Keyed, TypeOK
  <2> QED BY <1>0, <1>5, <2>1, <2>2 DEF CallAnswered, Advances, Steady, RowSteady
<1>6. CASE AttemptFailed(q) /\ reqs[q].pc = "executing"
  BY <1>0, <1>6, AttemptAdvances DEF Advances, Steady, RowSteady
<1>7. ASSUME NEW r \in Request \ {q}, Handle(r)
      PROVE  reqs'[q] = reqs[q]
  BY <1>7, HandleAdvances DEF Advances
<1>8. ASSUME NEW r \in Request \ {q}, NEW k \in Key, NEW d \in {"accept", "reject"},
             Receive(r, k, d)
      PROVE  reqs'[q] = reqs[q]
  BY <1>8 DEF Receive, TypeOK
<1>9. CASE ApiCrash
  <2>1. reqs'[q] = reqs[q] \/ reqs'[q] = IdleReq
    BY <1>9 DEF ApiCrash
  <2>2. CASE reqs'[q] = IdleReq
    BY <2>2 DEF IdleReq
  <2> QED BY <1>1, <2>1, <2>2
<1>10. ASSUME NEW w \in Scan, Work(w)
       PROVE  UNCHANGED reqs
  BY <1>10 DEF Work, JudgeConflict, JudgeCluster, RecordItem, AutoResolve, ScanCrash
<1>11. CASE Handle(q)
  BY <1>3, <1>4, <1>5, <1>6, <1>11
     DEF Handle, RecordReject, RecordAccept, AnswerLost, CallLost, CallRefused
<1> QED
  BY <1>1, <1>2, <1>7, <1>8, <1>9, <1>10, <1>11 DEF Next, NewStatement, Arrive, vars

\* A step adds to the late requests what an executing request or an acting scan sent.
LEMMA LateChange ==
  ASSUME [Next]_vars, NEW x \in late' \ late
  PROVE  \/ \E r \in Request : reqs[r].pc = "executing" /\ x = Sent(r)
         \/ \E w \in Scan : scans[w].pc = "resolving" /\ x = SentByScan(w)
<1>1. ASSUME NEW r \in Request, Handle(r)
      PROVE  reqs[r].pc = "executing" /\ x = Sent(r)
  BY <1>1 DEF Handle, ReadItem, RecordReject, RecordAccept, CallAnswered, AnswerLost,
              CallLost, CallRefused, TakesEffect, memory
<1>2. ASSUME NEW w \in Scan, Work(w)
      PROVE  scans[w].pc = "resolving" /\ x = SentByScan(w)
  BY <1>2 DEF Work, JudgeConflict, JudgeCluster, RecordItem, AutoResolve, ScanCrash, memory
<1>3. CASE ApiCrash
  BY <1>3 DEF ApiCrash
<1> QED BY <1>1, <1>2, <1>3 DEF Next, Receive, NewStatement, Arrive, vars, memory

LEMMA NextLateSupport == TypeOK /\ Keyed /\ Support /\ [Next]_vars => LateSupport'
<1> SUFFICES ASSUME TypeOK, Keyed, ScanSupport, RequestSupport, LateSupport, [Next]_vars,
                    NEW x \in late'
             PROVE  \/ /\ x.key \in asked'
                       /\ items'[x.key].status # "none"
                       /\ x.action \in ProposalsFor(x.key)
                       /\ Executable(x.action)
                    \/ /\ x.key = None
                       /\ \E k \in Key : x.action \in ProposalsFor(k)
                       /\ x.action.type = "closeStatement"
                       /\ \E m \in ScanModes : m.auto
  BY DEF LateSupport, Support
<1>1. \A k \in asked : k \in asked' /\ (items[k].status # "none" => items'[k].status # "none")
  BY NextSteady DEF Steady, RowSteady, TypeOK
<1>2. CASE x \in late
  BY <1>1, <1>2 DEF LateSupport
<1>3. ASSUME NEW r \in Request, reqs[r].pc = "executing", x = Sent(r)
      PROVE  /\ x.key \in asked'
             /\ items'[x.key].status # "none"
             /\ x.action \in ProposalsFor(x.key)
             /\ Executable(x.action)
  BY <1>1, <1>3 DEF Sent, RequestSupport, Supported
<1>4. ASSUME NEW w \in Scan, scans[w].pc = "resolving", x = SentByScan(w)
      PROVE  /\ x.key = None
             /\ \E k \in Key : x.action \in ProposalsFor(k)
             /\ x.action.type = "closeStatement"
             /\ \E m \in ScanModes : m.auto
  BY <1>4 DEF SentByScan, ScanSupport
<1> QED BY <1>2, <1>3, <1>4, LateChange

-----------------------------------------------------------------------------
(* The safety properties. *)

\* An action is added to the history when a call of an accept takes effect, at once or
\* late, only then.
LEMMA CarriedChange ==
  ASSUME [Next]_vars
  PROVE  \/ UNCHANGED carried
         \/ \E r \in Request : reqs[r].pc = "executing" /\ TakesEffect(r)
         \/ \E x \in late : Arrive(x)
<1>1. ASSUME NEW r \in Request, Handle(r)
      PROVE  UNCHANGED carried \/ (reqs[r].pc = "executing" /\ TakesEffect(r))
  BY <1>1 DEF Handle, ReadItem, RecordReject, RecordAccept, CallAnswered, AnswerLost,
              CallLost, CallRefused, history
<1> QED BY <1>1 DEF Next, Receive, Work, JudgeConflict, JudgeCluster, RecordItem,
     AutoResolve, ScanCrash, NewStatement, ApiCrash, vars, history

\* MaluDB's state changes by a call of an accept or of an auto-resolve, at once or late,
\* or by others.
LEMMA MemoryChange ==
  ASSUME [Next]_vars
  PROVE  \/ UNCHANGED <<valid, merges>>
         \/ \E r \in Request : reqs[r].pc = "executing" /\ TakesEffect(r)
         \/ \E w \in Scan : scans[w].pc = "resolving" /\ Effect(scans[w].action)
         \/ \E s \in Statement : NewStatement(s)
         \/ \E x \in late : Arrive(x)
<1>1. ASSUME NEW r \in Request, Handle(r)
      PROVE  UNCHANGED <<valid, merges>> \/ (reqs[r].pc = "executing" /\ TakesEffect(r))
  BY <1>1 DEF Handle, ReadItem, RecordReject, RecordAccept, CallAnswered, AnswerLost,
              CallLost, CallRefused, memory
<1>2. ASSUME NEW w \in Scan, Work(w)
      PROVE  UNCHANGED <<valid, merges>> \/ (scans[w].pc = "resolving" /\ Effect(scans[w].action))
  BY <1>2 DEF Work, JudgeConflict, JudgeCluster, RecordItem, AutoResolve, ScanCrash, memory
<1>3. CASE UNCHANGED vars
  BY <1>3 DEF vars
<1> QED BY <1>1, <1>2, <1>3 DEF Next, Receive, ApiCrash, memory

\* No step reopens a statement or undoes a merge.
LEMMA NothingUndone ==
  ASSUME TypeOK, Keyed, ScanSupport, RequestSupport, [Next]_vars
  PROVE  /\ \A s \in Statement : valid[s] = "closed" => valid'[s] = "closed"
         /\ \A c \in Cluster : merges[c] > 0 => merges'[c] > 0
<1>1. ASSUME NEW a, Effect(a)
      PROVE  /\ \A s \in Statement : valid[s] = "closed" => valid'[s] = "closed"
             /\ \A c \in Cluster : merges[c] > 0 => merges'[c] > 0
  BY <1>1 DEF Effect, TypeOK
<1>2. ASSUME NEW s \in Statement, NewStatement(s)
      PROVE  UNCHANGED merges /\ \A t \in Statement : valid[t] = "closed" => valid'[t] = "closed"
  BY <1>2 DEF NewStatement, TypeOK
<1> QED BY <1>1, <1>2, MemoryChange DEF TakesEffect, Arrive

LEMMA NextEffects ==
  TypeOK /\ Keyed /\ Support /\ Effects /\ [Next]_vars => Effects'
<1> SUFFICES ASSUME TypeOK, Keyed, ScanSupport, RequestSupport, LateSupport, Effects,
                    [Next]_vars,
                    NEW k \in Key, NEW a \in carried'[k]
             PROVE  a \in ProposalsFor(k) /\ InEffect(a)'
  BY DEF Effects, Support
<1>1. a \in ProposalsFor(k) /\ InEffect(a) => InEffect(a)'
  <2> SUFFICES ASSUME a \in ProposalsFor(k), InEffect(a) PROVE InEffect(a)'
    OBVIOUS
  <2>1. /\ a.type = "closeStatement" => a.target \in Statement
        /\ a.type = "consolidate" => a.target \in Cluster
    BY ProposalShape DEF Key, Conflict
  <2> QED BY <2>1, NothingUndone DEF InEffect
<1>2. CASE a \in carried[k]
  BY <1>1, <1>2 DEF Effects
<1>3. ASSUME a \in ProposalsFor(k), Effect(a)
      PROVE  InEffect(a)'
  <2>1. /\ a.type = "closeStatement" => a.target \in Statement
        /\ a.type = "consolidate" => a.target \in Cluster
    BY <1>3, ProposalShape DEF Key, Conflict
  <2> QED BY <1>3, <2>1 DEF Effect, InEffect, TypeOK
<1>4. ASSUME NEW r \in Request, reqs[r].pc = "executing", TakesEffect(r), a \notin carried[k]
      PROVE  a \in ProposalsFor(k) /\ InEffect(a)'
  <2>1. a = reqs[r].action /\ k = reqs[r].key
    BY <1>4 DEF TakesEffect, TypeOK
  <2> QED BY <1>3, <1>4, <2>1 DEF TakesEffect, RequestSupport, Supported
<1>5. ASSUME NEW x \in late, Arrive(x), a \notin carried[k]
      PROVE  a \in ProposalsFor(k) /\ InEffect(a)'
  <2>1. a = x.action /\ k = x.key
    BY <1>5 DEF Arrive
  <2>2. a \in ProposalsFor(k)
    BY <2>1, NoneAssumption DEF LateSupport
  <2> QED BY <1>3, <1>5, <2>1, <2>2 DEF Arrive
<1> QED BY <1>2, <1>4, <1>5, CarriedChange

LEMMA NextAccepted ==
  TypeOK /\ Keyed /\ RequestSupport /\ AcceptedWasCarriedOut /\ Effects' /\ [Next]_vars
    => AcceptedWasCarriedOut'
<1> SUFFICES ASSUME TypeOK, Keyed, RequestSupport, AcceptedWasCarriedOut, Effects', [Next]_vars,
                    NEW k \in Key, items'[k].status = "accepted"
             PROVE  items'[k].result \in carried'[k]
  BY DEF AcceptedWasCarriedOut, Effects
<1>0. carried[k] \subseteq carried'[k]
  BY HistoryGrows
<1>1. CASE items'[k].status = items[k].status /\ items'[k].result = items[k].result
  BY <1>0, <1>1 DEF AcceptedWasCarriedOut
<1>2. ASSUME NEW r \in Request, RecordReject(r)
      PROVE  items'[k] = items[k]
  <2>1. reqs[r].key \in Key
    BY <1>2 DEF RecordReject, Keyed
  <2> QED BY <1>2, <2>1, CompareAndSetRow DEF RecordReject
<1>3. ASSUME NEW r \in Request, RecordAccept(r)
      PROVE  items'[k] = items[k] \/ items'[k].result \in carried[k]
  <2>1. reqs[r].key \in Key /\ reqs[r].action \in carried[reqs[r].key]
    BY <1>3 DEF RecordAccept, Keyed, RequestSupport, Supported
  <2> QED BY <1>3, <2>1, CompareAndSetRow DEF RecordAccept
<1>4. ASSUME NEW w \in Scan, RecordItem(w), Upsert(scans[w].key, scans[w].action)
      PROVE  items'[k].status = items[k].status /\ items'[k].result = items[k].result
  <2>1. scans[w].key \in Key
    BY <1>4 DEF RecordItem, Keyed
  <2> QED BY <1>4, <2>1, UpsertRow
<1>5. CASE items'[k] = items[k]
  BY <1>1, <1>5
<1> QED BY <1>0, <1>1, <1>2, <1>3, <1>4, <1>5, RowsChange

LEMMA NextReplies ==
  TypeOK /\ Keyed /\ RequestSupport /\ RepliesAreTrue /\ [Next]_vars => RepliesAreTrue'
<1> SUFFICES ASSUME TypeOK, Keyed, RequestSupport, RepliesAreTrue, [Next]_vars
             PROVE  RepliesAreTrue'
  OBVIOUS
<1> DEFINE Verdict(r) == IF reqs[r].decision = "accept" THEN "accepted" ELSE "rejected"
           Winner(r) == reqs[r].reply = "resolved"
           Loser(r) == reqs[r].reply = "already_resolved"
           Settled == \A r \in Request :
             /\ Winner(r) => items[reqs[r].key].status = Verdict(r)
             /\ Loser(r) => items[reqs[r].key].status \in Resolved
           OneWinner == \A r, q \in Request :
             r # q /\ Winner(r) /\ Winner(q) => reqs[q].key # reqs[r].key
<1>1. Settled /\ OneWinner
  BY DEF RepliesAreTrue
<1>2. \A r \in Request : Winner(r) \/ Loser(r) => reqs[r].key \in Key
  BY DEF RequestSupport, Supported
<1>3. \A k \in Key : RowSteady(k)
  BY NextSteady DEF Steady
\* Whoever had an answer, or has none now, is unaffected by the step.
<1>4. ASSUME NEW r \in Request,
             reqs'[r] = reqs[r] \/ ~(Winner(r)' \/ Loser(r)')
      PROVE  /\ Winner(r)' => items'[reqs'[r].key].status = Verdict(r)'
             /\ Loser(r)' => items'[reqs'[r].key].status \in Resolved
  BY <1>1, <1>2, <1>3, <1>4 DEF RowSteady, Resolved
\* A request that records its decision wins if the row is open, else loses.
<1>5. ASSUME NEW r \in Request, RecordReject(r) \/ RecordAccept(r)
      PROVE  /\ Winner(r)' => /\ items[reqs[r].key].status = "open"
                              /\ items'[reqs[r].key].status = Verdict(r)
             /\ Loser(r)' => items'[reqs[r].key].status \in Resolved
             /\ Advances(r)
  <2>1. /\ reqs[r].key \in Key /\ items[reqs[r].key].status # "none"
        /\ RecordReject(r) => reqs[r].decision = "reject"
        /\ RecordAccept(r) => reqs[r].decision = "accept"
    BY <1>5 DEF RecordReject, RecordAccept, RequestSupport, Supported
  <2>2. items[reqs[r].key].status \in Status
    BY <2>1 DEF TypeOK, Item
  <2>3. CASE RecordReject(r)
    <3>1. Advances(r) /\ reqs'[r].reply \in {"resolved", "not_found"}
      BY <2>3, ReplyAdvances DEF RecordReject
    <3>2. Winner(r)' => items[reqs[r].key].status = "open"
      BY <2>3, ReplyAdvances DEF RecordReject
    <3>3. items[reqs[r].key].status = "open" => items'[reqs[r].key].status = "rejected"
      BY <2>1, <2>3, CompareAndSetRow DEF RecordReject
    <3> QED BY <2>1, <2>3, <3>1, <3>2, <3>3
  <2>4. CASE RecordAccept(r)
    <3>1. /\ Advances(r)
          /\ Winner(r)' => items[reqs[r].key].status = "open"
          /\ Loser(r)' => items[reqs[r].key].status # "open"
      BY <2>4, ReplyAdvances DEF RecordAccept
    <3>2. /\ items[reqs[r].key].status = "open" => items'[reqs[r].key].status = "accepted"
          /\ items[reqs[r].key].status # "open" => items'[reqs[r].key] = items[reqs[r].key]
      BY <2>1, <2>4, CompareAndSetRow DEF RecordAccept
    <3> QED BY <2>1, <2>2, <2>4, <3>1, <3>2 DEF Status, Resolved
  <2> QED BY <1>5, <2>3, <2>4
\* The only other way to lose is to read a resolved row.
<1>6. ASSUME NEW r \in Request, ReadItem(r)
      PROVE  /\ ~Winner(r)' /\ Advances(r) /\ UNCHANGED items
             /\ Loser(r)' => items[reqs[r].key].status \in Resolved
  <2>1. reqs[r].reply = "none" /\ reqs[r] \in Req
    BY <1>6 DEF ReadItem, RequestSupport, Supported, TypeOK
  <2>2. CASE Reply(r, "already_resolved") /\ items[reqs[r].key].status \in Resolved
    BY <1>6, <2>2, ReplyAdvances DEF ReadItem
  <2>3. CASE Reply(r, "not_found") \/ Reply(r, "no_proposed_action") \/ Goto(r, "rejecting")
    BY <1>6, <2>1, <2>3, ReplyAdvances, GotoAdvances DEF ReadItem
  <2>4. CASE reqs' = [reqs EXCEPT ![r] = [@ EXCEPT !.pc = "executing",
                                   !.action = items[reqs[r].key].proposal]]
    <3>1. reqs'[r] = [reqs[r] EXCEPT !.pc = "executing",
                                     !.action = items[reqs[r].key].proposal]
      BY <2>4 DEF TypeOK
    <3>2. reqs'[r].reply = "none"
      BY <2>1, <3>1 DEF Req
    <3> QED BY <1>6, <3>2, ReadAdvances DEF ReadItem
  <2> QED BY <1>6, <2>2, <2>3, <2>4 DEF ReadItem
<1>7. ASSUME NEW r \in Request,
             CallAnswered(r) \/ AnswerLost(r) \/ CallLost(r) \/ CallRefused(r)
      PROVE  ~Winner(r)' /\ ~Loser(r)' /\ Advances(r)
  <2>1. reqs[r].reply = "none"
    BY <1>7 DEF CallAnswered, AnswerLost, CallLost, CallRefused, RequestSupport, Supported
  <2> QED BY <1>7, <2>1, GotoAdvances, AttemptAdvances, ReplyAdvances
          DEF CallAnswered, AnswerLost, CallLost, CallRefused
\* So in any step at most one request acquires an answer that matters.
<1>8. \/ \A q \in Request : reqs'[q] = reqs[q] \/ ~(Winner(q)' \/ Loser(q)')
      \/ \E r \in Request : RecordReject(r) \/ RecordAccept(r) \/ ReadItem(r)
  <2>1. ASSUME NEW r \in Request, NEW k \in Key, NEW d \in {"accept", "reject"},
               Receive(r, k, d)
        PROVE  \A q \in Request : reqs'[q] = reqs[q] \/ ~(Winner(q)' \/ Loser(q)')
    BY <2>1 DEF Receive, IdleReq, TypeOK
  <2>2. CASE ApiCrash
    BY <2>2 DEF ApiCrash, IdleReq
  <2>3. ASSUME NEW w \in Scan, Work(w)
        PROVE  UNCHANGED reqs
    BY <2>3 DEF Work, JudgeConflict, JudgeCluster, RecordItem, AutoResolve, ScanCrash
  <2> QED BY <1>7, <2>1, <2>2, <2>3 DEF Next, Handle, Advances, NewStatement, Arrive, vars
<1>9. Settled'
  BY <1>4, <1>5, <1>6, <1>8 DEF Advances, Resolved
<1>10. OneWinner'
  <2> SUFFICES ASSUME NEW r \in Request, NEW q \in Request, r # q, Winner(r)', Winner(q)',
                      reqs'[q].key = reqs'[r].key
               PROVE  FALSE
    OBVIOUS
  <2>1. CASE reqs'[r] = reqs[r] /\ reqs'[q] = reqs[q]
    BY <1>1, <2>1
  \* A new winner found the row open, an old one had it resolved.
  <2>2. ASSUME NEW a \in Request, NEW b \in Request, a # b, Winner(a)', Winner(b)',
               RecordReject(a) \/ RecordAccept(a), reqs'[a].key = reqs'[b].key
        PROVE  FALSE
    BY <1>1, <1>5, <2>2 DEF Advances
  <2> QED BY <1>5, <1>6, <1>8, <2>1, <2>2 DEF Advances
<1> QED BY <1>9, <1>10 DEF RepliesAreTrue

LEMMA NextNothing ==
  TypeOK /\ Keyed /\ Support /\ NothingWithoutAccept /\ [Next]_vars => NothingWithoutAccept'
<1> SUFFICES ASSUME TypeOK, Keyed, ScanSupport, RequestSupport, LateSupport,
                    NothingWithoutAccept, [Next]_vars
             PROVE  NothingWithoutAccept'
  BY DEF Support
<1>0. asked \subseteq asked'
  BY HistoryGrows
<1>1. CASE UNCHANGED <<valid, merges>>
  BY <1>0, <1>1 DEF NothingWithoutAccept
\* An action proposed for an item that somebody asked to accept.
<1>2. ASSUME NEW k \in Key, k \in asked, NEW a \in ProposalsFor(k), Effect(a)
      PROVE  NothingWithoutAccept'
  <2>1. CASE /\ a.type = "closeStatement"
             /\ valid' = [valid EXCEPT ![a.target] = "closed"] /\ UNCHANGED merges
    <3>1. k \notin Cluster /\ a.target \in k
      BY <2>1, ProposalShape
    <3>2. \A s \in Statement : valid'[s] = "closed" => s = a.target \/ valid[s] = "closed"
      BY <2>1 DEF TypeOK
    <3> QED BY <1>0, <1>2, <2>1, <3>1, <3>2 DEF NothingWithoutAccept
  <2>2. CASE /\ a.type = "consolidate"
             /\ merges' = [merges EXCEPT ![a.target] = @ + 1] /\ UNCHANGED valid
    <3>1. a.target = k
      BY <2>2, ProposalShape
    <3>2. \A c \in Cluster : merges'[c] = merges[c] \/ c = k
      BY <2>2, <3>1 DEF TypeOK
    <3> QED BY <1>0, <1>2, <2>2, <3>2 DEF NothingWithoutAccept
  <2> QED BY <1>2, <2>1, <2>2 DEF Effect
\* The close of a scan, which only a payload that enables auto-resolve lets it send.
<1>3. ASSUME NEW a, a.type = "closeStatement", \E m \in ScanModes : m.auto, Effect(a)
      PROVE  NothingWithoutAccept'
  BY <1>0, <1>3 DEF Effect, NothingWithoutAccept
<1>4. ASSUME NEW r \in Request, reqs[r].pc = "executing", TakesEffect(r)
      PROVE  NothingWithoutAccept'
  BY <1>2, <1>4 DEF RequestSupport, Supported, TakesEffect
<1>5. ASSUME NEW w \in Scan, scans[w].pc = "resolving", Effect(scans[w].action)
      PROVE  NothingWithoutAccept'
  BY <1>3, <1>5 DEF ScanSupport
<1>6. ASSUME NEW x \in late, Arrive(x)
      PROVE  NothingWithoutAccept'
  BY <1>2, <1>3, <1>6 DEF LateSupport, Arrive, TypeOK
<1>7. ASSUME NEW s \in Statement, NewStatement(s)
      PROVE  NothingWithoutAccept'
  BY <1>0, <1>7 DEF NewStatement, NothingWithoutAccept, TypeOK
<1> QED BY <1>1, <1>4, <1>5, <1>6, <1>7, MemoryChange

LEMMA InitIInv == Init => IInv
<1> SUFFICES ASSUME Init PROVE IInv
  OBVIOUS
<1>1. TypeOK
  BY InitTypeOK
<1>2. Keyed /\ ScanSupport /\ RequestSupport /\ LateSupport
  BY DEF Init, Keyed, ScanSupport, RequestSupport, Supported, LateSupport, IdleReq, IdleScan
<1>3. ItemSupport /\ AcceptedWasCarriedOut /\ Effects
  BY DEF Init, ItemSupport, AcceptedWasCarriedOut, NoItem, Effects
<1>4. NothingWithoutAccept /\ RepliesAreTrue
  BY DEF Init, NothingWithoutAccept, RepliesAreTrue, IdleReq
<1> QED BY <1>1, <1>2, <1>3, <1>4 DEF IInv, Support

LEMMA NextIInv == IInv /\ [Next]_vars => IInv'
  BY NextTypeOK, NextKeyed, NextScanSupport, NextItemSupport, NextRequestSupport,
     NextLateSupport, NextEffects, NextAccepted, NextReplies, NextNothing DEF IInv, Support

LEMMA Invariance == Spec => []IInv
  BY InitIInv, NextIInv, PTL DEF Spec

\* An accepted item's recorded result was carried out on MaluDB.
THEOREM AcceptedCarriedOut == Spec => []AcceptedWasCarriedOut
<1>1. IInv => AcceptedWasCarriedOut
  BY DEF IInv
<1> QED BY <1>1, Invariance, PTL

\* Without auto-resolve nothing is closed or merged unless an accept was asked for.
THEOREM AcceptRequired == Spec => []NothingWithoutAccept
<1>1. IInv => NothingWithoutAccept
  BY DEF IInv
<1> QED BY <1>1, Invariance, PTL

\* At most one request per item is told it resolved it, and the row agrees with it.
THEOREM TrueReplies == Spec => []RepliesAreTrue
<1>1. IInv => RepliesAreTrue
  BY DEF IInv
<1> QED BY <1>1, Invariance, PTL

-----------------------------------------------------------------------------
(* Refinement of ReviewDecision. *)

LEMMA InitDecision == Init => Decision!Init
  BY DEF Init, Decision!Init, NoItem

\* Each step raises or decides one item, carries one action out, or stutters.
LEMMA NextDecision == IInv /\ [Next]_vars => [Decision!Next]_(Decision!vars)
<1> SUFFICES ASSUME IInv, [Next]_vars
             PROVE  [Decision!Next]_(Decision!vars)
  OBVIOUS
<1> DEFINE decision == [k \in Key |-> items[k].status]
<1>0. TypeOK /\ Keyed /\ ScanSupport /\ RequestSupport /\ LateSupport
  BY DEF IInv, Support
\* Recording a decision: Accept or Reject, if the row was open.
<1>1. ASSUME NEW r \in Request, RecordReject(r) \/ RecordAccept(r)
      PROVE  [Decision!Next]_(Decision!vars)
  <2> DEFINE k == reqs[r].key
  <2>1. k \in Key /\ (RecordAccept(r) => carried[k] # {})
    BY <1>0, <1>1 DEF RecordReject, RecordAccept, RequestSupport, Supported
  <2>2. UNCHANGED carried
    BY <1>1 DEF RecordReject, RecordAccept, history
  <2>3. CASE items[k].status = "open"
    <3>1. PICK d \in {"accepted", "rejected"} :
            /\ d = "accepted" => carried[k] # {}
            /\ \A j \in Key : items'[j].status = IF j = k THEN d ELSE items[j].status
      <4>1. CASE RecordReject(r)
        BY <1>0, <2>1, <2>3, <4>1, CompareAndSetRow DEF RecordReject
      <4>2. CASE RecordAccept(r)
        BY <1>0, <2>1, <2>3, <4>2, CompareAndSetRow DEF RecordAccept
      <4> QED BY <1>1, <4>1, <4>2
    <3>2. decision' = [decision EXCEPT ![k] = d]
      BY <3>1
    <3> QED BY <2>1, <2>2, <2>3, <3>1, <3>2
            DEF Decision!Next, Decision!Accept, Decision!Reject
  <2>4. CASE items[k].status # "open"
    <3>1. UNCHANGED items
      BY <1>1, <2>4 DEF RecordReject, RecordAccept, CompareAndSet
    <3> QED BY <2>2, <3>1 DEF Decision!vars
  <2> QED BY <2>3, <2>4
\* A call that takes effect: CarryOut.
<1>2. ASSUME NEW r \in Request, reqs[r].pc = "executing", TakesEffect(r)
      PROVE  Decision!Next
  <2>1. /\ reqs[r].key \in Key /\ items[reqs[r].key].status # "none"
        /\ reqs[r].action \in Proposal
    BY <1>0, <1>2, ProposalShape DEF RequestSupport, Supported
  <2>2. Decision!CarryOut(reqs[r].key, reqs[r].action)
    BY <1>2, <2>1 DEF TakesEffect, Decision!CarryOut
  <2> QED BY <2>1, <2>2 DEF Decision!Next
\* A late call of an accept: CarryOut, whatever has become of the item.  A scan's call
\* is for no item: a stutter.
<1>3. ASSUME NEW x \in late, Arrive(x)
      PROVE  [Decision!Next]_(Decision!vars)
  <2>1. CASE x.key \in asked
    <3>1. /\ x.key \in Key /\ items[x.key].status # "none" /\ x.action \in Proposal
      BY <1>0, <2>1, NoneAssumption, ProposalShape DEF LateSupport, TypeOK
    <3>2. carried' = [carried EXCEPT ![x.key] = @ \cup {x.action}]
      BY <1>0, <1>3, <3>1 DEF Arrive, TypeOK
    <3>3. Decision!CarryOut(x.key, x.action)
      BY <1>3, <3>1, <3>2 DEF Arrive, Decision!CarryOut
    <3> QED BY <3>1, <3>3 DEF Decision!Next
  <2>2. CASE x.key = None
    <3>1. \A k \in Key : carried'[k] = carried[k]
      BY <1>3, <2>2, NoneAssumption DEF Arrive
    <3>2. UNCHANGED carried
      BY <1>0, <1>3, <3>1 DEF Arrive, TypeOK
    <3> QED BY <1>3, <3>2 DEF Arrive, Decision!vars
  <2> QED BY <1>0, <2>1, <2>2 DEF LateSupport
\* The upsert of a scan: Raise, or a stutter when the row exists.
<1>4. ASSUME NEW w \in Scan, RecordItem(w), Upsert(scans[w].key, scans[w].action)
      PROVE  [Decision!Next]_(Decision!vars)
  <2> DEFINE k == scans[w].key
  <2>1. k \in Key /\ UNCHANGED carried
    BY <1>0, <1>4 DEF RecordItem, Keyed, history
  <2>2. CASE items[k].status = "none"
    <3>1. \A j \in Key : items'[j].status = IF j = k THEN "open" ELSE items[j].status
      BY <1>0, <1>4, <2>1, <2>2, UpsertRow
    <3>2. decision' = [decision EXCEPT ![k] = "open"]
      BY <3>1
    <3> QED BY <2>1, <2>2, <3>2 DEF Decision!Next, Decision!Raise
  <2>3. CASE items[k].status # "none"
    <3>1. decision' = decision
      BY <1>0, <1>4, <2>1, <2>3, UpsertRow
    <3> QED BY <2>1, <3>1 DEF Decision!vars
  <2> QED BY <2>2, <2>3
<1>5. CASE UNCHANGED items /\ UNCHANGED carried
  BY <1>5 DEF Decision!vars
<1> QED BY <1>1, <1>2, <1>3, <1>4, <1>5, CarriedChange, RowsChange

\* The review queue implements the decisions it promises.
THEOREM QueueImplementsDecision == Spec => ImplementsDecision
  BY Invariance, InitDecision, NextDecision, PTL DEF ImplementsDecision, Decision!Spec, Spec

-----------------------------------------------------------------------------
(* Why a request is answered.  Each step of its handler brings it closer to *)
(* its reply, by the client's attempts at most; RequestsEnd needs, beyond   *)
(* this, only that a handler that is not killed runs on.                    *)

StepsOf(q) ==
  CASE q.pc = "idle"                     -> 0
    [] q.pc \in {"rejecting", "recording"} -> 1
    [] q.pc = "executing"                -> MaxAttempts - q.attempts + 1
    [] q.pc = "reading"                  -> MaxAttempts + 2

StepsLeft(r) == StepsOf(reqs[r])

\* A request under way stands still or comes closer to its reply, at most
\* MaxAttempts + 2 steps away.
RunsDown ==
  \A r \in Request : reqs[r].pc # "idle" =>
    /\ StepsLeft(r) \in 1 .. MaxAttempts + 2
    /\ reqs'[r] = reqs[r] \/ StepsLeft(r)' < StepsLeft(r)

LEMMA FewStepsLeft ==
  ASSUME TypeOK, NEW r \in Request, reqs[r].pc # "idle"
  PROVE  StepsLeft(r) \in 1 .. MaxAttempts + 2
<1>1. /\ reqs[r].pc \in {"reading", "rejecting", "executing", "recording"}
      /\ reqs[r].attempts \in 0 .. MaxAttempts - 1 /\ MaxAttempts \in Nat
  BY AttemptsAssumption DEF TypeOK, Req
<1> QED BY <1>1 DEF StepsLeft, StepsOf

\* Where a step may take the request it is of.
LEMMA MoveRunsDown ==
  ASSUME TypeOK, NEW r \in Request, NEW q, reqs' = [reqs EXCEPT ![r] = q],
         \/ reqs[r].pc = "idle"
         \/ q.pc = "idle"
         \/ reqs[r].pc = "reading" /\ q.pc = "rejecting"
         \/ reqs[r].pc = "reading" /\ q.pc = "executing" /\ q.attempts = reqs[r].attempts
         \/ reqs[r].pc = "executing" /\ q.pc = "recording"
         \/ reqs[r].pc = "executing" /\ q.pc = "executing"
              /\ q.attempts = reqs[r].attempts + 1
  PROVE  RunsDown
<1>1. \A p \in Request : reqs'[p] = IF p = r THEN q ELSE reqs[p]
  BY DEF TypeOK
<1>2. ASSUME reqs[r].pc # "idle" PROVE StepsOf(q) < StepsLeft(r)
  <2>1. /\ reqs[r].attempts \in 0 .. MaxAttempts - 1 /\ MaxAttempts \in Nat
        /\ StepsLeft(r) \in 1 .. MaxAttempts + 2
    BY <1>2, FewStepsLeft, AttemptsAssumption DEF TypeOK, Req
  <2>2. CASE q.pc = "idle"
    <3>1. StepsOf(q) = 0
      BY <2>2 DEF StepsOf
    <3> QED BY <2>1, <3>1
  <2>3. CASE reqs[r].pc = "reading" /\ q.pc = "rejecting"
    <3>1. StepsOf(q) = 1 /\ StepsLeft(r) = MaxAttempts + 2
      BY <2>3 DEF StepsLeft, StepsOf
    <3> QED BY <2>1, <3>1
  <2>4. CASE reqs[r].pc = "reading" /\ q.pc = "executing" /\ q.attempts = reqs[r].attempts
    <3>1. StepsOf(q) = MaxAttempts - q.attempts + 1 /\ StepsLeft(r) = MaxAttempts + 2
      BY <2>4 DEF StepsLeft, StepsOf
    <3> QED BY <2>1, <2>4, <3>1
  <2>5. CASE reqs[r].pc = "executing" /\ q.pc = "recording"
    <3>1. StepsOf(q) = 1 /\ StepsLeft(r) = MaxAttempts - reqs[r].attempts + 1
      BY <2>5 DEF StepsLeft, StepsOf
    <3> QED BY <2>1, <3>1
  <2>6. CASE /\ reqs[r].pc = "executing" /\ q.pc = "executing"
             /\ q.attempts = reqs[r].attempts + 1
    <3>1. /\ StepsOf(q) = MaxAttempts - q.attempts + 1
          /\ StepsLeft(r) = MaxAttempts - reqs[r].attempts + 1
      BY <2>6 DEF StepsLeft, StepsOf
    <3> QED BY <2>1, <2>6, <3>1
  <2> QED BY <1>2, <2>2, <2>3, <2>4, <2>5, <2>6
<1> QED BY <1>1, <1>2, FewStepsLeft DEF RunsDown, StepsLeft

LEMMA NextRunsDown == TypeOK /\ [Next]_vars => [RunsDown]_vars
<1> SUFFICES ASSUME TypeOK, Next PROVE RunsDown
  BY DEF vars
<1>0. \A r \in Request : reqs[r] \in Req
  BY DEF TypeOK
\* The places a handler goes to.
<1>1. ASSUME NEW r \in Request, NEW reply, Reply(r, reply) PROVE RunsDown
  <2>1. PICK q : q = [reqs[r] EXCEPT !.pc = "idle", !.reply = reply]
    OBVIOUS
  <2>2. q.pc = "idle"
    BY <1>0, <2>1 DEF Req
  <2> QED BY <1>1, <2>1, <2>2, MoveRunsDown DEF Reply
<1>2. ASSUME NEW r \in Request, NEW place, Goto(r, place),
             \/ reqs[r].pc = "reading" /\ place = "rejecting"
             \/ reqs[r].pc = "executing" /\ place = "recording"
      PROVE  RunsDown
  <2>1. PICK q : q = [reqs[r] EXCEPT !.pc = place]
    OBVIOUS
  <2>2. q.pc = place
    BY <1>0, <2>1 DEF Req
  <2> QED BY <1>2, <2>1, <2>2, MoveRunsDown DEF Goto
<1>3. ASSUME NEW r \in Request, reqs[r].pc = "executing", AttemptFailed(r) PROVE RunsDown
  <2>1. CASE Reply(r, "execution_failed")
    BY <1>1, <2>1
  <2>2. CASE reqs' = [reqs EXCEPT ![r].attempts = @ + 1]
    <3>1. PICK q : q = [reqs[r] EXCEPT !.attempts = @ + 1]
      OBVIOUS
    <3>2. q.pc = "executing" /\ q.attempts = reqs[r].attempts + 1
      BY <1>0, <1>3, <3>1 DEF Req
    <3> QED BY <1>3, <2>2, <3>1, <3>2, MoveRunsDown
  <2> QED BY <1>3, <2>1, <2>2 DEF AttemptFailed
<1>4. ASSUME NEW r \in Request, NEW k \in Key, NEW d \in {"accept", "reject"},
             Receive(r, k, d)
      PROVE  RunsDown
  BY <1>4, MoveRunsDown DEF Receive
<1>5. ASSUME NEW r \in Request, ReadItem(r) PROVE RunsDown
  <2>1. CASE \E reply : Reply(r, reply)
    BY <1>1, <2>1
  <2>2. CASE Goto(r, "rejecting")
    BY <1>2, <1>5, <2>2 DEF ReadItem
  <2>3. ASSUME NEW a, reqs' = [reqs EXCEPT ![r] = [@ EXCEPT !.pc = "executing", !.action = a]]
        PROVE  RunsDown
    <3>1. PICK q : q = [reqs[r] EXCEPT !.pc = "executing", !.action = a]
      OBVIOUS
    <3>2. q.pc = "executing" /\ q.attempts = reqs[r].attempts
      BY <1>0, <3>1 DEF Req
    <3>3. reqs' = [reqs EXCEPT ![r] = q] /\ reqs[r].pc = "reading"
      BY <1>5, <2>3, <3>1 DEF ReadItem
    <3> QED BY <3>2, <3>3, MoveRunsDown
  <2> QED BY <1>5, <2>1, <2>2, <2>3 DEF ReadItem
<1>6. ASSUME NEW r \in Request,
             RecordReject(r) \/ RecordAccept(r) \/ CallRefused(r)
      PROVE  RunsDown
  BY <1>1, <1>6 DEF RecordReject, RecordAccept, CallRefused
<1>7. ASSUME NEW r \in Request, CallAnswered(r) PROVE RunsDown
  BY <1>2, <1>7 DEF CallAnswered
<1>8. ASSUME NEW r \in Request, AnswerLost(r) \/ CallLost(r) PROVE RunsDown
  BY <1>1, <1>3, <1>8 DEF AnswerLost, CallLost
<1>9. CASE ApiCrash
  <2>1. \A r \in Request : reqs'[r].pc = "idle" /\ StepsLeft(r)' = 0
    BY <1>9 DEF ApiCrash, IdleReq, StepsLeft, StepsOf
  <2>2. \A r \in Request : reqs[r].pc # "idle" => StepsLeft(r) \in 1 .. MaxAttempts + 2
    BY FewStepsLeft
  <2> QED BY <2>1, <2>2, AttemptsAssumption DEF RunsDown
\* Scans and the users of MaluDB move no request.
<1>10. CASE reqs' = reqs
  BY <1>10, FewStepsLeft DEF RunsDown
<1>11. ASSUME NEW w \in Scan, Work(w) PROVE RunsDown
  BY <1>10, <1>11 DEF Work, JudgeConflict, JudgeCluster, RecordItem, AutoResolve, ScanCrash
<1>12. CASE \/ \E s \in Statement : NewStatement(s)
            \/ \E x \in late : Arrive(x)
  BY <1>10, <1>12 DEF NewStatement, Arrive
<1>13. ASSUME NEW r \in Request, Handle(r) PROVE RunsDown
  BY <1>5, <1>6, <1>7, <1>8, <1>13 DEF Handle
<1> QED BY <1>4, <1>9, <1>11, <1>12, <1>13 DEF Next

\* No request waits in circles: whatever MaluDB answers, and whatever scans and other
\* requests do to its item, each step of its handler brings it closer to its reply.
THEOREM RequestsRunDown == Spec => [][RunsDown]_vars
<1>1. IInv => TypeOK
  BY DEF IInv
<1> QED BY <1>1, Invariance, NextRunsDown, PTL DEF Spec
=============================================================================
