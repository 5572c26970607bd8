-------------------------------- MODULE Sweep --------------------------------
(***************************************************************************)
(* A sweep drains one of MaluDB's dirty queues in batches: it asks for a   *)
(* batch, adds up the answer, records a watermark, and goes on until a     *)
(* batch is empty or the run's cap is reached.                             *)
(*                                                                         *)
(* MaluDB is external: a batch locks the dirty items it claims and skips   *)
(* those that another batch has locked; it processes an item or reports an *)
(* error for it and leaves it dirty; a batch that the client has given up  *)
(* on goes on at MaluDB.  Sweeps of a tenant and type can overlap.         *)
(*                                                                         *)
(* Abstractions.  The three sweep jobs share the loop and differ in their  *)
(* endpoint only.  Counts of processed and skipped items and the texts of  *)
(* errors are dropped: the loop tells batches apart by their claims alone. *)
(***************************************************************************)
EXTENDS Naturals, FiniteSets

CONSTANTS Item,         \* what can become dirty
          Run,          \* the sweep jobs that may overlap
          Limit,        \* batch limit
          MaxBatches,   \* maxBatchesPerRun
          MaxAttempts,  \* 1 + maxRetries of the MaluDB client
          MaxTrouble,   \* bound on failures, crashes and item errors
          Restless      \* the tenant changes items without end

ASSUME ItemAssumption == IsFiniteSet(Item)
ASSUME PositiveAssumption == {Limit, MaxBatches, MaxAttempts} \subseteq Nat \ {0}
ASSUME TroubleAssumption == MaxTrouble \in Nat
ASSUME RestlessAssumption == Restless \in BOOLEAN

VARIABLES
  dirty,      \* MaluDB: the dirty queue
  abandoned,  \* MaluDB: items that batches nobody waits for have locked
  runs,       \* the sweeps' local variables
  mark,       \* watermarks: lastBatchIndex + 1, 0 if there is none
  taken,      \* history: how many claims MaluDB made for a run
  missed,     \* history: how many of those the run was not told about
  trouble     \* failures so far

vars == <<dirty, abandoned, runs, mark, taken, missed, trouble>>

Idle == [pc |-> "idle", index |-> 0, attempt |-> 0, held |-> {}, claimed |-> 0,
         batches |-> 0, total |-> 0, reason |-> "none"]

Init ==
  /\ dirty = Item
  /\ abandoned = {}
  /\ runs = [w \in Run |-> Idle]
  /\ mark = 0
  /\ taken = [w \in Run |-> 0]
  /\ missed = [w \in Run |-> 0]
  /\ trouble = 0

To(w, r) == runs' = [runs EXCEPT ![w] = r]
Trouble == trouble < MaxTrouble /\ trouble' = trouble + 1

Held == (UNION {runs[w].held : w \in Run}) \cup abandoned
Free == dirty \ Held

-----------------------------------------------------------------------------
(* The sweep.                                                               *)

\* The loop is entered at index 0, for a new job and for one delivered again.
Start(w) ==
  /\ runs[w].pc \in {"idle", "crashed"}
  /\ To(w, [Idle EXCEPT !.pc = "asking", !.attempt = 1])
  /\ taken' = [taken EXCEPT ![w] = 0]
  /\ missed' = [missed EXCEPT ![w] = 0]
  /\ UNCHANGED <<dirty, abandoned, mark, trouble>>

\* The client throws, and runSweep lets the error fail the job.
Fail(w) == To(w, [runs[w] EXCEPT !.pc = "failed", !.held = {}])

\* The client retries a batch that had no answer; out of retries, it throws.
AskAgain(w) ==
  IF runs[w].attempt < MaxAttempts
  THEN To(w, [runs[w] EXCEPT !.pc = "asking", !.attempt = @ + 1, !.held = {}])
  ELSE Fail(w)

\* An attempt fails in a way that the client retries, or in one that it does not.
NoAnswer(w) == AskAgain(w) \/ Fail(w)

\* 501: the sweep ends without an error.
Unavailable(w) ==
  /\ runs[w].pc = "asking"
  /\ To(w, [runs[w] EXCEPT !.pc = "ended", !.reason = "capability_unavailable"])
  /\ UNCHANGED <<dirty, abandoned, mark, taken, missed, trouble>>

\* Mutant: a batch with errors is not added to the total.
AnswerDropsFailed(w, errors) ==
  LET r == runs[w] IN
  /\ r.pc = "working" /\ errors \subseteq r.held
  /\ errors # {} => Trouble
  /\ errors = {} => UNCHANGED trouble
  /\ dirty' = dirty \ (r.held \ errors)
  /\ To(w, [r EXCEPT !.pc = "marking", !.held = {}, !.claimed = Cardinality(r.held),
                     !.batches = @ + 1,
                     !.total = IF errors = {} THEN @ + Cardinality(r.held) ELSE @])
  /\ UNCHANGED <<abandoned, mark, taken, missed>>

\* MaluDB has processed a batch, some items with errors, and its answer arrives:
\* the totals grow and onBatch is called.
Answer(w, errors) ==
  LET r == runs[w] IN
  /\ r.pc = "working" /\ errors \subseteq r.held
  /\ errors # {} => Trouble
  /\ errors = {} => UNCHANGED trouble
  /\ dirty' = dirty \ (r.held \ errors)
  /\ To(w, [r EXCEPT !.pc = "marking", !.held = {}, !.claimed = Cardinality(r.held),
                     !.batches = @ + 1, !.total = @ + Cardinality(r.held)])
  /\ UNCHANGED <<abandoned, mark, taken, missed>>

\* Mutant: the index that the reason is derived from is taken after the increment.
AdvanceLate(w) ==
  LET r == runs[w] IN
  /\ r.pc = "marking"
  /\ mark' = r.index + 1
  /\ To(w, IF r.claimed = 0 \/ r.index + 1 = MaxBatches
           THEN [r EXCEPT !.pc = "ended", !.index = @ + 1,
                          !.reason = IF r.index + 1 = MaxBatches THEN "max_batches"
                                     ELSE "drained"]
           ELSE [r EXCEPT !.pc = "asking", !.attempt = 1, !.index = @ + 1])
  /\ UNCHANGED <<dirty, abandoned, taken, missed, trouble>>

\* Mutant: the loop has no cap, only the empty batch ends it.
AdvanceUncapped(w) ==
  LET r == runs[w] IN
  /\ r.pc = "marking"
  /\ mark' = r.index + 1
  /\ To(w, IF r.claimed = 0
           THEN [r EXCEPT !.pc = "ended", !.reason = "drained"]
           ELSE [r EXCEPT !.pc = "asking", !.attempt = 1])
  /\ UNCHANGED <<dirty, abandoned, taken, missed, trouble>>

\* Mutant: an empty batch makes the sweep wait for work.
AdvanceWaits(w) ==
  LET r == runs[w] IN
  /\ r.pc = "marking" /\ r.claimed > 0
  /\ mark' = r.index + 1
  /\ To(w, IF r.index + 1 < MaxBatches
           THEN [r EXCEPT !.pc = "asking", !.attempt = 1, !.index = @ + 1]
           ELSE [r EXCEPT !.pc = "ended", !.index = @ + 1, !.reason = "max_batches"])
  /\ UNCHANGED <<dirty, abandoned, taken, missed, trouble>>

\* setWatermark, then the end of the loop's body.
Advance(w) ==
  LET r == runs[w] IN
  /\ r.pc = "marking"
  /\ mark' = r.index + 1
  /\ \/ /\ r.claimed = 0
        /\ To(w, [r EXCEPT !.pc = "ended", !.reason = "drained"])
     \/ /\ r.claimed > 0 /\ r.index + 1 < MaxBatches
        /\ To(w, [r EXCEPT !.pc = "asking", !.attempt = 1, !.index = @ + 1])
     \/ /\ r.claimed > 0 /\ r.index + 1 = MaxBatches
        /\ To(w, [r EXCEPT !.pc = "ended", !.index = @ + 1, !.reason = "max_batches"])
  /\ UNCHANGED <<dirty, abandoned, taken, missed, trouble>>

\* setWatermark throws: the sweep fails after a batch that MaluDB did process.
MarkFails(w) ==
  /\ runs[w].pc = "marking"
  /\ Trouble
  /\ To(w, [runs[w] EXCEPT !.pc = "failed"])
  /\ UNCHANGED <<dirty, abandoned, mark, taken, missed>>

\* Mutant: the handler of a failed sweep never settles.
ReturnEndedOnly(w) ==
  /\ runs[w].pc = "ended"
  /\ To(w, Idle)
  /\ UNCHANGED <<dirty, abandoned, mark, taken, missed, trouble>>

\* The job's result, or its failure, is handed to runJob.
Return(w) ==
  /\ runs[w].pc \in {"ended", "failed"}
  /\ To(w, Idle)
  /\ UNCHANGED <<dirty, abandoned, mark, taken, missed, trouble>>

\* The worker dies; BullMQ delivers the job again.  A batch under way goes on.
Crash(w) ==
  /\ runs[w].pc \in {"asking", "working", "marking"}
  /\ Trouble
  /\ To(w, [Idle EXCEPT !.pc = "crashed"])
  /\ abandoned' = abandoned \cup runs[w].held
  /\ UNCHANGED <<dirty, mark, taken, missed>>

-----------------------------------------------------------------------------
(* MaluDB and the network.                                                  *)

\* A request arrives: as many free dirty items as the limit allows are locked.
Claim(w, items) ==
  /\ runs[w].pc = "asking"
  /\ Cardinality(items) <= Limit
  /\ Cardinality(items) = Limit \/ items = Free
  /\ To(w, [runs[w] EXCEPT !.pc = "working", !.held = items])
  /\ taken' = [taken EXCEPT ![w] = @ + Cardinality(items)]
  /\ UNCHANGED <<dirty, abandoned, mark, missed, trouble>>

\* A request is lost before it claims anything, or refused: for now, with a status
\* the client retries, or for good, with one it throws at once.
RequestFails(w) ==
  /\ runs[w].pc = "asking"
  /\ Trouble
  /\ NoAnswer(w)
  /\ UNCHANGED <<dirty, abandoned, mark, taken, missed>>

\* The client gives up waiting, or the answer is lost, and it asks again; or the body
\* of the answer breaks or is no JSON, which it does not.  MaluDB does not know.
AnswerLost(w) ==
  /\ runs[w].pc = "working"
  /\ Trouble
  /\ NoAnswer(w)
  /\ abandoned' = abandoned \cup runs[w].held
  /\ missed' = [missed EXCEPT ![w] = @ + Cardinality(runs[w].held)]
  /\ UNCHANGED <<dirty, mark, taken>>

\* An abandoned batch has dealt with an item, or has failed and unlocks it.
Release(i, done) ==
  /\ i \in abandoned
  /\ ~done => Trouble
  /\ done => UNCHANGED trouble
  /\ abandoned' = abandoned \ {i}
  /\ dirty' = IF done THEN dirty \ {i} ELSE dirty
  /\ UNCHANGED <<runs, mark, taken, missed>>

\* The tenant changes a document, a skill or a card.
Touch(i) ==
  /\ i \notin Held
  /\ IF Restless THEN UNCHANGED trouble ELSE Trouble
  /\ dirty' = dirty \cup {i}
  /\ UNCHANGED <<abandoned, runs, mark, taken, missed>>

-----------------------------------------------------------------------------
Step(w) == \/ \E items \in SUBSET Free : Claim(w, items)
           \/ \E errors \in SUBSET runs[w].held : Answer(w, errors)
           \/ Advance(w)
           \/ Return(w)

Next == \/ \E w \in Run : \/ Start(w) \/ Step(w) \/ Unavailable(w) \/ MarkFails(w)
                          \/ Crash(w) \/ RequestFails(w) \/ AnswerLost(w)
        \/ \E i \in Item : Touch(i) \/ \E done \in BOOLEAN : Release(i, done)

Spec == Init /\ [][Next]_vars

\* Jobs that are delivered run on, and MaluDB works its batches off.
RunFairness == /\ \A w \in Run : WF_vars(Step(w))
               /\ \A i \in Item : WF_vars(\E done \in BOOLEAN : Release(i, done))

FairSpec == Spec /\ RunFairness

\* Besides, the schedule fires again and again, and the endpoint is there: a
\* sweep is not skipped for ever.
ScheduledSpec == FairSpec /\ \A w \in Run : WF_vars(Start(w)) /\ SF_vars(\E items \in SUBSET Free : Claim(w, items))

-----------------------------------------------------------------------------
(* Properties.                                                              *)

RunState == [pc : {"idle", "asking", "working", "marking", "ended", "failed", "crashed"},
             index : 0 .. MaxBatches, attempt : 0 .. MaxAttempts, held : SUBSET Item,
             claimed : 0 .. Limit, batches : 0 .. MaxBatches, total : Nat,
             reason : {"none", "drained", "max_batches", "capability_unavailable"}]

\* Sweeps stay within their batches and attempts, and an item has one lock.
TypeOK ==
  /\ dirty \subseteq Item /\ abandoned \subseteq dirty
  /\ runs \in [Run -> RunState]
  /\ mark \in 0 .. MaxBatches
  /\ taken \in [Run -> Nat] /\ missed \in [Run -> Nat]
  /\ trouble \in 0 .. MaxTrouble
  /\ \A w \in Run : runs[w].held \subseteq dirty \ abandoned

\* A sweep's total is exact but for the batches it never had an answer to.
TotalsAreExact ==
  \A w \in Run : runs[w].pc \notin {"idle", "crashed"} =>
    taken[w] = runs[w].total + missed[w] + Cardinality(runs[w].held)

\* The reason a sweep gives for stopping is the reason: "drained" after an empty
\* batch (even if it is the last one allowed), "max_batches" after a full count of
\* batches that all had claims.
ReasonIsRight ==
  \A w \in Run : LET r == runs[w] IN
    /\ r.reason = "drained" => r.claimed = 0 /\ r.batches >= 1
    /\ r.reason = "max_batches" => r.batches = MaxBatches /\ r.claimed > 0
    /\ r.reason = "capability_unavailable" => r.batches < MaxBatches

\* A sweep ends, even if the tenant makes items dirty as fast as it drains them.
SweepsEnd == \A w \in Run : runs[w].pc = "asking" ~> runs[w].pc \in {"idle", "crashed"}

\* No item stays dirty: overlap, lost answers, crashes and item errors leave nothing
\* behind that a later sweep does not find.
EverythingIsSwept == \A i \in Item : i \in dirty ~> i \notin dirty
=============================================================================
