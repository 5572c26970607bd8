------------------------------ MODULE ScanBudget ------------------------------
(***************************************************************************)
(* Model spend of the scan workers against a tenant's daily cost controls. *)
(*                                                                         *)
(* A scan reads what the tenant has spent today once, before its loop, and *)
(* then compares that snapshot plus its own spend with the caps before     *)
(* each subject and each group.  Cost records are appended after each      *)
(* model call, under the database's current date.  Scans of a tenant       *)
(* overlap: the two scan types have queues of their own, each queue runs   *)
(* several jobs at once, and manual runs join scheduled ones.              *)
(*                                                                         *)
(* Abstractions.  Subjects and groups are counted, not named.  A subject   *)
(* of a consolidation scan is a group if it has enough related notes.  The *)
(* policy is fixed while the modelled scans run.                           *)
(***************************************************************************)
EXTENDS Integers, FiniteSets

CONSTANTS Scan,         \* the tenant's concurrent scan slots
          CallCap,      \* cost_controls.max_model_calls_per_day
          TokenCap,     \* cost_controls.max_tokens_per_day
          MaxTokens,    \* most tokens one model call uses
          MaxSubjects,  \* bound on the subjects MaluDB lists
          MaxGroups,    \* bound on the conflict groups of a subject
          MaxLost,      \* bound on the billed calls that failures leave unrecorded
          MaxDays       \* bound on the days

ASSUME CapAssumption == CallCap \in Nat /\ TokenCap \in Nat
ASSUME MaxTokensAssumption == MaxTokens \in Nat \ {0}
ASSUME BoundAssumption ==
  {MaxSubjects, MaxGroups, MaxLost, MaxDays} \subseteq Nat /\ MaxSubjects > 0

ASSUME ScanAssumption == IsFiniteSet(Scan)

VARIABLES
  day,         \* the database's CURRENT_DATE
  today,       \* cost_records: the sums for the current day
  by,          \* history: the part of today's sums that each slot recorded
  unrecorded,  \* history: calls the model vendor billed and no row records
  lost,        \* history: how many of those a failed or killed scan left behind
  scans        \* the scans' local variables

vars == <<day, today, by, unrecorded, lost, scans>>

Spend == [calls : Nat, tokens : Nat]
Nothing == [calls |-> 0, tokens |-> 0]
Plus(a, b) == [calls |-> a.calls + b.calls, tokens |-> a.tokens + b.tokens]
OneCall(tokens) == [calls |-> 1, tokens |-> tokens]

Kind == {"contradiction", "consolidation"}

Idle == [pc |-> "idle", kind |-> "contradiction", snapshot |-> Nothing,
         own |-> Nothing, cost |-> 0, subjects |-> 0, groups |-> 0]

Init == /\ day = 0
        /\ today = Nothing
        /\ by = [w \in Scan |-> Nothing]
        /\ unrecorded = 0
        /\ lost = 0
        /\ scans = [w \in Scan |-> Idle]

-----------------------------------------------------------------------------
\* Mutant: the cap is passed before the scan stops.
OverBudgetOffByOne(s) == \/ s.snapshot.calls + s.own.calls > CallCap
                         \/ s.snapshot.tokens + s.own.tokens >= TokenCap

\* overBudget(): the snapshot plus the scan's own spend reaches a cap.
OverBudget(s) == \/ s.snapshot.calls + s.own.calls >= CallCap
                 \/ s.snapshot.tokens + s.own.tokens >= TokenCap

\* Mutant: a scan is checked against its own spend alone.
NoSnapshot == Nothing

\* getDailyCost: the sums of the current day's cost records.
DailyCost == today

To(w, s) == scans' = [scans EXCEPT ![w] = s]

\* The policy allows the scan, the adapter exists, and the loop is entered.
\* The branches that skip the scan before this point change nothing here.
Start(w, kind, n) ==
  /\ scans[w].pc = "idle"
  /\ To(w, [Idle EXCEPT !.pc = "subjects", !.kind = kind,
                        !.snapshot = DailyCost, !.subjects = n])
  /\ UNCHANGED <<day, today, by, unrecorded, lost>>

Finish(w) == To(w, Idle)

\* Mutant: the same subject is taken again and again.
NextSubjectStuck(w, n) ==
  LET s == scans[w] IN
  /\ s.pc = "subjects"
  /\ IF s.subjects = 0 \/ OverBudget(s)
     THEN Finish(w)
     ELSE To(w, [s EXCEPT !.pc = "groups",
                          !.groups = IF s.kind = "contradiction" THEN n
                                     ELSE IF n = 0 THEN 0 ELSE 1])
  /\ UNCHANGED <<day, today, by, unrecorded, lost>>

\* Head of the subject loop; a scan out of budget, or of subjects, returns.
NextSubject(w, n) ==
  LET s == scans[w] IN
  /\ s.pc = "subjects"
  /\ IF s.subjects = 0 \/ OverBudget(s)
     THEN Finish(w)
     ELSE To(w, [s EXCEPT !.pc = "groups", !.subjects = @ - 1,
                          !.groups = IF s.kind = "contradiction" THEN n
                                     ELSE IF n = 0 THEN 0 ELSE 1])
  /\ UNCHANGED <<day, today, by, unrecorded, lost>>

\* Mutant: the group loop runs past the end of the list.
NextGroupUnguarded(w) ==
  LET s == scans[w] IN
  /\ s.pc = "groups"
  /\ To(w, IF OverBudget(s) THEN [s EXCEPT !.pc = "subjects", !.groups = 0]
           ELSE [s EXCEPT !.pc = "judging", !.groups = @ - 1])
  /\ UNCHANGED <<day, today, by, unrecorded, lost>>

\* Head of the group loop.  Out of budget, a contradiction scan breaks to the
\* subject loop, which stops for the same reason; a consolidation scan returns.
NextGroup(w) ==
  LET s == scans[w] IN
  /\ s.pc = "groups"
  /\ \/ /\ s.groups > 0
        /\ ~OverBudget(s)
        /\ To(w, [s EXCEPT !.pc = "judging", !.groups = @ - 1])
     \/ /\ s.groups = 0 \/ OverBudget(s)
        /\ To(w, [s EXCEPT !.pc = "subjects", !.groups = 0])
  /\ UNCHANGED <<day, today, by, unrecorded, lost>>

\* The model answers: the call is billed and counted, but not yet recorded.
Judge(w, tokens) ==
  LET s == scans[w] IN
  /\ s.pc = "judging"
  /\ To(w, [s EXCEPT !.pc = "recording", !.cost = tokens,
                     !.own = Plus(@, OneCall(tokens))])
  /\ unrecorded' = unrecorded + 1
  /\ UNCHANGED <<day, today, by, lost>>

\* Mutant: the cost is recorded only after the verdict filter's `continue'.
RecordFlaggedOnly(w, flagged) ==
  LET s == scans[w] IN
  /\ s.pc = "recording"
  /\ IF flagged
     THEN /\ today' = Plus(today, OneCall(s.cost))
          /\ by' = [by EXCEPT ![w] = Plus(@, OneCall(s.cost))]
          /\ unrecorded' = unrecorded - 1
     ELSE UNCHANGED <<today, by, unrecorded>>
  /\ To(w, [s EXCEPT !.pc = IF flagged THEN "flagging" ELSE "groups", !.cost = 0])
  /\ UNCHANGED <<day, lost>>

\* recordCost, then on to the next group or, if flagged, to the review item.
Record(w, flagged) ==
  LET s == scans[w] IN
  /\ s.pc = "recording"
  /\ today' = Plus(today, OneCall(s.cost))
  /\ by' = [by EXCEPT ![w] = Plus(@, OneCall(s.cost))]
  /\ unrecorded' = unrecorded - 1
  /\ To(w, [s EXCEPT !.pc = IF flagged THEN "flagging" ELSE "groups", !.cost = 0])
  /\ UNCHANGED <<day, lost>>

\* createReviewItem and, if enabled, the auto-resolve close.
Flag(w) ==
  /\ scans[w].pc = "flagging"
  /\ To(w, [scans[w] EXCEPT !.pc = "groups"])
  /\ UNCHANGED <<day, today, by, unrecorded, lost>>

-----------------------------------------------------------------------------
(* What ends a scan early.                                                  *)

\* The model call throws, perhaps after the vendor billed it: the error leaves
\* the handler and the whole scan fails.
ModelFails(w, billed) ==
  /\ scans[w].pc = "judging"
  /\ billed => lost < MaxLost
  /\ To(w, [scans[w] EXCEPT !.pc = "failed"])
  /\ unrecorded' = unrecorded + (IF billed THEN 1 ELSE 0)
  /\ lost' = lost + (IF billed THEN 1 ELSE 0)
  /\ UNCHANGED <<day, today, by>>

\* A database or MaluDB call throws, MaluDB answers 501, or the worker dies.
Abort(w) ==
  /\ scans[w].pc \notin {"idle", "failed"}
  /\ scans[w].pc = "recording" => lost < MaxLost
  /\ lost' = lost + (IF scans[w].pc = "recording" THEN 1 ELSE 0)
  /\ To(w, Idle)
  /\ UNCHANGED <<day, today, by, unrecorded>>

\* The failed run is recorded by the worker, which frees the slot.
Settle(w) ==
  /\ scans[w].pc = "failed"
  /\ To(w, Idle)
  /\ UNCHANGED <<day, today, by, unrecorded, lost>>

NewDay ==
  /\ day < MaxDays
  /\ day' = day + 1
  /\ today' = Nothing
  /\ by' = [w \in Scan |-> Nothing]
  /\ UNCHANGED <<unrecorded, lost, scans>>

-----------------------------------------------------------------------------
Step(w) == \/ \E n \in 0 .. MaxGroups : NextSubject(w, n)
           \/ NextGroup(w)
           \/ \E tokens \in 0 .. MaxTokens : Judge(w, tokens)
           \/ \E flagged \in BOOLEAN : Record(w, flagged)
           \/ Flag(w)
           \/ \E billed \in BOOLEAN : ModelFails(w, billed)
           \/ Settle(w)

Next == \/ \E w \in Scan : \/ \E k \in Kind, n \in 0 .. MaxSubjects : Start(w, k, n)
                           \/ Step(w)
                           \/ Abort(w)
        \/ NewDay

Spec == Init /\ [][Next]_vars

\* A scan that is not killed goes on: its awaits are answered or fail.
FairSpec == Spec /\ \A w \in Scan : WF_vars(Step(w))

-----------------------------------------------------------------------------
(* Properties.                                                              *)

ScanState == [pc : {"idle", "subjects", "groups", "judging", "recording",
                    "flagging", "failed"},
              kind : Kind, snapshot : Spend, own : Spend, cost : 0 .. MaxTokens,
              subjects : 0 .. MaxSubjects, groups : 0 .. (MaxGroups + 1)]

\* Sums and counters are naturals, scans have the shape of their loop.
TypeOK ==
  /\ day \in Nat
  /\ today \in Spend
  /\ by \in [Scan -> Spend]
  /\ unrecorded \in Nat
  /\ lost \in Nat
  /\ scans \in [Scan -> ScanState]

\* What holds of the caps however scans overlap: what one slot records in a day,
\* over all the scans it runs that day, is within the call cap and passes the
\* token cap by less than one call.
SlotWithinCaps ==
  \A w \in Scan : /\ by[w].calls <= CallCap
                  /\ by[w].tokens < TokenCap + MaxTokens

\* So n overlapping scans stay within n times the caps, and a scan that never
\* overlaps another within the caps themselves.
DayWithinCaps ==
  /\ today.calls <= Cardinality(Scan) * CallCap
  /\ today.tokens <= Cardinality(Scan) * (TokenCap + MaxTokens - 1)

\* The meter is exact: a billed call goes unrecorded only while its scan is about
\* to record it, or because its scan failed or was killed there.
MeterIsExact ==
  unrecorded = lost + Cardinality({w \in Scan : scans[w].pc = "recording"})

\* A scan that starts ends, whatever the model flags and however much is listed.
ScansEnd == \A w \in Scan : scans[w].pc # "idle" ~> scans[w].pc = "idle"
=============================================================================
