--------------------------- MODULE ScanBudgetProofs ---------------------------
(***************************************************************************)
(* Theorems about ScanBudget for any number of overlapping scans, any caps *)
(* and any cost per call.                                                  *)
(*                                                                         *)
(* SlotWithinCaps is not inductive: a slot may run many scans in a day, so *)
(* the argument compares what the slot recorded today with the snapshot    *)
(* and own spend of the scan it runs now.                                  *)
(***************************************************************************)
EXTENDS ScanBudget, FiniteSetTheorems, TLAPS

\* The part of TypeOK the caps depend on.
Typed == /\ today \in Spend
         /\ by \in [Scan -> Spend]
         /\ scans \in [Scan -> ScanState]

Active(w) == scans[w].pc \notin {"idle", "failed"}

\* Spent so far as the running scan of w sees it.
SeenCalls(w) == scans[w].snapshot.calls + scans[w].own.calls
SeenTokens(w) == scans[w].snapshot.tokens + scans[w].own.tokens

\* A slot's rows are among the day's rows.
RowsAreCounted ==
  \A w \in Scan : by[w].calls <= today.calls /\ by[w].tokens <= today.tokens

\* A running scan sees at least what its slot has recorded today, and the call it
\* is about to record as well.
SeesOwnSlot ==
  \A w \in Scan :
    /\ Active(w) => by[w].calls <= SeenCalls(w) /\ by[w].tokens <= SeenTokens(w)
    /\ scans[w].pc = "recording" => /\ by[w].calls + 1 <= SeenCalls(w)
                                    /\ by[w].tokens + scans[w].cost <= SeenTokens(w)

\* The loop's checks hold where they were made: below the caps when the model is
\* called, at most one call beyond when its cost is recorded.
Checked ==
  \A w \in Scan :
    /\ scans[w].pc = "judging" => SeenCalls(w) < CallCap /\ SeenTokens(w) < TokenCap
    /\ scans[w].pc = "recording" => /\ SeenCalls(w) <= CallCap
                                    /\ SeenTokens(w) < TokenCap + MaxTokens

IInv == Typed /\ RowsAreCounted /\ SeesOwnSlot /\ Checked /\ SlotWithinCaps

-----------------------------------------------------------------------------
LEMMA IdleType == Idle \in ScanState
  BY MaxTokensAssumption, BoundAssumption DEF Idle, ScanState, Kind, Spend, Nothing

LEMMA SpendType ==
  /\ Nothing \in Spend
  /\ \A a, b \in Spend : Plus(a, b) \in Spend
  /\ \A t \in 0 .. MaxTokens : OneCall(t) \in Spend
  BY MaxTokensAssumption DEF Spend, Nothing, Plus, OneCall

\* What a step of slot w leaves alone: the other scans, and the rows unless it
\* records.
LEMMA Others ==
  ASSUME Typed, NEW w \in Scan, NEW s, To(w, s)
  PROVE  scans'[w] = s /\ \A v \in Scan \ {w} : scans'[v] = scans[v]
  BY DEF Typed, To

\* A step that records nothing keeps the invariant if it keeps it for the scan
\* that moves.
LEMMA MoveOne ==
  ASSUME IInv, NEW w \in Scan, NEW s \in ScanState, To(w, s), UNCHANGED <<today, by>>,
         s.pc \notin {"idle", "failed"} =>
           /\ by[w].calls <= s.snapshot.calls + s.own.calls
           /\ by[w].tokens <= s.snapshot.tokens + s.own.tokens,
         s.pc = "recording" =>
           /\ by[w].calls + 1 <= s.snapshot.calls + s.own.calls
           /\ by[w].tokens + s.cost <= s.snapshot.tokens + s.own.tokens
           /\ s.snapshot.calls + s.own.calls <= CallCap
           /\ s.snapshot.tokens + s.own.tokens < TokenCap + MaxTokens,
         s.pc = "judging" =>
           /\ s.snapshot.calls + s.own.calls < CallCap
           /\ s.snapshot.tokens + s.own.tokens < TokenCap
  PROVE  IInv'
<1>1. Typed'
  BY DEF IInv, Typed, To
<1>2. scans'[w] = s /\ \A v \in Scan \ {w} : scans'[v] = scans[v]
  BY Others DEF IInv
<1>3. RowsAreCounted' /\ SlotWithinCaps'
  BY DEF IInv, RowsAreCounted, SlotWithinCaps
<1>4. SeesOwnSlot'
  BY <1>2 DEF IInv, SeesOwnSlot, Active, SeenCalls, SeenTokens
<1>5. Checked'
  BY <1>2 DEF IInv, Checked, SeenCalls, SeenTokens
<1> QED BY <1>1, <1>3, <1>4, <1>5 DEF IInv

LEMMA InitIInv == Init => IInv
<1> SUFFICES ASSUME Init PROVE IInv
  OBVIOUS
<1>1. Typed
  BY IdleType, SpendType DEF Init, Typed
<1>2. RowsAreCounted /\ SlotWithinCaps
  BY CapAssumption, MaxTokensAssumption DEF Init, RowsAreCounted, SlotWithinCaps, Nothing
<1>3. SeesOwnSlot /\ Checked
  BY DEF Init, SeesOwnSlot, Checked, Active, Idle
<1> QED BY <1>1, <1>2, <1>3 DEF IInv

LEMMA NextIInv == IInv /\ [Next]_vars => IInv'
<1> SUFFICES ASSUME IInv, [Next]_vars PROVE IInv'
  OBVIOUS
<1>0. /\ \A w \in Scan : scans[w] \in ScanState /\ by[w] \in Spend
      /\ today \in Spend
  BY DEF IInv, Typed
\* A scan starts from today's sums, which include what its slot recorded.
<1>1. ASSUME NEW w \in Scan, NEW k \in Kind, NEW n \in 0 .. MaxSubjects, Start(w, k, n)
      PROVE  IInv'
  <2> DEFINE s == [Idle EXCEPT !.pc = "subjects", !.kind = k,
                               !.snapshot = DailyCost, !.subjects = n]
  <2>1. s \in ScanState
    BY <1>0, IdleType DEF ScanState, DailyCost
  <2>2. s.pc = "subjects" /\ s.snapshot = today /\ s.own = Nothing
    BY DEF Idle, DailyCost
  <2>3. by[w].calls <= today.calls /\ by[w].tokens <= today.tokens
    BY DEF IInv, RowsAreCounted
  <2>4. /\ s.snapshot.calls + s.own.calls = today.calls
        /\ s.snapshot.tokens + s.own.tokens = today.tokens
    BY <1>0, <2>2 DEF Nothing, Spend
  <2> QED BY <1>1, <2>1, <2>2, <2>3, <2>4, MoveOne DEF Start
<1>2. ASSUME NEW w \in Scan, NEW s \in ScanState, To(w, s), UNCHANGED <<today, by>>,
             s.pc \in {"idle", "failed"}
      PROVE  IInv'
  BY <1>2, MoveOne
\* A step of the loop that spends nothing.
<1>3. ASSUME NEW w \in Scan, NEW s \in ScanState, To(w, s), UNCHANGED <<today, by>>,
             Active(w), scans[w].pc # "recording",
             s.pc \in {"subjects", "groups"} \/ (s.pc = "judging" /\ ~OverBudget(scans[w])),
             s.snapshot = scans[w].snapshot, s.own = scans[w].own
      PROVE  IInv'
  <2>1. /\ by[w].calls <= s.snapshot.calls + s.own.calls
        /\ by[w].tokens <= s.snapshot.tokens + s.own.tokens
    BY <1>3 DEF IInv, SeesOwnSlot, SeenCalls, SeenTokens
  <2>2. s.pc = "judging" =>
          /\ s.snapshot.calls + s.own.calls < CallCap
          /\ s.snapshot.tokens + s.own.tokens < TokenCap
    BY <1>0, <1>3, CapAssumption DEF OverBudget, ScanState, Spend
  <2> QED BY <1>3, <2>1, <2>2, MoveOne
<1>4. ASSUME NEW w \in Scan, NEW n \in 0 .. MaxGroups, NextSubject(w, n)
      PROVE  IInv'
  <2>1. CASE To(w, Idle)
    BY <1>2, <1>4, <2>1, IdleType DEF NextSubject, Idle
  <2> DEFINE g == IF scans[w].kind = "contradiction" THEN n ELSE IF n = 0 THEN 0 ELSE 1
             s == [scans[w] EXCEPT !.pc = "groups", !.subjects = @ - 1, !.groups = g]
  <2>2. CASE scans[w].subjects # 0 /\ To(w, s)
    <3>1. g \in 0 .. (MaxGroups + 1)
      BY BoundAssumption
    <3>2. scans[w].subjects - 1 \in 0 .. MaxSubjects
      BY <1>0, <2>2, BoundAssumption DEF ScanState
    <3>3. s \in ScanState /\ s.pc = "groups" /\ s.snapshot = scans[w].snapshot
          /\ s.own = scans[w].own
      BY <1>0, <3>1, <3>2 DEF ScanState
    <3> QED BY <1>3, <1>4, <2>2, <3>3 DEF NextSubject, Active
  <2> QED BY <1>4, <2>1, <2>2 DEF NextSubject, Finish
<1>5. ASSUME NEW w \in Scan, NextGroup(w)
      PROVE  IInv'
  <2> DEFINE s1 == [scans[w] EXCEPT !.pc = "judging", !.groups = @ - 1]
             s2 == [scans[w] EXCEPT !.pc = "subjects", !.groups = 0]
  <2>1. CASE scans[w].groups > 0 /\ ~OverBudget(scans[w]) /\ To(w, s1)
    <3>1. scans[w].groups - 1 \in 0 .. (MaxGroups + 1)
      BY <1>0, <2>1, BoundAssumption DEF ScanState
    <3>2. s1 \in ScanState /\ s1.pc = "judging" /\ s1.snapshot = scans[w].snapshot
          /\ s1.own = scans[w].own
      BY <1>0, <3>1 DEF ScanState
    <3> QED BY <1>3, <1>5, <2>1, <3>2 DEF NextGroup, Active
  <2>2. CASE To(w, s2)
    <3>0. 0 \in 0 .. (MaxGroups + 1) /\ scans[w] \in ScanState
      BY <1>0, BoundAssumption
    <3>1. s2 \in ScanState /\ s2.pc = "subjects" /\ s2.snapshot = scans[w].snapshot
          /\ s2.own = scans[w].own
      BY <3>0 DEF ScanState
    <3> QED BY <1>3, <1>5, <2>2, <3>1 DEF NextGroup, Active
  <2> QED BY <1>5, <2>1, <2>2 DEF NextGroup
\* The checked call passes the caps by at most itself.
<1>6. ASSUME NEW w \in Scan, NEW t \in 0 .. MaxTokens, Judge(w, t)
      PROVE  IInv'
  <2> DEFINE own2 == Plus(scans[w].own, OneCall(t))
             s == [scans[w] EXCEPT !.pc = "recording", !.cost = t, !.own = own2]
  <2>1. scans[w].own \in Spend /\ scans[w].snapshot \in Spend
    BY <1>0 DEF ScanState
  <2>2. /\ own2 \in Spend
        /\ own2.calls = scans[w].own.calls + 1
        /\ own2.tokens = scans[w].own.tokens + t
    BY <2>1, SpendType DEF Plus, OneCall
  <2>3. /\ s \in ScanState /\ s.pc = "recording" /\ s.snapshot = scans[w].snapshot
        /\ s.own = own2 /\ s.cost = t
    BY <1>0, <2>2 DEF ScanState
  <2>4. /\ by[w].calls <= SeenCalls(w) /\ by[w].tokens <= SeenTokens(w)
        /\ SeenCalls(w) < CallCap /\ SeenTokens(w) < TokenCap
    BY <1>6 DEF Judge, IInv, SeesOwnSlot, Checked, Active
  <2>5. by[w].calls \in Nat /\ by[w].tokens \in Nat
    BY <1>0 DEF Spend
  <2>6. /\ s.snapshot.calls + s.own.calls = SeenCalls(w) + 1
        /\ s.snapshot.tokens + s.own.tokens = SeenTokens(w) + t
        /\ SeenCalls(w) \in Nat /\ SeenTokens(w) \in Nat
    BY <2>1, <2>2, <2>3 DEF SeenCalls, SeenTokens, Spend
  <2>7. To(w, s) /\ UNCHANGED <<today, by>>
    BY <1>6 DEF Judge
  <2> HIDE DEF s, own2
  <2> QED BY <2>3, <2>4, <2>5, <2>6, <2>7, MoveOne, CapAssumption, MaxTokensAssumption
\* The recorded call was seen, so the slot's rows stay within what was checked.
<1>7. ASSUME NEW w \in Scan, NEW flagged \in BOOLEAN, Record(w, flagged)
      PROVE  IInv'
  <2> DEFINE pc2 == IF flagged THEN "flagging" ELSE "groups"
             s == [scans[w] EXCEPT !.pc = pc2, !.cost = 0]
             c == scans[w].cost
  <2>1. c \in 0 .. MaxTokens /\ OneCall(c) \in Spend
    BY <1>0, SpendType DEF ScanState
  <2>2. s \in ScanState /\ s.pc \in {"flagging", "groups"}
        /\ s.snapshot = scans[w].snapshot /\ s.own = scans[w].own
    <3>1. pc2 \in {"flagging", "groups"}
      OBVIOUS
    <3>2. 0 \in 0 .. MaxTokens /\ scans[w] \in ScanState
      BY <1>0, MaxTokensAssumption
    <3> HIDE DEF pc2
    <3> QED BY <3>1, <3>2 DEF ScanState
  <2>3. scans'[w] = s /\ \A v \in Scan \ {w} : scans'[v] = scans[v]
    BY <1>7, Others DEF Record, IInv
  <2>4. /\ by'[w] = Plus(by[w], OneCall(c))
        /\ \A v \in Scan \ {w} : by'[v] = by[v]
        /\ today' = Plus(today, OneCall(c))
    BY <1>7 DEF Record, IInv, Typed
  <2>5. Typed'
    <3>1. today' \in Spend /\ Plus(by[w], OneCall(c)) \in Spend
      BY <1>0, <2>1, <2>4, SpendType
    <3> QED BY <1>7, <2>2, <3>1 DEF Record, To, IInv, Typed
  <2>6. /\ by'[w].calls = by[w].calls + 1 /\ by'[w].tokens = by[w].tokens + c
        /\ today'.calls = today.calls + 1 /\ today'.tokens = today.tokens + c
    BY <2>4 DEF Plus, OneCall
  <2>7. RowsAreCounted'
    BY <1>0, <2>1, <2>4, <2>6, MaxTokensAssumption DEF IInv, RowsAreCounted, Spend
  <2>8. /\ by[w].calls + 1 <= SeenCalls(w) /\ by[w].tokens + c <= SeenTokens(w)
        /\ SeenCalls(w) <= CallCap /\ SeenTokens(w) < TokenCap + MaxTokens
        /\ SeenCalls(w) \in Nat /\ SeenTokens(w) \in Nat
    BY <1>0, <1>7 DEF Record, IInv, SeesOwnSlot, Checked, SeenCalls, SeenTokens,
                      ScanState, Spend
  <2>9. SlotWithinCaps'
    BY <1>0, <2>1, <2>4, <2>6, <2>8, CapAssumption, MaxTokensAssumption
       DEF IInv, SlotWithinCaps, Spend
  <2> HIDE DEF s
  <2>10. SeesOwnSlot'
    BY <2>2, <2>3, <2>4, <2>6, <2>8 DEF IInv, SeesOwnSlot, SeenCalls, SeenTokens, Active
  <2>11. Checked'
    BY <2>2, <2>3 DEF IInv, Checked, SeenCalls, SeenTokens
  <2> QED BY <2>5, <2>7, <2>9, <2>10, <2>11 DEF IInv
<1>8. ASSUME NEW w \in Scan, Flag(w)
      PROVE  IInv'
  <2> DEFINE s == [scans[w] EXCEPT !.pc = "groups"]
  <2>1. s \in ScanState /\ s.pc = "groups" /\ s.snapshot = scans[w].snapshot
        /\ s.own = scans[w].own
    BY <1>0 DEF ScanState
  <2> QED BY <1>3, <1>8, <2>1 DEF Flag, Active
<1>9. ASSUME NEW w \in Scan, NEW billed \in BOOLEAN, ModelFails(w, billed)
      PROVE  IInv'
  <2> DEFINE s == [scans[w] EXCEPT !.pc = "failed"]
  <2>1. s \in ScanState /\ s.pc = "failed"
    BY <1>0 DEF ScanState
  <2> QED BY <1>2, <1>9, <2>1 DEF ModelFails
<1>10. ASSUME NEW w \in Scan, Abort(w) \/ Settle(w)
       PROVE  IInv'
  BY <1>2, <1>10, IdleType DEF Abort, Settle, Idle
\* A new day starts the sums again and leaves the running scans' snapshots alone.
<1>11. CASE NewDay
  <2>1. /\ \A w \in Scan : by'[w] = Nothing
        /\ today' = Nothing /\ UNCHANGED scans
    BY <1>11 DEF NewDay
  <2>2. Typed'
    BY <1>11, SpendType DEF NewDay, IInv, Typed
  <2>3. RowsAreCounted' /\ SlotWithinCaps'
    BY <2>1, CapAssumption, MaxTokensAssumption DEF RowsAreCounted, SlotWithinCaps, Nothing
  <2>4. \A w \in Scan : SeenCalls(w) \in Nat /\ SeenTokens(w) \in Nat
    BY <1>0 DEF SeenCalls, SeenTokens, ScanState, Spend
  <2>5. SeesOwnSlot'
    <3> SUFFICES ASSUME NEW w \in Scan
                 PROVE /\ Active(w) => 0 <= SeenCalls(w) /\ 0 <= SeenTokens(w)
                       /\ scans[w].pc = "recording" => /\ 0 + 1 <= SeenCalls(w)
                                                       /\ 0 + scans[w].cost <= SeenTokens(w)
      BY <2>1 DEF SeesOwnSlot, SeenCalls, SeenTokens, Active, Nothing
    <3>1. by[w].calls \in Nat /\ by[w].tokens \in Nat /\ scans[w].cost \in Int
      BY <1>0, MaxTokensAssumption DEF Spend, ScanState
    <3> QED BY <2>4, <3>1 DEF IInv, SeesOwnSlot
  <2>6. Checked'
    BY <2>1 DEF IInv, Checked, SeenCalls, SeenTokens
  <2> QED BY <2>2, <2>3, <2>5, <2>6 DEF IInv
<1>12. CASE UNCHANGED vars
  BY <1>12 DEF vars, IInv, Typed, RowsAreCounted, SeesOwnSlot, Checked, SlotWithinCaps,
               Active, SeenCalls, SeenTokens
<1> QED
  BY <1>1, <1>4, <1>5, <1>6, <1>7, <1>8, <1>9, <1>10, <1>11, <1>12 DEF Next, Step

\* In one day the scans of one slot record at most the call cap, and pass the token
\* cap by less than one call, however the scans of other slots interleave.
THEOREM SlotsStayWithinCaps == Spec => []SlotWithinCaps
<1>1. IInv => SlotWithinCaps
  BY DEF IInv
<1> QED BY <1>1, InitIInv, NextIInv, PTL DEF Spec

LEMMA Invariance == Spec => []IInv
  BY InitIInv, NextIInv, PTL DEF Spec

-----------------------------------------------------------------------------
(* The day's sums. *)

\* The units the slots of c recorded, one by one: an element for each slot and each
\* number up to what the slot recorded.  A sum over slots is the number of them.
Units(c) == {x \in Scan \X (Nat \ {0}) : x[2] <= c[x[1]]}

Calls == [w \in Scan |-> by[w].calls]
Tokens == [w \in Scan |-> by[w].tokens]

\* The day's sums are the sums of what its slots recorded.
Summed == /\ IsFiniteSet(Units(Calls)) /\ today.calls = Cardinality(Units(Calls))
          /\ IsFiniteSet(Units(Tokens)) /\ today.tokens = Cardinality(Units(Tokens))

\* What one slot adds is added to the sum.
LEMMA UnitsGrow ==
  ASSUME NEW c \in [Scan -> Nat], IsFiniteSet(Units(c)), NEW w \in Scan, NEW d \in Nat,
         NEW e \in [Scan -> Nat], e[w] = c[w] + d, \A v \in Scan \ {w} : e[v] = c[v]
  PROVE  /\ IsFiniteSet(Units(e))
         /\ Cardinality(Units(e)) = Cardinality(Units(c)) + d
<1> DEFINE I == (c[w] + 1) .. (c[w] + d)
           New == {w} \X I
<1>0. c[w] \in Nat
  OBVIOUS
<1>1. IsFiniteSet(I) /\ Cardinality(I) = d
  <2>1. c[w] + 1 \in Int /\ c[w] + d \in Int
    BY <1>0
  <2>2. /\ IsFiniteSet(I)
        /\ Cardinality(I) = IF c[w] + 1 > c[w] + d THEN 0 ELSE (c[w] + d) - (c[w] + 1) + 1
    BY <2>1, FS_Interval
  <2> HIDE DEF I
  <2> QED BY <1>0, <2>2
<1>2. IsFiniteSet(New) /\ Cardinality(New) = d
  <2>1. IsFiniteSet({w}) /\ Cardinality({w}) = 1
    BY FS_Singleton
  <2> HIDE DEF I
  <2>2. IsFiniteSet(New) /\ Cardinality(New) = 1 * d
    BY <1>1, <2>1, FS_Product
  <2> QED BY <2>2
<1>3. Units(e) = Units(c) \cup New
  <2>1. ASSUME NEW x \in Units(e) PROVE x \in Units(c) \cup New
    <3>1. x \in Scan \X (Nat \ {0}) /\ x[2] <= e[x[1]] /\ x = <<x[1], x[2]>>
      BY DEF Units
    <3>2. CASE x[1] = w
      BY <1>0, <3>1, <3>2 DEF Units
    <3>3. CASE x[1] # w
      BY <3>1, <3>3 DEF Units
    <3> QED BY <3>2, <3>3
  <2>2. ASSUME NEW x \in Units(c) PROVE x \in Units(e)
    <3>1. x \in Scan \X (Nat \ {0}) /\ x[2] <= c[x[1]]
      BY DEF Units
    <3>2. c[x[1]] <= e[x[1]] /\ c[x[1]] \in Nat /\ e[x[1]] \in Nat /\ x[2] \in Nat
      BY <1>0, <3>1
    <3> QED BY <3>1, <3>2 DEF Units
  <2>3. ASSUME NEW x \in New PROVE x \in Units(e)
    BY <1>0 DEF Units
  <2> QED BY <2>1, <2>2, <2>3
<1>4. Units(c) \cap New = {}
  BY <1>0 DEF Units
<1>5. Cardinality(Units(c) \cap New) = 0
  BY <1>4, FS_EmptySet
<1>6. Cardinality(Units(c)) \in Nat
  BY FS_CardinalityType
<1> HIDE DEF New
<1>7. /\ IsFiniteSet(Units(e))
      /\ Cardinality(Units(e)) =
           Cardinality(Units(c)) + Cardinality(New) - Cardinality(Units(c) \cap New)
  BY <1>2, <1>3, FS_Union
<1> QED BY <1>2, <1>5, <1>6, <1>7

\* n slots of at most b units each recorded at most n times b.
LEMMA UnitsBounded ==
  ASSUME NEW c \in [Scan -> Nat], NEW b \in Nat, \A w \in Scan : c[w] <= b
  PROVE  Cardinality(Units(c)) <= Cardinality(Scan) * b
<1>1. IsFiniteSet(1 .. b) /\ Cardinality(1 .. b) = b
  BY FS_Interval
<1>2. /\ IsFiniteSet(Scan \X (1 .. b))
      /\ Cardinality(Scan \X (1 .. b)) = Cardinality(Scan) * b
  BY <1>1, ScanAssumption, FS_Product
<1>3. Units(c) \subseteq Scan \X (1 .. b)
  <2> SUFFICES ASSUME NEW x \in Units(c) PROVE x \in Scan \X (1 .. b)
    OBVIOUS
  <2>1. x \in Scan \X (Nat \ {0}) /\ x[2] <= c[x[1]] /\ c[x[1]] <= b /\ c[x[1]] \in Nat
    BY DEF Units
  <2>2. x[2] \in 1 .. b
    BY <2>1
  <2> QED BY <2>1, <2>2
<1> QED BY <1>2, <1>3, FS_Subset

\* No slot has recorded anything yet.
LEMMA NothingSummed ==
  ASSUME by = [w \in Scan |-> Nothing], today = Nothing
  PROVE  Summed
<1>1. Units(Calls) = {} /\ Units(Tokens) = {}
  BY DEF Units, Calls, Tokens, Nothing
<1> QED BY <1>1, FS_EmptySet DEF Summed, Nothing

LEMMA NextSummed == Typed /\ Summed /\ [Next]_vars => Summed'
<1> SUFFICES ASSUME Typed, Summed, [Next]_vars PROVE Summed'
  OBVIOUS
<1>1. ASSUME NEW w \in Scan, NEW flagged \in BOOLEAN, Record(w, flagged)
      PROVE  Summed'
  <2> DEFINE cost == scans[w].cost
  <2>1. cost \in Nat
    BY MaxTokensAssumption DEF Typed, ScanState
  <2>2. /\ by'[w] = Plus(by[w], OneCall(cost))
        /\ \A v \in Scan \ {w} : by'[v] = by[v]
        /\ today' = Plus(today, OneCall(cost))
    BY <1>1 DEF Record, Typed
  <2>3. \A v \in Scan : by[v].calls \in Nat /\ by[v].tokens \in Nat
    BY DEF Typed, Spend
  <2>4. /\ Calls \in [Scan -> Nat] /\ Calls' \in [Scan -> Nat]
        /\ Tokens \in [Scan -> Nat] /\ Tokens' \in [Scan -> Nat]
    BY <2>1, <2>2, <2>3 DEF Calls, Tokens, Plus, OneCall
  <2>5. /\ Calls'[w] = Calls[w] + 1 /\ \A v \in Scan \ {w} : Calls'[v] = Calls[v]
        /\ Tokens'[w] = Tokens[w] + cost /\ \A v \in Scan \ {w} : Tokens'[v] = Tokens[v]
    BY <2>2 DEF Calls, Tokens, Plus, OneCall
  <2>6. IsFiniteSet(Units(Calls')) /\ Cardinality(Units(Calls')) = Cardinality(Units(Calls)) + 1
    BY <2>4, <2>5, UnitsGrow DEF Summed
  <2>7. /\ IsFiniteSet(Units(Tokens'))
        /\ Cardinality(Units(Tokens')) = Cardinality(Units(Tokens)) + cost
    <3> HIDE DEF cost
    <3> QED BY <2>1, <2>4, <2>5, UnitsGrow DEF Summed
  <2>8. Units(Calls)' = Units(Calls') /\ Units(Tokens)' = Units(Tokens')
    BY DEF Units
  <2> QED BY <2>2, <2>6, <2>7, <2>8 DEF Summed, Plus, OneCall
<1>2. CASE NewDay
  <2>1. (by = [w \in Scan |-> Nothing])' /\ (today = Nothing)'
    BY <1>2 DEF NewDay
  <2>2. Units(Calls)' = {} /\ Units(Tokens)' = {}
    BY <2>1 DEF Units, Calls, Tokens, Nothing
  <2> QED BY <2>1, <2>2, FS_EmptySet DEF Summed, Nothing
<1>3. CASE UNCHANGED <<today, by>>
  BY <1>3 DEF Summed, Units, Calls, Tokens
<1> QED
  BY <1>1, <1>2, <1>3 DEF Next, Step, Start, NextSubject, NextGroup, Judge, Flag,
     ModelFails, Settle, Abort, vars

LEMMA SummedWithinCaps == IInv /\ Summed => DayWithinCaps
<1> SUFFICES ASSUME IInv, Summed PROVE DayWithinCaps
  OBVIOUS
<1>1. Calls \in [Scan -> Nat] /\ Tokens \in [Scan -> Nat]
  BY DEF IInv, Typed, Spend, Calls, Tokens
<1>2. \A w \in Scan : Calls[w] <= CallCap
  BY DEF IInv, SlotWithinCaps, Calls
<1>3. \A w \in Scan : Tokens[w] <= TokenCap + MaxTokens - 1
  BY <1>1, CapAssumption, MaxTokensAssumption DEF IInv, SlotWithinCaps, Tokens
<1>4. CallCap \in Nat /\ TokenCap + MaxTokens - 1 \in Nat
  BY CapAssumption, MaxTokensAssumption
<1> QED BY <1>1, <1>2, <1>3, <1>4, UnitsBounded DEF Summed, DayWithinCaps

\* However the scans of a tenant overlap, a day's records stay within the caps times
\* the number of slots, but for the tokens of one call of each: with one slot, within
\* the caps themselves but for the tokens of the last call.
THEOREM DaysStayWithinCaps == Spec => []DayWithinCaps
<1>1. IInv => Typed
  BY DEF IInv
<1>2. Init => Summed
  BY NothingSummed DEF Init
<1> QED BY <1>1, <1>2, Invariance, NextSummed, SummedWithinCaps, PTL DEF Spec

-----------------------------------------------------------------------------
(* The meter. *)

Recording == {w \in Scan : scans[w].pc = "recording"}

Metered == /\ day \in Nat /\ lost \in Nat /\ unrecorded \in Int
           /\ MeterIsExact

\* A step of a scan that neither starts nor stops recording.
Quiet(w) ==
  /\ \E s : To(w, s) /\ s.pc # "recording"
  /\ scans[w].pc # "recording"
  /\ UNCHANGED <<day, lost, unrecorded>>

\* One scan moves: who is recording changes with its program counter alone.
LEMMA RecordingMoves ==
  ASSUME Typed, NEW w \in Scan, NEW s, To(w, s)
  PROVE  Recording' = IF s.pc = "recording" THEN Recording \cup {w} ELSE Recording \ {w}
<1>1. scans'[w] = s /\ \A v \in Scan \ {w} : scans'[v] = scans[v]
  BY Others
<1> QED BY <1>1 DEF Recording

LEMMA RecordingCount ==
  /\ IsFiniteSet(Recording)
  /\ Cardinality(Recording) \in Nat
  /\ \A w \in Scan \ Recording : Cardinality(Recording \cup {w}) = Cardinality(Recording) + 1
  /\ \A w \in Recording : Cardinality(Recording \ {w}) = Cardinality(Recording) - 1
<1>1. IsFiniteSet(Recording)
  BY ScanAssumption, FS_Subset DEF Recording
<1> QED BY <1>1, FS_CardinalityType, FS_AddElement, FS_RemoveElement

LEMMA InitMetered == Init => Metered
<1> SUFFICES ASSUME Init PROVE Metered
  OBVIOUS
<1>1. {w \in Scan : scans[w].pc = "recording"} = {}
  BY DEF Init, Idle
<1> QED BY <1>1, FS_EmptySet DEF Init, Metered, MeterIsExact

LEMMA NextMetered == Typed /\ Metered /\ [Next]_vars => Metered'
<1> SUFFICES ASSUME Typed, Metered, [Next]_vars PROVE Metered'
  OBVIOUS
<1> USE DEF Metered
<1>0. MeterIsExact <=> unrecorded = lost + Cardinality(Recording)
  BY DEF MeterIsExact, Recording
<1>00. MeterIsExact' <=> unrecorded' = lost' + Cardinality(Recording')
  BY DEF MeterIsExact, Recording
\* A call is billed: its scan joins those that are about to record one.
<1>1. ASSUME NEW w \in Scan, NEW t \in 0 .. MaxTokens, Judge(w, t)
      PROVE  Metered'
  <2>1. Recording' = Recording \cup {w} /\ w \notin Recording
    <3> DEFINE s == [scans[w] EXCEPT !.pc = "recording", !.cost = t,
                                     !.own = Plus(@, OneCall(t))]
    <3>1. To(w, s) /\ w \notin Recording
      BY <1>1 DEF Judge, Recording
    <3>2. scans[w] \in ScanState
      BY DEF Typed
    <3>3. s.pc = "recording"
      BY <3>2 DEF ScanState
    <3> QED BY <3>1, <3>3, RecordingMoves
  <2> QED BY <1>0, <1>00, <1>1, <2>1, RecordingCount DEF Judge
\* A call is recorded: its scan leaves them.
<1>2. ASSUME NEW w \in Scan, NEW flagged \in BOOLEAN, Record(w, flagged)
      PROVE  Metered'
  <2>1. Recording' = Recording \ {w} /\ w \in Recording
    <3> DEFINE pc2 == IF flagged THEN "flagging" ELSE "groups"
               s == [scans[w] EXCEPT !.pc = pc2, !.cost = 0]
    <3>1. To(w, s) /\ w \in Recording
      BY <1>2 DEF Record, Recording
    <3>2. scans[w] \in ScanState
      BY DEF Typed
    <3>3. s.pc = pc2 /\ pc2 # "recording"
      BY <3>2 DEF ScanState
    <3> QED BY <3>1, <3>3, RecordingMoves
  <2> QED BY <1>0, <1>00, <1>2, <2>1, RecordingCount DEF Record
\* A scan dies: if it was about to record a call, the call is lost.
<1>3. ASSUME NEW w \in Scan, Abort(w)
      PROVE  Metered'
  <2>1. Recording' = Recording \ {w}
    BY <1>3, RecordingMoves DEF Abort, Idle
  <2>2. CASE scans[w].pc = "recording"
    <3>1. w \in Recording
      BY <2>2 DEF Recording
    <3> QED BY <1>0, <1>00, <1>3, <2>1, <2>2, <3>1, RecordingCount DEF Abort
  <2>3. CASE scans[w].pc # "recording"
    <3>1. Recording' = Recording
      BY <2>1, <2>3 DEF Recording
    <3> QED BY <1>0, <1>00, <1>3, <2>3, <3>1 DEF Abort
  <2> QED BY <2>2, <2>3
\* The model call fails, billed or not.
<1>4. ASSUME NEW w \in Scan, NEW billed \in BOOLEAN, ModelFails(w, billed)
      PROVE  Metered'
  <2>1. Recording' = Recording
    <3>1. scans[w] \in ScanState /\ w \notin Recording
      BY <1>4 DEF Typed, ModelFails, Recording
    <3>2. [scans[w] EXCEPT !.pc = "failed"].pc # "recording"
      BY <3>1 DEF ScanState
    <3> QED BY <1>4, <3>1, <3>2, RecordingMoves DEF ModelFails
  <2> QED BY <1>0, <1>00, <1>4, <2>1, RecordingCount DEF ModelFails
\* Any other step of a scan is from and to a place where it records nothing.
<1>5. ASSUME NEW w \in Scan, Quiet(w)
      PROVE  Metered'
  <2>1. Recording' = Recording
    BY <1>5, RecordingMoves DEF Quiet, Recording
  <2> QED BY <1>0, <1>00, <1>5, <2>1 DEF Quiet
<1>6. ASSUME NEW w \in Scan,
             \/ \E k \in Kind, n \in 0 .. MaxSubjects : Start(w, k, n)
             \/ \E n \in 0 .. MaxGroups : NextSubject(w, n)
             \/ NextGroup(w) \/ Flag(w) \/ Settle(w)
      PROVE  Quiet(w)
  <2>0. scans[w] \in ScanState
    BY DEF Typed
  <2>1. ASSUME NEW k \in Kind, NEW n \in 0 .. MaxSubjects, Start(w, k, n)
        PROVE  Quiet(w)
    <3> DEFINE s == [Idle EXCEPT !.pc = "subjects", !.kind = k,
                                 !.snapshot = DailyCost, !.subjects = n]
    <3>1. To(w, s) /\ scans[w].pc # "recording"
      BY <2>1 DEF Start
    <3>2. s.pc # "recording"
      BY DEF Idle
    <3> HIDE DEF s
    <3> QED BY <2>1, <3>1, <3>2 DEF Quiet, Start
  <2>2. ASSUME NEW n \in 0 .. MaxGroups, NextSubject(w, n)
        PROVE  Quiet(w)
    <3> DEFINE g == IF scans[w].kind = "contradiction" THEN n
                    ELSE IF n = 0 THEN 0 ELSE 1
               s == [scans[w] EXCEPT !.pc = "groups", !.subjects = @ - 1,
                                     !.groups = g]
    <3>1. scans[w].pc # "recording" /\ (To(w, Idle) \/ To(w, s))
      BY <2>2 DEF NextSubject, Finish
    <3>2. Idle.pc # "recording"
      BY DEF Idle
    <3> HIDE DEF g
    <3>3. s.pc # "recording"
      BY <2>0 DEF ScanState
    <3> HIDE DEF s
    <3> QED BY <2>2, <3>1, <3>2, <3>3 DEF Quiet, NextSubject
  <2>3. CASE NextGroup(w)
    <3> DEFINE judging  == [scans[w] EXCEPT !.pc = "judging", !.groups = @ - 1]
               subjects == [scans[w] EXCEPT !.pc = "subjects", !.groups = 0]
    <3>1. scans[w].pc # "recording" /\ (To(w, judging) \/ To(w, subjects))
      BY <2>3 DEF NextGroup
    <3>2. judging.pc # "recording" /\ subjects.pc # "recording"
      BY <2>0 DEF ScanState
    <3> HIDE DEF judging, subjects
    <3> QED BY <2>3, <3>1, <3>2 DEF Quiet, NextGroup
  <2>4. CASE Flag(w) \/ Settle(w)
    BY <2>0, <2>4 DEF Quiet, Flag, Settle, Idle, ScanState
  <2> QED BY <1>6, <2>1, <2>2, <2>3, <2>4
<1>7. CASE NewDay
  <2>1. Recording' = Recording
    BY <1>7 DEF NewDay, Recording
  <2> QED BY <1>0, <1>00, <1>7, <2>1 DEF NewDay
<1>8. CASE UNCHANGED vars
  BY <1>8 DEF vars, MeterIsExact
<1> QED BY <1>1, <1>2, <1>3, <1>4, <1>5, <1>6, <1>7, <1>8 DEF Next, Step

\* Every billed call is recorded, except where a scan failed or was killed between
\* the model's answer and recordCost.
THEOREM MeterStaysExact == Spec => []MeterIsExact
<1>1. IInv => Typed
  BY DEF IInv
<1>2. Metered => MeterIsExact
  BY DEF Metered
<1> QED BY <1>1, <1>2, Invariance, InitMetered, NextMetered, PTL DEF Spec

\* Sums, counters and scans keep their types.
THEOREM TypeCorrect == Spec => []TypeOK
<1>1. Typed /\ Metered => TypeOK
  BY RecordingCount DEF Typed, Metered, MeterIsExact, Recording, TypeOK
<1>2. IInv => Typed
  BY DEF IInv
<1> QED BY <1>1, <1>2, Invariance, InitMetered, NextMetered, PTL DEF Spec

-----------------------------------------------------------------------------
(* Why a scan ends.  Each step that is not the day's uses up some of what   *)
(* the scan may still do; ScansEnd needs, beyond this, only that a scan     *)
(* that is not killed goes on.                                              *)

\* Steps of one subject at most: its head, then four for each group and its end.
PerSubject == 4 * MaxGroups + 2

Tail(s) == CASE s.pc = "groups"    -> 2
             [] s.pc = "flagging"  -> 3
             [] s.pc = "recording" -> 4
             [] s.pc = "judging"   -> 5
             [] OTHER              -> 1

\* A bound on the steps that the scan s may still take.
StepsOf(s) ==
  IF s.pc = "idle" THEN 0
  ELSE IF s.pc = "failed" THEN 1
  ELSE IF s.pc = "subjects" THEN s.subjects * PerSubject + 1
  ELSE s.subjects * PerSubject + 4 * s.groups + Tail(s)

StepsLeft(w) == StepsOf(scans[w])

Whole == MaxSubjects * PerSubject + 1

\* A subject has at most MaxGroups groups, and a scan fewer than Whole steps to go.
Bounded == \A w \in Scan : scans[w].groups <= MaxGroups /\ StepsLeft(w) <= Whole

\* A scan under way stands still or comes closer to its end.
RunsDown ==
  \A w \in Scan : scans[w].pc # "idle" =>
    scans'[w] = scans[w] \/ StepsLeft(w)' < StepsLeft(w)

LEMMA Products ==
  /\ PerSubject \in Nat /\ PerSubject = 4 * MaxGroups + 2 /\ Whole \in Nat
  /\ \A n \in 0 .. MaxSubjects : /\ n * PerSubject \in Nat
                                 /\ n * PerSubject + 1 <= Whole
  /\ \A n \in 1 .. MaxSubjects : n * PerSubject = (n - 1) * PerSubject + PerSubject
<1>1. PerSubject \in Nat /\ PerSubject = 4 * MaxGroups + 2
  BY BoundAssumption DEF PerSubject
<1> HIDE DEF PerSubject
<1>2. MaxSubjects \in Nat
  BY BoundAssumption
<1>3. \A n \in 0 .. MaxSubjects : n * PerSubject \in Nat
                                  /\ (MaxSubjects - n) * PerSubject \in Nat
                                  /\ MaxSubjects * PerSubject
                                       = n * PerSubject + (MaxSubjects - n) * PerSubject
  BY <1>1, <1>2
<1>4. \A n \in 1 .. MaxSubjects : n * PerSubject = (n - 1) * PerSubject + PerSubject
  BY <1>1, <1>2
<1>5. MaxSubjects * PerSubject \in Nat
  BY <1>2, <1>3
<1> QED BY <1>1, <1>3, <1>4, <1>5 DEF Whole

\* What one move of a scan must do for the others to follow.
LEMMA MoveRunsDown ==
  ASSUME Typed, Bounded, NEW w \in Scan, NEW s, To(w, s),
         s.groups <= MaxGroups, StepsOf(s) <= Whole,
         scans[w].pc # "idle" => StepsOf(s) < StepsLeft(w)
  PROVE  Bounded' /\ RunsDown
<1>1. scans'[w] = s /\ \A v \in Scan \ {w} : scans'[v] = scans[v]
  BY Others
<1>2. Bounded'
  BY <1>1 DEF Bounded, StepsLeft
<1>3. RunsDown
  BY <1>1 DEF RunsDown, StepsLeft
<1> QED BY <1>2, <1>3

LEMMA InitBounded == Init => Bounded
  BY Products, BoundAssumption DEF Init, Bounded, StepsLeft, StepsOf, Idle

LEMMA NextRunsDown == Typed /\ Bounded /\ [Next]_vars => Bounded' /\ [RunsDown]_vars
<1> SUFFICES ASSUME Typed, Bounded, [Next]_vars PROVE Bounded' /\ [RunsDown]_vars
  OBVIOUS
<1>0. /\ MaxGroups \in Nat /\ MaxSubjects \in Nat
      /\ \A w \in Scan : scans[w] \in ScanState /\ scans[w].groups \in 0 .. MaxGroups
                         /\ StepsLeft(w) <= Whole
  BY BoundAssumption DEF Typed, Bounded, ScanState
<1>1. \A w \in Scan : scans[w].subjects \in 0 .. MaxSubjects
                      /\ scans[w].subjects * PerSubject \in Nat
  BY <1>0, Products DEF ScanState
<1>2. StepsOf(Idle) = 0 /\ Idle.groups = 0
  BY DEF StepsOf, Idle
\* A scan may end from anywhere.
<1>3. ASSUME NEW w \in Scan, scans[w].pc # "idle", To(w, Idle)
      PROVE  Bounded' /\ RunsDown
  <2>1. StepsLeft(w) > 0
    BY <1>0, <1>1, <1>3, Products DEF StepsLeft, StepsOf, Tail, ScanState
  <2> QED BY <1>0, <1>2, <1>3, <2>1, MoveRunsDown, Products
<1>4. ASSUME NEW w \in Scan, NEW k \in Kind, NEW n \in 0 .. MaxSubjects, Start(w, k, n)
      PROVE  Bounded' /\ RunsDown
  <2> DEFINE s == [Idle EXCEPT !.pc = "subjects", !.kind = k,
                               !.snapshot = DailyCost, !.subjects = n]
  <2>1. s.groups = 0 /\ StepsOf(s) = n * PerSubject + 1
    BY DEF StepsOf, Idle
  <2>2. To(w, s) /\ scans[w].pc = "idle"
    BY <1>4 DEF Start
  <2> HIDE DEF s
  <2>3. s.groups <= MaxGroups /\ StepsOf(s) <= Whole
    BY <1>0, <2>1, Products
  <2> QED BY <2>2, <2>3, MoveRunsDown
<1>5. ASSUME NEW w \in Scan, NEW n \in 0 .. MaxGroups, NextSubject(w, n)
      PROVE  Bounded' /\ RunsDown
  <2>1. CASE To(w, Idle)
    BY <1>3, <1>5, <2>1 DEF NextSubject
  <2> DEFINE g == IF scans[w].kind = "contradiction" THEN n ELSE IF n = 0 THEN 0 ELSE 1
             s == [scans[w] EXCEPT !.pc = "groups", !.subjects = @ - 1, !.groups = g]
  <2>2. CASE scans[w].subjects # 0 /\ To(w, s)
    <3>1. g \in 0 .. MaxGroups
      BY <1>0
    <3> HIDE DEF g
    <3>2. /\ s.pc = "groups" /\ s.groups = g /\ s.subjects = scans[w].subjects - 1
      BY <1>0 DEF ScanState
    <3> HIDE DEF s
    <3>3. StepsOf(s) = (scans[w].subjects - 1) * PerSubject + 4 * g + 2
      BY <3>2 DEF StepsOf, Tail
    <3>4. StepsLeft(w) = scans[w].subjects * PerSubject + 1
      BY <1>5 DEF NextSubject, StepsLeft, StepsOf
    <3>5. scans[w].subjects \in 1 .. MaxSubjects
      BY <1>1, <2>2
    <3>6. /\ scans[w].subjects * PerSubject
               = (scans[w].subjects - 1) * PerSubject + PerSubject
          /\ (scans[w].subjects - 1) * PerSubject \in Nat
      <4>1. scans[w].subjects - 1 \in 0 .. MaxSubjects
        BY <1>0, <3>5
      <4> QED BY <3>5, <4>1, Products
    <3>7. StepsOf(s) < StepsLeft(w) /\ StepsOf(s) <= Whole
      BY <1>0, <3>1, <3>3, <3>4, <3>6, Products
    <3> QED BY <1>0, <2>2, <3>1, <3>2, <3>7, MoveRunsDown
  <2> QED BY <1>5, <2>1, <2>2 DEF NextSubject, Finish
\* The other steps of the loop leave the subjects alone.
<1>6. ASSUME NEW w \in Scan, NEW s, To(w, s), scans[w].pc \notin {"idle", "failed"},
             s.subjects = scans[w].subjects, s.groups \in 0 .. MaxGroups,
             StepsOf(s) < StepsLeft(w)
      PROVE  Bounded' /\ RunsDown
  <2>1. StepsOf(s) \in Nat /\ StepsLeft(w) \in Nat
    BY <1>0, <1>1, <1>6, Products DEF StepsLeft, StepsOf, Tail
  <2>2. StepsOf(s) <= Whole
    BY <1>0, <1>6, <2>1, Products
  <2> QED BY <1>0, <1>6, <2>2, MoveRunsDown
<1>7. ASSUME NEW w \in Scan, NextGroup(w) PROVE Bounded' /\ RunsDown
  <2> DEFINE s1 == [scans[w] EXCEPT !.pc = "judging", !.groups = @ - 1]
             s2 == [scans[w] EXCEPT !.pc = "subjects", !.groups = 0]
  <2>0. StepsLeft(w) = scans[w].subjects * PerSubject + 4 * scans[w].groups + 2
    BY <1>7 DEF NextGroup, StepsLeft, StepsOf, Tail
  <2>1. CASE scans[w].groups > 0 /\ To(w, s1)
    <3>1. /\ s1.subjects = scans[w].subjects /\ s1.groups = scans[w].groups - 1
          /\ s1.pc = "judging"
      BY <1>0 DEF ScanState
    <3> HIDE DEF s1
    <3>2. StepsOf(s1) = scans[w].subjects * PerSubject + 4 * (scans[w].groups - 1) + 5
      BY <3>1 DEF StepsOf, Tail
    <3> QED BY <1>0, <1>1, <1>6, <1>7, <2>0, <2>1, <3>1, <3>2 DEF NextGroup
  <2>2. CASE To(w, s2)
    <3>1. s2.subjects = scans[w].subjects /\ s2.groups = 0 /\ s2.pc = "subjects"
      BY <1>0 DEF ScanState
    <3> HIDE DEF s2
    <3>2. StepsOf(s2) = scans[w].subjects * PerSubject + 1
      BY <3>1 DEF StepsOf
    <3> QED BY <1>0, <1>1, <1>6, <1>7, <2>0, <2>2, <3>1, <3>2 DEF NextGroup
  <2> QED BY <1>7, <2>1, <2>2 DEF NextGroup
\* Between a group's head and its end, one place follows another.
<1>8. ASSUME NEW w \in Scan, NEW s, To(w, s), s.subjects = scans[w].subjects,
             s.groups = scans[w].groups,
             \/ scans[w].pc = "judging" /\ s.pc \in {"recording", "failed"}
             \/ scans[w].pc = "recording" /\ s.pc \in {"flagging", "groups"}
             \/ scans[w].pc = "flagging" /\ s.pc = "groups"
      PROVE  Bounded' /\ RunsDown
  <2>1. StepsOf(s) < StepsLeft(w)
    BY <1>0, <1>1, <1>8 DEF StepsLeft, StepsOf, Tail
  <2> QED BY <1>0, <1>6, <1>8, <2>1
<1>9. ASSUME NEW w \in Scan, NEW t \in 0 .. MaxTokens, Judge(w, t)
      PROVE  Bounded' /\ RunsDown
  <2> DEFINE own2 == Plus(scans[w].own, OneCall(t))
             s == [scans[w] EXCEPT !.pc = "recording", !.cost = t, !.own = own2]
  <2>1. s.subjects = scans[w].subjects /\ s.groups = scans[w].groups /\ s.pc = "recording"
    BY <1>0 DEF ScanState
  <2>2. To(w, s) /\ scans[w].pc = "judging"
    BY <1>9 DEF Judge
  <2> HIDE DEF s
  <2> QED BY <1>8, <2>1, <2>2
<1>10. ASSUME NEW w \in Scan, NEW flagged \in BOOLEAN, Record(w, flagged)
       PROVE  Bounded' /\ RunsDown
  <2> DEFINE place == IF flagged THEN "flagging" ELSE "groups"
             s == [scans[w] EXCEPT !.pc = place, !.cost = 0]
  <2>1. s.subjects = scans[w].subjects /\ s.groups = scans[w].groups
        /\ s.pc \in {"flagging", "groups"}
    BY <1>0 DEF ScanState
  <2>2. To(w, s) /\ scans[w].pc = "recording"
    BY <1>10 DEF Record
  <2> HIDE DEF s
  <2> QED BY <1>8, <2>1, <2>2
<1>11. ASSUME NEW w \in Scan, Flag(w) PROVE Bounded' /\ RunsDown
  <2> DEFINE s == [scans[w] EXCEPT !.pc = "groups"]
  <2>1. s.subjects = scans[w].subjects /\ s.groups = scans[w].groups /\ s.pc = "groups"
    BY <1>0 DEF ScanState
  <2>2. To(w, s) /\ scans[w].pc = "flagging"
    BY <1>11 DEF Flag
  <2> HIDE DEF s
  <2> QED BY <1>8, <2>1, <2>2
<1>12. ASSUME NEW w \in Scan, NEW billed \in BOOLEAN, ModelFails(w, billed)
       PROVE  Bounded' /\ RunsDown
  <2> DEFINE s == [scans[w] EXCEPT !.pc = "failed"]
  <2>1. s.subjects = scans[w].subjects /\ s.groups = scans[w].groups /\ s.pc = "failed"
    BY <1>0 DEF ScanState
  <2>2. To(w, s) /\ scans[w].pc = "judging"
    BY <1>12 DEF ModelFails
  <2> HIDE DEF s
  <2> QED BY <1>8, <2>1, <2>2
<1>13. ASSUME NEW w \in Scan, Abort(w) \/ Settle(w) PROVE Bounded' /\ RunsDown
  BY <1>3, <1>13 DEF Abort, Settle
<1>14. CASE NewDay
  BY <1>14 DEF NewDay, Bounded, RunsDown, StepsLeft
<1>15. CASE UNCHANGED vars
  BY <1>15 DEF vars, Bounded, StepsLeft
<1> QED BY <1>4, <1>5, <1>7, <1>9, <1>10, <1>11, <1>12, <1>13, <1>14, <1>15
        DEF Next, Step

\* No scan goes round in circles: whatever is listed, judged or flagged, and whatever
\* overlaps it, each step of a running scan brings it closer to its end, which is
\* never more than a fixed number of steps away.
THEOREM ScansRunDown == Spec => []Bounded /\ [][RunsDown]_vars
<1>1. IInv => Typed
  BY DEF IInv
<1> QED BY <1>1, Invariance, InitBounded, NextRunsDown, PTL DEF Spec

=============================================================================
