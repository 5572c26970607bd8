---------------------------- MODULE JobRunsProofs -----------------------------
(***************************************************************************)
(* Theorems about jobs and their rows for every set of jobs, every         *)
(* concurrency, and every number of crashes, stalls and failures.          *)
(*                                                                         *)
(* What holds of a job whatever the others do is Lawful: it relates the    *)
(* place of its runJob, its state in BullMQ, the number of its stalls and  *)
(* its rows.  For the ledger, the rows that are wrong, or will be when the *)
(* catch block has taken a good run for a failed one, are the Debt; a step *)
(* of a job adds one to it only with a failed statement, and a crash at    *)
(* most one for each running handler.                                      *)
(***************************************************************************)
EXTENDS JobRuns, FiniteSetTheorems, TLAPS

Updating == {"handling", "returned", "threw"}

Lawful(a, s, k, r, c) ==
  /\ a \in Place /\ s \in JobState /\ k \in 0 .. MaxStalled + 1 /\ r \in Seq(Row)
  /\ a # "none" => s = "active"
  /\ k = MaxStalled + 1 => s = "failed"
  /\ k <= c
  /\ s = "active" /\ a = "none" => k < c
  /\ Len(r) <= 1 + k
  /\ s \in {"none", "waiting"} \/ a = "started" => Len(r) <= k
  /\ a \in Updating \cup {"resolved", "rejected"} \/ s = "completed" => r # <<>>
  /\ a = "returned" => r[Len(r)].handler \in {"succeeded", "skipped"}
  /\ a = "resolved" \/ s = "completed" =>
       /\ r[Len(r)].status \in {"succeeded", "skipped"}
       /\ r[Len(r)].status = r[Len(r)].handler

\* The rows of a job that say, or will say, something else than what happened.
Owes(a, r) ==
  {i \in 1 .. Len(r) : IF i = Len(r) /\ a \in Updating
                       THEN a = "threw" /\ r[i].handler # "failed"
                       ELSE r[i].status # r[i].handler}

Debt == {x \in Job \X Nat : x[2] \in Owes(at[x[1]], rows[x[1]])}

Typed ==
  /\ worker \in {"up", "closing", "down"}
  /\ job \in [Job -> JobState]
  /\ stalls \in [Job -> 0 .. MaxStalled + 1]
  /\ at \in [Job -> Place]
  /\ rows \in [Job -> Seq(Row)]
  /\ stops \in 0 .. MaxStops /\ crashes \in 0 .. stops
  /\ faults \in 0 .. MaxFaults

IInv ==
  /\ Typed
  /\ \A j \in Job : Lawful(at[j], job[j], stalls[j], rows[j], crashes)
  /\ Busy # {} => worker # "down"
  /\ IsFiniteSet(Busy) /\ Cardinality(Busy) <= Concurrency
  /\ IsFiniteSet(Debt) /\ Cardinality(Debt) <= faults + Concurrency * crashes

-----------------------------------------------------------------------------
(* Sequences of rows.                                                       *)

LEMMA ChangeLast ==
  ASSUME NEW r \in Seq(Row), r # <<>>, NEW x \in Row
  PROVE  /\ Len(r) \in Nat \ {0} /\ r[Len(r)] \in Row
         /\ [r EXCEPT ![Len(r)] = x] \in Seq(Row)
         /\ [r EXCEPT ![Len(r)] = x] # <<>>
         /\ Len([r EXCEPT ![Len(r)] = x]) = Len(r)
         /\ [r EXCEPT ![Len(r)] = x][Len(r)] = x
         /\ \A i \in 1 .. Len(r) - 1 : [r EXCEPT ![Len(r)] = x][i] = r[i]
<1>1. PICK n : n = Len(r)
  OBVIOUS
<1>2. n \in Nat \ {0} /\ r \in [1 .. n -> Row] /\ n \in 1 .. n /\ 1 .. n - 1 \subseteq 1 .. n
  BY <1>1
<1>3. PICK q : q = [r EXCEPT ![n] = x]
  OBVIOUS
<1>4. q \in [1 .. n -> Row] /\ q[n] = x /\ \A i \in 1 .. n - 1 : q[i] = r[i]
  BY <1>2, <1>3
<1>5. q \in Seq(Row) /\ Len(q) = n /\ q # <<>>
  BY <1>2, <1>4
<1>6. r[n] \in Row
  BY <1>2
<1> QED BY <1>1, <1>2, <1>3, <1>4, <1>5, <1>6

LEMMA AddRow ==
  ASSUME NEW r \in Seq(Row)
  PROVE  /\ NewRow \in Row /\ Append(r, NewRow) \in Seq(Row)
         /\ Append(r, NewRow) # <<>> /\ Len(Append(r, NewRow)) = Len(r) + 1
         /\ Append(r, NewRow)[Len(r) + 1] = NewRow
         /\ \A i \in 1 .. Len(r) : Append(r, NewRow)[i] = r[i]
BY DEF NewRow, Row

-----------------------------------------------------------------------------
(* A step of one job.                                                       *)

LEMMA DebtGrows ==
  ASSUME NEW j \in Job, Typed, NEW a, NEW r,
         at' = [at EXCEPT ![j] = a], rows' = [rows EXCEPT ![j] = r],
         NEW N, Owes(a, r) \subseteq Owes(at[j], rows[j]) \cup N
  PROVE  Debt' \subseteq Debt \cup {<<j, i>> : i \in N}
<1>1. \A k \in Job : /\ at'[k] = IF k = j THEN a ELSE at[k]
                     /\ rows'[k] = IF k = j THEN r ELSE rows[k]
  BY DEF Typed
<1>2. ASSUME NEW x \in Job \X Nat, x[2] \in Owes(at'[x[1]], rows'[x[1]])
      PROVE  x \in Debt \cup {<<j, i>> : i \in N}
  <2>1. CASE x[1] = j
    <3>1. x = <<j, x[2]>> /\ x[2] \in Owes(at[j], rows[j]) \cup N
      BY <1>1, <1>2, <2>1
    <3> QED BY <2>1, <3>1 DEF Debt
  <2>2. CASE x[1] # j
    <3>1. x[2] \in Owes(at[x[1]], rows[x[1]])
      BY <1>1, <1>2, <2>2
    <3> QED BY <3>1 DEF Debt
  <2> QED BY <2>1, <2>2
<1>3. Debt' = {x \in Job \X Nat : x[2] \in Owes(at'[x[1]], rows'[x[1]])}
  BY DEF Debt
<1> QED BY <1>2, <1>3

LEMMA JobStep ==
  ASSUME IInv, NEW j \in Job, NEW a, NEW s, NEW k, NEW r,
         at' = [at EXCEPT ![j] = a], job' = [job EXCEPT ![j] = s],
         stalls' = [stalls EXCEPT ![j] = k], rows' = [rows EXCEPT ![j] = r],
         UNCHANGED <<worker, stops, crashes>>, faults' \in 0 .. MaxFaults,
         Lawful(a, s, k, r, crashes), a = "none" \/ at[j] # "none",
         NEW n, \/ faults' = faults /\ Owes(a, r) \subseteq Owes(at[j], rows[j])
                \/ faults' = faults + 1 /\ Owes(a, r) \subseteq Owes(at[j], rows[j]) \cup {n}
  PROVE  IInv'
<1>1. Typed'
  BY DEF IInv, Typed, Lawful
<1>2. \A i \in Job : Lawful(at'[i], job'[i], stalls'[i], rows'[i], crashes)
  BY DEF IInv, Typed
<1>3. Busy' \subseteq Busy
  BY DEF IInv, Typed, Busy
<1>4. IsFiniteSet(Busy') /\ Cardinality(Busy') <= Concurrency
  <2>1. /\ IsFiniteSet(Busy') /\ Cardinality(Busy') <= Cardinality(Busy)
        /\ Cardinality(Busy) \in Nat /\ Cardinality(Busy') \in Nat
    BY <1>3, FS_Subset, FS_CardinalityType DEF IInv
  <2> QED BY <2>1, ConcurrencyAssumption DEF IInv
<1>5. IsFiniteSet(Debt') /\ Cardinality(Debt') <= faults' + Concurrency * crashes
  <2>1. PICK d : d = Concurrency * crashes
    OBVIOUS
  <2>2. IsFiniteSet(Debt) /\ Cardinality(Debt) \in Nat /\ Cardinality(Debt) <= faults + d
        /\ faults \in Nat /\ d \in Nat
    <3>1. crashes \in Nat /\ faults \in Nat
      BY BoundsAssumption DEF IInv, Typed
    <3> QED BY <2>1, <3>1, FS_CardinalityType, ConcurrencyAssumption DEF IInv
  <2>3. CASE faults' = faults /\ Owes(a, r) \subseteq Owes(at[j], rows[j])
    <3>1. Debt' \subseteq Debt \cup {<<j, i>> : i \in {}}
      BY <2>3, DebtGrows DEF IInv
    <3>2. Debt' \subseteq Debt
      BY <3>1
    <3>3. IsFiniteSet(Debt') /\ Cardinality(Debt') <= Cardinality(Debt) /\ Cardinality(Debt') \in Nat
      BY <2>2, <3>2, FS_Subset, FS_CardinalityType
    <3> QED BY <2>1, <2>2, <2>3, <3>3
  <2>4. CASE faults' = faults + 1 /\ Owes(a, r) \subseteq Owes(at[j], rows[j]) \cup {n}
    <3>1. Debt' \subseteq Debt \cup {<<j, i>> : i \in {n}}
      BY <2>4, DebtGrows DEF IInv
    <3>2. Debt' \subseteq Debt \cup {<<j, n>>}
      BY <3>1
    <3>3. /\ IsFiniteSet(Debt \cup {<<j, n>>})
          /\ Cardinality(Debt \cup {<<j, n>>}) <= Cardinality(Debt) + 1
          /\ Cardinality(Debt \cup {<<j, n>>}) \in Nat
      <4>1. PICK E : E = Debt \cup {<<j, n>>}
        OBVIOUS
      <4>2. /\ IsFiniteSet(E)
            /\ Cardinality(E) = IF <<j, n>> \in Debt THEN Cardinality(Debt)
                                ELSE Cardinality(Debt) + 1
        BY <2>2, <4>1, FS_AddElement, Zenon
      <4>3. Cardinality(E) \in Nat
        BY <4>2, FS_CardinalityType
      <4> QED BY <2>2, <4>1, <4>2, <4>3
    <3>4. /\ IsFiniteSet(Debt') /\ Cardinality(Debt') <= Cardinality(Debt \cup {<<j, n>>})
          /\ Cardinality(Debt') \in Nat
      BY <3>2, <3>3, FS_Subset, FS_CardinalityType
    <3> QED BY <2>1, <2>2, <2>4, <3>3, <3>4
  <2> QED BY <2>3, <2>4
<1>6. Busy' # {} => worker' # "down"
  BY <1>3 DEF IInv
<1> QED BY <1>1, <1>2, <1>4, <1>5, <1>6 DEF IInv

\* The same with a failed statement.
LEMMA FaultStep ==
  ASSUME IInv, NEW j \in Job, NEW a, NEW s, NEW k, NEW r,
         at' = [at EXCEPT ![j] = a], job' = [job EXCEPT ![j] = s],
         stalls' = [stalls EXCEPT ![j] = k], rows' = [rows EXCEPT ![j] = r],
         UNCHANGED <<worker, stops, crashes>>, faults' \in 0 .. MaxFaults,
         Lawful(a, s, k, r, crashes), at[j] # "none",
         NEW n, faults' = faults + 1, Owes(a, r) \subseteq Owes(at[j], rows[j]) \cup {n}
  PROVE  IInv'
BY JobStep, Zenon

\* What is known of one job; and what a step leaves alone, as JobStep has it.
LEMMA JobFacts ==
  ASSUME IInv, NEW j \in Job
  PROVE  \E a, s, k, r :
           /\ a = at[j] /\ s = job[j] /\ k = stalls[j] /\ r = rows[j]
           /\ Lawful(a, s, k, r, crashes)
           /\ at = [at EXCEPT ![j] = a] /\ job = [job EXCEPT ![j] = s]
           /\ stalls = [stalls EXCEPT ![j] = k] /\ rows = [rows EXCEPT ![j] = r]
           /\ faults \in 0 .. MaxFaults
<1>1. Typed /\ Lawful(at[j], job[j], stalls[j], rows[j], crashes)
  BY DEF IInv
<1>2. PICK a, s, k, r : a = at[j] /\ s = job[j] /\ k = stalls[j] /\ r = rows[j]
  OBVIOUS
<1>3. at = [at EXCEPT ![j] = a] /\ job = [job EXCEPT ![j] = s]
  BY <1>1, <1>2 DEF Typed
<1>4. stalls = [stalls EXCEPT ![j] = k] /\ rows = [rows EXCEPT ![j] = r]
  BY <1>1, <1>2 DEF Typed
<1> QED BY <1>1, <1>2, <1>3, <1>4 DEF Typed

LEMMA EnqueueStep == ASSUME IInv, NEW j \in Job, Enqueue(j) PROVE IInv'
<1>1. PICK a, s, k, r :
        /\ a = at[j] /\ s = job[j] /\ k = stalls[j] /\ r = rows[j]
        /\ Lawful(a, s, k, r, crashes)
        /\ at = [at EXCEPT ![j] = a] /\ stalls = [stalls EXCEPT ![j] = k]
        /\ rows = [rows EXCEPT ![j] = r] /\ faults \in 0 .. MaxFaults
  BY JobFacts
<1>2. a = "none" /\ Lawful(a, "waiting", k, r, crashes)
  BY <1>1 DEF Enqueue, Lawful, JobState, Updating
<1> QED BY <1>1, <1>2, JobStep DEF Enqueue, Become, counters

\* The job ends, its row being as it was, or added with its statement's answer lost.
LEMMA EndStep ==
  ASSUME IInv, NEW j \in Job, NEW end \in {"completed", "failed"}, at[j] # "none",
         at[j] \notin Updating, end = "completed" => at[j] = "resolved",
         Become(j, end), Go(j, "none"), UNCHANGED <<worker, stalls, rows, counters>>
  PROVE  IInv'
<1>1. PICK a, s, k, r :
        /\ a = at[j] /\ s = job[j] /\ k = stalls[j] /\ r = rows[j]
        /\ Lawful(a, s, k, r, crashes)
        /\ stalls = [stalls EXCEPT ![j] = k]
        /\ rows = [rows EXCEPT ![j] = r] /\ faults \in 0 .. MaxFaults
  BY JobFacts
<1>2. Lawful("none", end, k, r, crashes)
  BY <1>1 DEF Lawful, JobState, Updating, Place
<1>3. Owes("none", r) \subseteq Owes(a, r)
  BY <1>1 DEF Owes, Updating
<1> QED BY <1>1, <1>2, <1>3, JobStep DEF Become, Go, counters

LEMMA CreateRowStep == ASSUME IInv, NEW j \in Job, CreateRow(j) PROVE IInv'
<1>1. PICK a, s, k, r :
        /\ a = at[j] /\ s = job[j] /\ k = stalls[j] /\ r = rows[j]
        /\ Lawful(a, s, k, r, crashes)
        /\ job = [job EXCEPT ![j] = s] /\ stalls = [stalls EXCEPT ![j] = k]
        /\ faults \in 0 .. MaxFaults
  BY JobFacts
<1>2. PICK q : q = Append(r, NewRow)
  OBVIOUS
<1>3. /\ q \in Seq(Row) /\ q # <<>> /\ Len(q) = Len(r) + 1 /\ Len(r) \in Nat
      /\ \A i \in 1 .. Len(r) : q[i] = r[i]
  BY <1>1, <1>2, AddRow DEF Lawful
<1>4. a = "started" /\ Lawful("handling", s, k, q, crashes)
  BY <1>1, <1>3 DEF CreateRow, Lawful, JobState, Updating, Place
<1>5. Owes("handling", q) \subseteq Owes(a, r)
  BY <1>3, <1>4 DEF Owes, Updating
<1>6. /\ at' = [at EXCEPT ![j] = "handling"] /\ job' = [job EXCEPT ![j] = s]
      /\ stalls' = [stalls EXCEPT ![j] = k] /\ rows' = [rows EXCEPT ![j] = q]
      /\ UNCHANGED <<worker, stops, crashes>> /\ faults' = faults
  BY <1>1, <1>2 DEF CreateRow, Go, counters, queue
<1> QED BY <1>1, <1>4, <1>5, <1>6, JobStep

LEMMA CreateRowFailsStep ==
  ASSUME IInv, NEW j \in Job, NEW committed \in BOOLEAN, CreateRowFails(j, committed)
  PROVE  IInv'
<1>1. PICK a, s, k, r :
        /\ a = at[j] /\ s = job[j] /\ k = stalls[j] /\ r = rows[j]
        /\ Lawful(a, s, k, r, crashes)
        /\ rows = [rows EXCEPT ![j] = r] /\ stalls = [stalls EXCEPT ![j] = k]
        /\ faults \in 0 .. MaxFaults
  BY JobFacts
<1>2. faults' = faults + 1 /\ faults' \in 0 .. MaxFaults /\ UNCHANGED <<stops, crashes>>
  BY <1>1, BoundsAssumption DEF CreateRowFails, Fault
<1>3. PICK q : q = IF committed THEN Append(r, NewRow) ELSE r
  OBVIOUS
<1>4. /\ q \in Seq(Row) /\ Len(q) \in {Len(r), Len(r) + 1} /\ Len(r) \in Nat
      /\ \A i \in 1 .. Len(r) : q[i] = r[i]
  BY <1>1, <1>3, AddRow DEF Lawful
<1>5. a = "started" /\ Lawful("none", "failed", k, q, crashes)
  BY <1>1, <1>4 DEF CreateRowFails, Lawful, JobState, Updating, Place
<1>6. PICK n : Owes("none", q) \subseteq Owes(at[j], rows[j]) \cup {n}
  <2>1. Owes("none", q) \subseteq Owes(a, r) \cup {Len(r) + 1}
    BY <1>4, <1>5 DEF Owes, Updating
  <2> QED BY <1>1, <2>1
<1>7. /\ at' = [at EXCEPT ![j] = "none"] /\ job' = [job EXCEPT ![j] = "failed"]
      /\ stalls' = [stalls EXCEPT ![j] = k] /\ UNCHANGED worker
  BY <1>1 DEF CreateRowFails, Go, Become
<1>8. rows' = [rows EXCEPT ![j] = q]
  BY <1>1, <1>3 DEF CreateRowFails
<1>9. UNCHANGED <<worker, stops, crashes>> /\ at[j] # "none"
  BY <1>1, <1>2, <1>5, <1>7
<1> QED BY <1>2, <1>5, <1>6, <1>7, <1>8, <1>9, JobStep, Zenon

\* What an update of the last row needs and makes of the job, where the runJob goes on.
Fits(place, x) ==
  /\ place \in {"returned", "threw", "resolved", "rejected"} /\ x \in Row
  /\ place = "returned" => x.handler \in {"succeeded", "skipped"}
  /\ place = "resolved" => x.status \in {"succeeded", "skipped"} /\ x.status = x.handler

Pays(a, last, place, x) ==
  \/ a = "threw" /\ last.handler # "failed"
  \/ place \in Updating /\ (place = "threw" => x.handler = "failed")
  \/ place \notin Updating /\ x.status = x.handler

LEMMA UpdateIsLawful ==
  ASSUME NEW a \in Updating, NEW s, NEW k, NEW r, NEW c, Lawful(a, s, k, r, c),
         NEW place, NEW x, Fits(place, x), NEW q, q = [r EXCEPT ![Len(r)] = x]
  PROVE  /\ Lawful(place, s, k, q, c)
         /\ Owes(place, q) \subseteq Owes(a, r) \cup {Len(r)}
         /\ Pays(a, r[Len(r)], place, x) => Owes(place, q) \subseteq Owes(a, r)
<1>1. r \in Seq(Row) /\ r # <<>> /\ x \in Row
  BY DEF Lawful, Updating, Fits
<1>2. PICK n \in Nat \ {0} : n = Len(r)
  BY <1>1, ChangeLast
<1>3. /\ q \in Seq(Row) /\ q # <<>> /\ Len(q) = n /\ q[n] = x
      /\ \A i \in 1 .. n - 1 : q[i] = r[i]
  BY <1>1, <1>2, ChangeLast
<1>4. Lawful(place, s, k, q, c)
  BY <1>2, <1>3 DEF Lawful, JobState, Updating, Place, Fits
<1>5. Owes(place, q) \subseteq Owes(a, r) \cup {n}
  BY <1>2, <1>3 DEF Owes
<1>6. ASSUME Pays(a, r[n], place, x), n \in Owes(place, q) PROVE n \in Owes(a, r)
  BY <1>2, <1>3, <1>6 DEF Owes, Updating, Pays
<1> QED BY <1>2, <1>4, <1>5, <1>6

\* A step that updates the row of a runJob in progress.
LEMMA UpdateStep ==
  ASSUME IInv, NEW j \in Job, at[j] \in Updating, NEW place, NEW x, Fits(place, x),
         Go(j, place), rows' = [rows EXCEPT ![j] = [rows[j] EXCEPT ![Len(rows[j])] = x]],
         UNCHANGED <<worker, job, stalls, stops, crashes, faults>>,
         Pays(at[j], rows[j][Len(rows[j])], place, x)
  PROVE  IInv'
<1>1. PICK a, s, k, r :
        /\ a = at[j] /\ s = job[j] /\ k = stalls[j] /\ r = rows[j]
        /\ Lawful(a, s, k, r, crashes)
        /\ job = [job EXCEPT ![j] = s] /\ stalls = [stalls EXCEPT ![j] = k]
        /\ faults \in 0 .. MaxFaults
  BY JobFacts
<1>2. PICK q : q = [r EXCEPT ![Len(r)] = x]
  OBVIOUS
<1>3. Lawful(place, s, k, q, crashes) /\ Owes(place, q) \subseteq Owes(at[j], rows[j])
  BY <1>1, <1>2, UpdateIsLawful
<1>4. at' = [at EXCEPT ![j] = place] /\ rows' = [rows EXCEPT ![j] = q]
      /\ job' = [job EXCEPT ![j] = s] /\ stalls' = [stalls EXCEPT ![j] = k]
      /\ UNCHANGED <<worker, stops, crashes>> /\ faults' = faults
      /\ at[j] # "none" /\ faults' \in 0 .. MaxFaults
  BY <1>1, <1>2 DEF Go, Updating
<1> QED BY <1>3, <1>4, JobStep, Zenon

\* A step that fails to, whether or not its statement was committed.
LEMMA UpdateFailsStep ==
  ASSUME IInv, NEW j \in Job, at[j] \in Updating, NEW place, NEW x, Fits(place, x),
         Go(j, place), rows' = [rows EXCEPT ![j] = [rows[j] EXCEPT ![Len(rows[j])] = x]],
         UNCHANGED <<worker, job, stalls>>, Fault
  PROVE  IInv'
<1>1. PICK a, s, k, r :
        /\ a = at[j] /\ s = job[j] /\ k = stalls[j] /\ r = rows[j]
        /\ Lawful(a, s, k, r, crashes)
        /\ job = [job EXCEPT ![j] = s] /\ stalls = [stalls EXCEPT ![j] = k]
        /\ faults \in 0 .. MaxFaults
  BY JobFacts
<1>2. PICK q, n : q = [r EXCEPT ![Len(r)] = x] /\ n = Len(r)
  OBVIOUS
<1>3. Lawful(place, s, k, q, crashes) /\ Owes(place, q) \subseteq Owes(at[j], rows[j]) \cup {n}
  BY <1>1, <1>2, UpdateIsLawful
<1>4. at' = [at EXCEPT ![j] = place] /\ rows' = [rows EXCEPT ![j] = q]
      /\ job' = [job EXCEPT ![j] = s] /\ stalls' = [stalls EXCEPT ![j] = k]
      /\ UNCHANGED <<worker, stops, crashes>> /\ at[j] # "none"
  BY <1>1, <1>2 DEF Go, Updating, Fault
<1>5. faults' = faults + 1 /\ faults' \in 0 .. MaxFaults
  BY <1>1, BoundsAssumption DEF Fault
<1> QED BY <1>3, <1>4, <1>5, FaultStep, Zenon

LEMMA RowFields ==
  ASSUME NEW last \in Row, NEW status \in {"succeeded", "skipped", "failed"}
  PROVE  /\ [last EXCEPT !.status = status] \in Row
         /\ [last EXCEPT !.status = status].status = status
         /\ [last EXCEPT !.status = status].handler = last.handler
         /\ [last EXCEPT !.handler = status] \in Row
         /\ [last EXCEPT !.handler = status].handler = status
BY DEF Row

\* The rows before and after SetStatus, as UpdateStep has them.
LEMMA LastRow ==
  ASSUME IInv, NEW j \in Job, at[j] \in Updating, NEW last, last = rows[j][Len(rows[j])]
  PROVE  /\ last \in Row
         /\ at[j] = "returned" => last.handler \in {"succeeded", "skipped"}
         /\ rows = [rows EXCEPT ![j] = [rows[j] EXCEPT ![Len(rows[j])] = last]]
<1>1. /\ rows \in [Job -> Seq(Row)] /\ rows[j] # <<>>
      /\ at[j] = "returned" => rows[j][Len(rows[j])].handler \in {"succeeded", "skipped"}
  BY DEF IInv, Typed, Lawful, Updating
<1>2. PICK r \in Seq(Row) : r = rows[j] /\ r # <<>>
  BY <1>1
<1>3. last \in Row /\ last = r[Len(r)]
  BY <1>2, ChangeLast
<1>4. r = [r EXCEPT ![Len(r)] = last]
  BY <1>2, <1>3
<1>5. rows = [rows EXCEPT ![j] = [rows[j] EXCEPT ![Len(rows[j])] = last]]
  BY <1>1, <1>2, <1>4
<1> QED BY <1>1, <1>3, <1>5

LEMMA SetStatusRow ==
  ASSUME NEW j \in Job, NEW last, last = rows[j][Len(rows[j])],
         NEW status, SetStatus(j, status), NEW x, x = [last EXCEPT !.status = status]
  PROVE  rows' = [rows EXCEPT ![j] = [rows[j] EXCEPT ![Len(rows[j])] = x]]
BY DEF SetStatus

LEMMA HandleStep ==
  ASSUME IInv, NEW j \in Job, NEW outcome \in Outcome, Handle(j, outcome)
  PROVE  IInv'
<1>1. at[j] = "handling" /\ at[j] \in Updating
  BY DEF Handle, Updating
<1>2. PICK last : last = rows[j][Len(rows[j])]
  OBVIOUS
<1>3. last \in Row
  BY <1>1, <1>2, LastRow
<1>4. PICK x : x = [last EXCEPT !.handler = outcome]
  OBVIOUS
<1>5. x \in Row /\ x.handler = outcome
  BY <1>3, <1>4, RowFields DEF Outcome
<1>6. PICK place : place = IF outcome = "failed" THEN "threw" ELSE "returned"
  OBVIOUS
<1>7. Fits(place, x) /\ Pays(at[j], last, place, x)
  BY <1>5, <1>6 DEF Fits, Pays, Outcome, Updating
<1>8. /\ Go(j, place) /\ rows' = [rows EXCEPT ![j] = [rows[j] EXCEPT ![Len(rows[j])] = x]]
      /\ UNCHANGED <<worker, job, stalls, stops, crashes, faults>>
  BY <1>2, <1>4, <1>6 DEF Handle, queue, counters
<1> QED BY <1>1, <1>2, <1>7, <1>8, UpdateStep

LEMMA RecordResultStep == ASSUME IInv, NEW j \in Job, RecordResult(j) PROVE IInv'
<1>1. at[j] = "returned" /\ at[j] \in Updating
  BY DEF RecordResult, Updating
<1>2. PICK last : last = rows[j][Len(rows[j])]
  OBVIOUS
<1>3. last \in Row /\ last.handler \in {"succeeded", "skipped"}
  BY <1>1, <1>2, LastRow
<1>4. PICK x, status : x = [last EXCEPT !.status = status] /\ status = last.handler
  OBVIOUS
<1>5. x \in Row /\ x.handler = last.handler /\ x.status = last.handler
  <2>1. status \in {"succeeded", "skipped", "failed"}
    BY <1>3, <1>4
  <2> QED BY <1>3, <1>4, <2>1, RowFields
<1>6. Fits("resolved", x) /\ Pays(at[j], last, "resolved", x)
  BY <1>3, <1>5 DEF Fits, Pays, Updating
<1>7. /\ Go(j, "resolved") /\ UNCHANGED <<worker, job, stalls, stops, crashes, faults>>
      /\ SetStatus(j, last.handler)
  BY <1>2 DEF RecordResult, queue, counters
<1>8. rows' = [rows EXCEPT ![j] = [rows[j] EXCEPT ![Len(rows[j])] = x]]
  BY <1>2, <1>4, <1>7, SetStatusRow
<1> QED BY <1>1, <1>2, <1>6, <1>7, <1>8, UpdateStep

LEMMA RecordFailureStep == ASSUME IInv, NEW j \in Job, RecordFailure(j) PROVE IInv'
<1>1. at[j] = "threw" /\ at[j] \in Updating
  BY DEF RecordFailure, Updating
<1>2. PICK last : last = rows[j][Len(rows[j])]
  OBVIOUS
<1>3. last \in Row
  BY <1>1, <1>2, LastRow
<1>4. PICK x : x = [last EXCEPT !.status = "failed"]
  OBVIOUS
<1>5. x \in Row /\ x.handler = last.handler /\ x.status = "failed"
  BY <1>3, <1>4, RowFields
<1>6. Fits("rejected", x) /\ Pays(at[j], last, "rejected", x)
  BY <1>1, <1>5 DEF Fits, Pays, Updating
<1>7. /\ Go(j, "rejected") /\ UNCHANGED <<worker, job, stalls, stops, crashes, faults>>
      /\ SetStatus(j, "failed")
  BY DEF RecordFailure, queue, counters
<1>8. rows' = [rows EXCEPT ![j] = [rows[j] EXCEPT ![Len(rows[j])] = x]]
  BY <1>2, <1>4, <1>7, SetStatusRow
<1> QED BY <1>1, <1>2, <1>6, <1>7, <1>8, UpdateStep

\* A failed statement on the way to place: status is what it would have set.
LEMMA StatementFailsStep ==
  ASSUME IInv, NEW j \in Job, at[j] \in Updating, NEW place \in {"threw", "rejected"},
         NEW status \in {"succeeded", "skipped", "failed"},
         SetStatus(j, status) \/ UNCHANGED rows, Go(j, place), Fault,
         UNCHANGED <<worker, queue>>
  PROVE  IInv'
<1>1. PICK last : last = rows[j][Len(rows[j])]
  OBVIOUS
<1>2. last \in Row /\ rows = [rows EXCEPT ![j] = [rows[j] EXCEPT ![Len(rows[j])] = last]]
  BY <1>1, LastRow
<1>3. PICK x : x = [last EXCEPT !.status = status]
  OBVIOUS
<1>4. x \in Row
  BY <1>2, <1>3, RowFields
<1>5. UNCHANGED <<worker, job, stalls>>
  BY DEF queue
<1>6. CASE SetStatus(j, status)
  <2>1. rows' = [rows EXCEPT ![j] = [rows[j] EXCEPT ![Len(rows[j])] = x]]
    BY <1>1, <1>3, <1>6, SetStatusRow
  <2>2. Fits(place, x)
    BY <1>4 DEF Fits
  <2> QED BY <1>5, <2>1, <2>2, UpdateFailsStep
<1>7. CASE UNCHANGED rows
  <2>1. rows' = [rows EXCEPT ![j] = [rows[j] EXCEPT ![Len(rows[j])] = last]]
    BY <1>2, <1>7
  <2>2. Fits(place, last)
    BY <1>2 DEF Fits
  <2> QED BY <1>5, <2>1, <2>2, UpdateFailsStep
<1> QED BY <1>6, <1>7

LEMMA RecordResultFailsStep ==
  ASSUME IInv, NEW j \in Job, NEW committed \in BOOLEAN, RecordResultFails(j, committed)
  PROVE  IInv'
<1>1. at[j] = "returned" /\ at[j] \in Updating
  BY DEF RecordResultFails, Updating
<1>2. PICK last, status : last = rows[j][Len(rows[j])] /\ status = last.handler
  OBVIOUS
<1>3. status \in {"succeeded", "skipped", "failed"}
  BY <1>1, <1>2, LastRow
<1> QED BY <1>1, <1>2, <1>3, StatementFailsStep DEF RecordResultFails

LEMMA RecordFailureFailsStep ==
  ASSUME IInv, NEW j \in Job, NEW committed \in BOOLEAN, RecordFailureFails(j, committed)
  PROVE  IInv'
<1>1. at[j] \in Updating
  BY DEF RecordFailureFails, Updating
<1> QED BY <1>1, StatementFailsStep DEF RecordFailureFails

LEMMA StalledStep == ASSUME IInv, NEW j \in Job, Stalled(j) PROVE IInv'
<1>1. PICK a, s, k, r :
        /\ a = at[j] /\ s = job[j] /\ k = stalls[j] /\ r = rows[j]
        /\ Lawful(a, s, k, r, crashes)
        /\ at = [at EXCEPT ![j] = a] /\ rows = [rows EXCEPT ![j] = r]
        /\ faults \in 0 .. MaxFaults
  BY JobFacts
<1>2. crashes \in Nat
  BY BoundsAssumption DEF IInv, Typed
<1>3. PICK t : t = IF k < MaxStalled THEN "waiting" ELSE "failed"
  OBVIOUS
<1>4. a = "none" /\ s = "active" /\ k \in 0 .. MaxStalled
  BY <1>1, StalledAssumption DEF Stalled, Lawful
<1>5. Lawful("none", t, k + 1, r, crashes)
  BY <1>1, <1>2, <1>3, <1>4, StalledAssumption DEF Lawful, JobState, Updating, Place
<1>6. /\ at' = [at EXCEPT ![j] = "none"] /\ job' = [job EXCEPT ![j] = t]
      /\ stalls' = [stalls EXCEPT ![j] = k + 1] /\ rows' = [rows EXCEPT ![j] = r]
      /\ UNCHANGED <<worker, stops, crashes>> /\ faults' = faults /\ faults' \in 0 .. MaxFaults
  BY <1>1, <1>3, <1>4 DEF Stalled, Become, counters
<1>7. Owes("none", r) \subseteq Owes(at[j], rows[j])
  BY <1>1, <1>4
<1> QED BY <1>5, <1>6, <1>7, JobStep, Zenon

\* The worker takes a job: one more handler runs.
LEMMA PickStep == ASSUME IInv, NEW j \in Job, Pick(j) PROVE IInv'
<1>1. PICK a, s, k, r :
        /\ a = at[j] /\ s = job[j] /\ k = stalls[j] /\ r = rows[j]
        /\ Lawful(a, s, k, r, crashes)
        /\ stalls = [stalls EXCEPT ![j] = k] /\ rows = [rows EXCEPT ![j] = r]
        /\ faults \in 0 .. MaxFaults
  BY JobFacts
<1>2. /\ worker = "up" /\ worker' = worker /\ s = "waiting" /\ Cardinality(Busy) < Concurrency
      /\ at' = [at EXCEPT ![j] = "started"] /\ job' = [job EXCEPT ![j] = "active"]
      /\ stalls' = stalls /\ rows' = rows /\ UNCHANGED <<stops, crashes, faults>>
  BY <1>1 DEF Pick, Become, Go, counters
<1>3. a = "none" /\ Lawful("started", "active", k, r, crashes)
  BY <1>1, <1>2 DEF Lawful, JobState, Updating, Place
<1>4. Typed'
  BY <1>2 DEF IInv, Typed, JobState, Place
<1>5. \A i \in Job : Lawful(at'[i], job'[i], stalls'[i], rows'[i], crashes')
  BY <1>1, <1>2, <1>3 DEF IInv, Typed
<1>6. IsFiniteSet(Busy') /\ Cardinality(Busy') <= Concurrency
  <2>1. Busy' = Busy \cup {j} /\ j \notin Busy
    BY <1>1, <1>2, <1>3 DEF Busy, IInv, Typed
  <2>2. IsFiniteSet(Busy') /\ Cardinality(Busy') = Cardinality(Busy) + 1 /\ Cardinality(Busy) \in Nat
    BY <2>1, FS_AddElement, FS_CardinalityType DEF IInv
  <2> QED BY <1>2, <2>2, ConcurrencyAssumption
<1>7. IsFiniteSet(Debt') /\ Cardinality(Debt') <= faults' + Concurrency * crashes'
  <2>1. Owes("started", r) \subseteq Owes(at[j], rows[j]) \cup {}
    BY <1>1, <1>3 DEF Owes, Updating
  <2>2. Debt' \subseteq Debt \cup {<<j, i>> : i \in {}}
    BY <1>1, <1>2, <2>1, DebtGrows DEF IInv
  <2>3. Debt' \subseteq Debt
    BY <2>2
  <2>4. IsFiniteSet(Debt') /\ Cardinality(Debt') <= Cardinality(Debt)
        /\ Cardinality(Debt') \in Nat /\ Cardinality(Debt) \in Nat
    BY <2>3, FS_Subset, FS_CardinalityType DEF IInv
  <2>5. PICK d : d = faults + Concurrency * crashes
    OBVIOUS
  <2>6. d \in Nat /\ Cardinality(Debt) <= d
    <3>1. crashes \in Nat /\ faults \in Nat
      BY BoundsAssumption DEF IInv, Typed
    <3> QED BY <2>5, <3>1, ConcurrencyAssumption DEF IInv
  <2>7. d = faults' + Concurrency * crashes'
    BY <1>2, <2>5
  <2> QED BY <2>4, <2>6, <2>7
<1> QED BY <1>2, <1>4, <1>5, <1>6, <1>7 DEF IInv

\* A crash costs the rows of the handlers that were running.
LEMMA CrashStep == ASSUME IInv, Crash PROVE IInv'
<1>1. /\ at' = [j \in Job |-> "none"] /\ UNCHANGED <<job, stalls, rows, faults>>
      /\ worker' = "down" /\ stops' = stops + 1 /\ crashes' = crashes + 1
      /\ crashes \in Nat /\ faults \in Nat
  BY BoundsAssumption DEF Crash, queue, IInv, Typed
<1>2. Typed'
  BY <1>1, BoundsAssumption DEF Crash, IInv, Typed, Place
<1>3. ASSUME NEW j \in Job PROVE Lawful(at'[j], job'[j], stalls'[j], rows'[j], crashes')
  <2>1. PICK a, s, k, r :
          /\ a = at[j] /\ s = job[j] /\ k = stalls[j] /\ r = rows[j]
          /\ Lawful(a, s, k, r, crashes)
    BY JobFacts
  <2>2. Lawful("none", s, k, r, crashes + 1)
    BY <1>1, <2>1, StalledAssumption DEF Lawful, JobState, Updating, Place
  <2>3. at'[j] = "none" /\ job'[j] = s /\ stalls'[j] = k /\ rows'[j] = r
    BY <1>1, <2>1
  <2> QED BY <1>1, <2>2, <2>3
<1>4. Busy' = {}
  BY <1>1 DEF Busy
<1>5. IsFiniteSet(Busy') /\ Cardinality(Busy') <= Concurrency
  BY <1>4, FS_EmptySet, ConcurrencyAssumption
<1> DEFINE f == [j \in Busy |-> <<j, Len(rows[j])>>]
           T == {f[j] : j \in Busy}
<1>6. IsFiniteSet(T) /\ Cardinality(T) <= Cardinality(Busy) /\ Cardinality(T) \in Nat
      /\ Cardinality(Busy) \in Nat
  <2>1. f \in Surjection(Busy, T)
    BY DEF Surjection
  <2> HIDE DEF f, T
  <2> QED BY <2>1, FS_Surjection, FS_CardinalityType DEF IInv
<1>7. Debt' \subseteq Debt \cup T
  <2>1. ASSUME NEW j \in Job, NEW i \in Nat, i \in Owes("none", rows[j])
        PROVE  i \in Owes(at[j], rows[j]) \/ (j \in Busy /\ i = Len(rows[j]))
    BY <2>1 DEF Owes, Busy, Updating
  <2>2. ASSUME NEW x \in Job \X Nat, x[2] \in Owes(at'[x[1]], rows'[x[1]]) PROVE x \in Debt \cup T
    <3>1. PICK j \in Job, i \in Nat : x = <<j, i>> /\ i \in Owes("none", rows[j])
      BY <1>1, <2>2
    <3>2. CASE i \in Owes(at[j], rows[j])
      BY <3>1, <3>2 DEF Debt
    <3>3. CASE j \in Busy /\ i = Len(rows[j])
      BY <3>1, <3>3
    <3> QED BY <2>1, <3>1, <3>2, <3>3
  <2>3. Debt' = {x \in Job \X Nat : x[2] \in Owes(at'[x[1]], rows'[x[1]])}
    BY DEF Debt
  <2> HIDE DEF T
  <2> QED BY <2>2, <2>3
<1>8. IsFiniteSet(Debt') /\ Cardinality(Debt') <= faults' + Concurrency * crashes'
  <2> HIDE DEF T
  <2>1. PICK d : d = Concurrency * crashes
    OBVIOUS
  <2>2. d \in Nat /\ Concurrency * crashes' = d + Concurrency /\ Concurrency \in Nat
    BY <1>1, <2>1, ConcurrencyAssumption
  <2>3. /\ IsFiniteSet(Debt) /\ Cardinality(Debt) \in Nat /\ Cardinality(Debt) <= faults + d
        /\ Cardinality(Busy) <= Concurrency
    BY <2>1, FS_CardinalityType DEF IInv
  <2>4. PICK U : U = Debt \cup T
    OBVIOUS
  <2>5. /\ IsFiniteSet(U) /\ Cardinality(U) <= Cardinality(Debt) + Cardinality(T)
        /\ Cardinality(U) \in Nat
    <3>1. /\ IsFiniteSet(U)
          /\ Cardinality(U) = Cardinality(Debt) + Cardinality(T) - Cardinality(Debt \cap T)
      BY <1>6, <2>3, <2>4, FS_Union
    <3>2. Cardinality(Debt \cap T) \in Nat /\ Cardinality(U) \in Nat
      BY <2>3, <3>1, FS_Intersection, FS_CardinalityType
    <3> QED BY <1>6, <2>3, <3>1, <3>2
  <2>6. IsFiniteSet(Debt') /\ Cardinality(Debt') <= Cardinality(U) /\ Cardinality(Debt') \in Nat
    BY <1>7, <2>4, <2>5, FS_Subset, FS_CardinalityType
  <2> QED BY <1>1, <1>6, <2>2, <2>3, <2>5, <2>6
<1> QED BY <1>2, <1>3, <1>4, <1>5, <1>8 DEF IInv

\* The worker process starts or stops, and no handler is interrupted.
LEMMA ProcessStep ==
  ASSUME IInv, UNCHANGED <<queue, at, rows, crashes, faults>>,
         worker' \in {"up", "closing", "down"}, stops' \in 0 .. MaxStops, stops <= stops',
         worker' = "down" => Busy = {}
  PROVE  IInv'
<1>1. UNCHANGED <<job, stalls, at, rows, crashes, faults>> /\ stops \in Nat /\ stops' \in Nat
  BY BoundsAssumption DEF queue, IInv, Typed
<1>2. Typed'
  BY <1>1 DEF IInv, Typed
<1>3. Busy' = Busy /\ Debt' = Debt
  BY <1>1 DEF Busy, Debt
<1> QED BY <1>1, <1>2, <1>3 DEF IInv

-----------------------------------------------------------------------------
(* The properties.                                                          *)

LEMMA IInvInit == Init => IInv
<1> SUFFICES ASSUME Init PROVE IInv
  OBVIOUS
<1>1. Typed
  BY BoundsAssumption, StalledAssumption DEF Init, Typed, JobState, Place
<1>2. ASSUME NEW j \in Job PROVE Lawful(at[j], job[j], stalls[j], rows[j], crashes)
  <2>1. Lawful("none", "none", 0, <<>>, 0)
    BY StalledAssumption DEF Lawful, JobState, Place, Updating
  <2> QED BY <2>1 DEF Init
<1>3. Busy = {}
  BY DEF Init, Busy
<1>4. Debt = {}
  BY DEF Init, Debt, Owes
<1> QED BY <1>1, <1>2, <1>3, <1>4, FS_EmptySet, ConcurrencyAssumption DEF IInv, Init

LEMMA IInvStep == ASSUME IInv, [Next]_vars PROVE IInv'
<1>1. ASSUME NEW j \in Job, RunJob(j) PROVE IInv'
  <2>1. CASE Resolve(j)
    BY <2>1, EndStep DEF Resolve, Updating
  <2>2. CASE Reject(j)
    BY <2>2, EndStep DEF Reject, Updating
  <2> QED BY <1>1, <2>1, <2>2, CreateRowStep, HandleStep, RecordResultStep, RecordFailureStep
          DEF RunJob
<1>2. ASSUME NEW j \in Job, Trouble(j) PROVE IInv'
  <2>1. CASE ContextFails(j)
    BY <2>1, EndStep DEF ContextFails, Updating
  <2> QED BY <1>2, <2>1, CreateRowFailsStep, RecordResultFailsStep, RecordFailureFailsStep
          DEF Trouble
<1>3. ASSUME NEW j \in Job, NEW of \in Job, Retry(j, of) PROVE IInv'
  BY <1>3, EnqueueStep DEF Retry
<1>4. stops \in Nat /\ stops \in 0 .. MaxStops /\ MaxStops \in Nat
  BY BoundsAssumption DEF IInv, Typed
<1>5. CASE Shutdown
  BY <1>4, <1>5, ProcessStep DEF Shutdown
<1>6. CASE Exit
  BY <1>4, <1>6, ProcessStep DEF Exit, counters
<1>7. CASE StartUp
  BY <1>4, <1>7, ProcessStep DEF StartUp, counters
<1>8. CASE UNCHANGED vars
  <2>1. UNCHANGED <<worker, job, stalls, at, rows, stops, crashes, faults>>
    BY <1>8 DEF vars
  <2> QED BY <1>4, <2>1, ProcessStep DEF IInv, Typed, queue
<1> QED BY <1>1, <1>2, <1>3, <1>5, <1>6, <1>7, <1>8, EnqueueStep, PickStep, StalledStep, CrashStep
        DEF Next

LEMMA IInvImplies == IInv => TypeOK /\ LedgerIsTrue /\ CompletedMeansDone /\ OneRowPerDelivery
<1> SUFFICES ASSUME IInv
             PROVE  TypeOK /\ LedgerIsTrue /\ CompletedMeansDone /\ OneRowPerDelivery
  OBVIOUS
<1>1. TypeOK
  BY DEF IInv, Typed, TypeOK, Busy, Lawful
<1>2. CompletedMeansDone
  BY DEF IInv, CompletedMeansDone, Lawful
<1>3. OneRowPerDelivery
  BY DEF IInv, OneRowPerDelivery, Lawful
<1>4. LedgerIsTrue
  <2>1. PICK W : W = UNION {{<<j, i>> : i \in Wrong(j)} : j \in Job}
    OBVIOUS
  <2>2. ASSUME NEW j \in Job, NEW i \in Wrong(j) PROVE <<j, i>> \in Debt
    <3>1. PICK r \in Seq(Row) : r = rows[j]
      BY DEF IInv, Typed
    <3>2. i \in 1 .. Len(r) /\ i \notin Owned(j) /\ r[i].status # r[i].handler
      BY <3>1 DEF Wrong
    <3>3. i \in Owes(at[j], r)
      BY <3>1, <3>2 DEF Owes, Owned, Updating
    <3> QED BY <3>1, <3>2, <3>3 DEF Debt
  <2>3. W \subseteq Debt
    BY <2>1, <2>2
  <2>4. Cardinality(W) <= Cardinality(Debt) /\ Cardinality(W) \in Nat /\ Cardinality(Debt) \in Nat
    BY <2>3, FS_Subset, FS_CardinalityType DEF IInv
  <2>5. PICK d : d = faults + Concurrency * crashes
    OBVIOUS
  <2>6. d \in Nat /\ Cardinality(Debt) <= d
    <3>1. crashes \in Nat /\ faults \in Nat
      BY BoundsAssumption DEF IInv, Typed
    <3> QED BY <2>5, <3>1, ConcurrencyAssumption DEF IInv
  <2>7. Cardinality(W) <= d
    BY <2>4, <2>6
  <2> QED BY <2>1, <2>5, <2>7 DEF LedgerIsTrue
<1> QED BY <1>1, <1>2, <1>3, <1>4

LEMMA Invariant == Spec => []IInv
<1>1. IInv /\ [Next]_vars => IInv'
  BY IInvStep
<1> QED BY <1>1, IInvInit, PTL DEF Spec

\* runJob runs for active jobs of a live worker, and everything has its type.
THEOREM TypeCorrect == Spec => []TypeOK
BY Invariant, IInvImplies, PTL

\* However many handlers run and however often the worker dies, the rows that say something
\* else than what happened are at most the failed statements and the interrupted handlers.
THEOREM LedgerIsTrueUpToFaults == Spec => []LedgerIsTrue
BY Invariant, IInvImplies, PTL

\* A job that BullMQ has as completed has a handler's success as its last row.
THEOREM CompletedJobsAreDone == Spec => []CompletedMeansDone
BY Invariant, IInvImplies, PTL

\* Rows are paid for by deliveries, and redeliveries by crashes.
THEOREM RowsAreDeliveries == Spec => []OneRowPerDelivery
BY Invariant, IInvImplies, PTL

\* All that a step does to the rows: nothing, one more, or another last row of a job whose
\* runJob is in progress.
LEMMA RowsChange ==
  ASSUME IInv, [Next]_vars
  PROVE  \/ rows' = rows
         \/ \E k \in Job : \/ rows' = [rows EXCEPT ![k] = Append(rows[k], NewRow)]
                           \/ /\ at[k] \in Updating
                              /\ \E x : rows' = [rows EXCEPT ![k] =
                                                  [rows[k] EXCEPT ![Len(rows[k])] = x]]
<1> DEFINE Changed == \E k \in Job : /\ at[k] \in Updating
                                     /\ \E x : rows' = [rows EXCEPT ![k] =
                                                         [rows[k] EXCEPT ![Len(rows[k])] = x]]
<1>1. ASSUME NEW k \in Job, at[k] \in Updating, NEW status, SetStatus(k, status) PROVE Changed
  <2>1. PICK last, x : last = rows[k][Len(rows[k])] /\ x = [last EXCEPT !.status = status]
    OBVIOUS
  <2>2. rows' = [rows EXCEPT ![k] = [rows[k] EXCEPT ![Len(rows[k])] = x]]
    BY <1>1, <2>1, SetStatusRow
  <2> QED BY <1>1, <2>2
<1>2. ASSUME NEW k \in Job, NEW outcome \in Outcome, Handle(k, outcome) PROVE Changed
  <2>1. rows' = [rows EXCEPT ![k] = [rows[k] EXCEPT ![Len(rows[k])] =
                                       [rows[k][Len(rows[k])] EXCEPT !.handler = outcome]]]
    BY <1>2 DEF Handle
  <2> QED BY <1>2, <2>1 DEF Handle, Updating
<1>3. ASSUME NEW k \in Job, RecordResult(k) \/ RecordFailure(k) PROVE Changed
  <2>1. at[k] \in Updating
    BY <1>3 DEF RecordResult, RecordFailure, Updating
  <2> HIDE DEF Changed
  <2> QED BY <1>1, <1>3, <2>1 DEF RecordResult, RecordFailure
<1>4. ASSUME NEW k \in Job, NEW committed \in BOOLEAN,
             RecordResultFails(k, committed) \/ RecordFailureFails(k, committed)
      PROVE  Changed \/ rows' = rows
  <2>1. at[k] \in Updating
    BY <1>4 DEF RecordResultFails, RecordFailureFails, Updating
  <2> HIDE DEF Changed
  <2> QED BY <1>1, <1>4, <2>1 DEF RecordResultFails, RecordFailureFails
<1> HIDE DEF Changed
<1>5. ASSUME NEW k \in Job, RunJob(k) \/ Trouble(k)
      PROVE  \/ Changed \/ rows' = rows
             \/ rows' = [rows EXCEPT ![k] = Append(rows[k], NewRow)]
  <2>1. CreateRow(k) => rows' = [rows EXCEPT ![k] = Append(rows[k], NewRow)]
    BY DEF CreateRow
  <2>2. ASSUME NEW committed \in BOOLEAN, CreateRowFails(k, committed)
        PROVE  rows' = rows \/ rows' = [rows EXCEPT ![k] = Append(rows[k], NewRow)]
    BY <2>2 DEF CreateRowFails
  <2>3. Resolve(k) \/ Reject(k) \/ ContextFails(k) => rows' = rows
    BY DEF Resolve, Reject, ContextFails
  <2> QED BY <1>2, <1>3, <1>4, <1>5, <2>1, <2>2, <2>3 DEF RunJob, Trouble
<1>6. ASSUME NEW j \in Job, Enqueue(j) \/ Pick(j) \/ Stalled(j) PROVE rows' = rows
  BY <1>6 DEF Enqueue, Pick, Stalled
<1>7. Crash \/ Shutdown \/ Exit \/ StartUp \/ UNCHANGED vars => rows' = rows
  BY DEF Crash, Shutdown, Exit, StartUp, vars
<1>8. \A j, of \in Job : Retry(j, of) => Enqueue(j)
  BY DEF Retry
<1>9. \/ Changed \/ rows' = rows
      \/ \E k \in Job : rows' = [rows EXCEPT ![k] = Append(rows[k], NewRow)]
  BY <1>5, <1>6, <1>7, <1>8 DEF Next
<1> QED BY <1>9 DEF Changed

LEMMA FrozenStep ==
  ASSUME IInv, [Next]_vars, NEW j \in Job, NEW i \in DOMAIN rows[j] \ Owned(j)
  PROVE  rows'[j][i] = rows[j][i]
<1>1. rows \in [Job -> Seq(Row)] /\ rows[j] \in Seq(Row)
  BY DEF IInv, Typed
<1>2. i \in 1 .. Len(rows[j]) /\ Len(rows[j]) \in Nat
  BY <1>1
<1>3. ASSUME NEW k \in Job, rows' = [rows EXCEPT ![k] = Append(rows[k], NewRow)]
      PROVE  rows'[j][i] = rows[j][i]
  <2>1. CASE j = k
    <3>1. rows'[j] = Append(rows[j], NewRow)
      BY <1>1, <1>3, <2>1
    <3> QED BY <1>1, <1>2, <3>1, AddRow
  <2>2. CASE j # k
    BY <1>1, <1>3, <2>2
  <2> QED BY <2>1, <2>2
<1>4. ASSUME NEW k \in Job, at[k] \in Updating, NEW x,
             rows' = [rows EXCEPT ![k] = [rows[k] EXCEPT ![Len(rows[k])] = x]]
      PROVE  rows'[j][i] = rows[j][i]
  <2>1. CASE j = k
    <3>1. i # Len(rows[j])
      BY <1>4, <2>1 DEF Owned, Updating
    <3>2. rows'[j] = [rows[j] EXCEPT ![Len(rows[j])] = x]
      BY <1>1, <1>4, <2>1
    <3> QED BY <1>2, <3>1, <3>2
  <2>2. CASE j # k
    BY <1>1, <1>4, <2>2
  <2> QED BY <2>1, <2>2
<1> QED BY <1>3, <1>4, RowsChange

\* A row whose run has ended is never written again.
THEOREM HistoryStaysFrozen == Spec => HistoryIsFrozen
<1>1. IInv /\ [Next]_vars =>
        [\A j \in Job : \A i \in DOMAIN rows[j] \ Owned(j) : rows'[j][i] = rows[j][i]]_vars
  BY FrozenStep
<1> QED BY <1>1, Invariant, PTL DEF Spec, HistoryIsFrozen

-----------------------------------------------------------------------------
(* Why a job ends.  Whatever happens to it, a crash and a redelivery        *)
(* included, uses up some of the deliveries BullMQ allows it or of the way  *)
(* through runJob; JobsEnd needs fairness beyond this only.                 *)

Rank(state, place) ==
  CASE state = "waiting"                                         -> 9
    [] state = "active" /\ place = "started"                     -> 8
    [] state = "active" /\ place = "handling"                    -> 7
    [] state = "active" /\ place = "returned"                    -> 6
    [] state = "active" /\ place = "threw"                       -> 5
    [] state = "active" /\ place \in {"resolved", "rejected"}    -> 4
    [] state = "active" /\ place = "none"                        -> 3

\* A bound on what may still happen to a job: ten things for each delivery.
StepsOf(state, place, stalled) ==
  IF state \in {"completed", "failed"} THEN 0
  ELSE 10 * (MaxStalled + 1 - stalled) + Rank(state, place)

StepsLeft(j) == StepsOf(job[j], at[j], stalls[j])

\* A job that was enqueued stands still or comes closer to its end, which is at most
\* 10 (maxStalledCount + 1) + 9 steps away and, once reached, is left no more.
RunsDown ==
  \A j \in Job : job[j] # "none" =>
    /\ StepsLeft(j) \in 0 .. 10 * (MaxStalled + 1) + 9
    /\ \/ job'[j] = job[j] /\ at'[j] = at[j] /\ stalls'[j] = stalls[j]
       \/ StepsLeft(j)' < StepsLeft(j)

\* The parts of the invariant that the count depends on.
LEMMA Standing ==
  ASSUME IInv
  PROVE  /\ MaxStalled \in Nat
         /\ job \in [Job -> JobState] /\ at \in [Job -> Place]
         /\ stalls \in [Job -> 0 .. MaxStalled + 1]
         /\ \A j \in Job : at[j] # "none" => job[j] = "active"
         /\ \A j \in Job : job[j] = "waiting" => at[j] = "none"
  BY IInvImplies, StalledAssumption DEF TypeOK, Busy

LEMMA FewStepsLeft ==
  ASSUME IInv, NEW j \in Job, job[j] # "none"
  PROVE  StepsLeft(j) \in 0 .. 10 * (MaxStalled + 1) + 9
<1>1. /\ MaxStalled \in Nat /\ stalls[j] \in 0 .. MaxStalled + 1
      /\ job[j] \in {"waiting", "active", "completed", "failed"}
      /\ at[j] \in Place
  BY Standing DEF JobState
<1>2. CASE job[j] \in {"completed", "failed"}
  BY <1>1, <1>2 DEF StepsLeft, StepsOf
<1>3. CASE job[j] \in {"waiting", "active"}
  <2>1. Rank(job[j], at[j]) \in 3 .. 9
    BY <1>1, <1>3 DEF Rank, Place
  <2> QED BY <1>1, <1>3, <2>1 DEF StepsLeft, StepsOf
<1> QED BY <1>1, <1>2, <1>3

\* Where a step may take the job it is of.
LEMMA MoveRunsDown ==
  ASSUME IInv, NEW j \in Job,
         \A i \in Job \ {j} : job'[i] = job[i] /\ at'[i] = at[i] /\ stalls'[i] = stalls[i],
         \/ job[j] = "none"
         \/ job[j] \in {"waiting", "active"} /\ job'[j] \in {"completed", "failed"}
         \/ /\ job[j] \in {"waiting", "active"} /\ job'[j] = "active"
            /\ stalls'[j] = stalls[j]
            /\ Rank("active", at'[j]) \in Nat
            /\ Rank("active", at'[j]) < Rank(job[j], at[j])
         \/ /\ job[j] = "active" /\ job'[j] = "waiting" /\ stalls'[j] = stalls[j] + 1
            /\ at[j] = "none"
  PROVE  RunsDown
<1>1. ASSUME job[j] # "none" PROVE StepsLeft(j)' < StepsLeft(j)
  <2>1. /\ MaxStalled \in Nat /\ stalls[j] \in 0 .. MaxStalled + 1
        /\ at[j] \in Place
    BY Standing
  <2>2. CASE job[j] \in {"waiting", "active"} /\ job'[j] \in {"completed", "failed"}
    <3>1. Rank(job[j], at[j]) \in 3 .. 9
      BY <2>1, <2>2 DEF Rank, Place
    <3> QED BY <2>1, <2>2, <3>1 DEF StepsLeft, StepsOf
  <2>3. CASE /\ job[j] \in {"waiting", "active"} /\ job'[j] = "active"
             /\ stalls'[j] = stalls[j]
             /\ Rank("active", at'[j]) \in Nat
             /\ Rank("active", at'[j]) < Rank(job[j], at[j])
    <3>1. Rank(job[j], at[j]) \in 3 .. 9
      BY <2>1, <2>3 DEF Rank, Place
    <3> HIDE DEF Rank
    <3> QED BY <2>1, <2>3, <3>1 DEF StepsLeft, StepsOf
  <2>4. CASE /\ job[j] = "active" /\ job'[j] = "waiting" /\ stalls'[j] = stalls[j] + 1
             /\ at[j] = "none"
    <3>1. Rank(job[j], at[j]) = 3 /\ Rank(job'[j], at'[j]) = 9
      BY <2>4 DEF Rank
    <3> QED BY <2>1, <2>4, <3>1 DEF StepsLeft, StepsOf
  <2> QED BY <1>1, <2>2, <2>3, <2>4
<1> QED BY <1>1, FewStepsLeft DEF RunsDown, StepsLeft

LEMMA NextRunsDown == IInv /\ [Next]_vars => [RunsDown]_vars
<1> SUFFICES ASSUME IInv, Next PROVE RunsDown
  BY DEF vars
\* A step of runJob that keeps the job active, or ends it.
<1>1. ASSUME NEW j \in Job, NEW place, Go(j, place), UNCHANGED queue,
             \/ at[j] = "started" /\ place = "handling"
             \/ at[j] = "handling" /\ place \in {"returned", "threw"}
             \/ at[j] = "returned" /\ place \in {"resolved", "threw"}
             \/ at[j] = "threw" /\ place = "rejected"
      PROVE  RunsDown
  <2>1. /\ at'[j] = place /\ \A i \in Job \ {j} : at'[i] = at[i]
        /\ UNCHANGED <<job, stalls>> /\ job[j] = "active"
    BY <1>1, Standing DEF Go, queue
  <2>2. Rank("active", place) \in Nat /\ Rank("active", place) < Rank(job[j], at[j])
    BY <1>1, <2>1 DEF Rank
  <2> HIDE DEF Rank
  <2> QED BY <2>1, <2>2, MoveRunsDown
<1>2. ASSUME NEW j \in Job, NEW end \in {"completed", "failed"}, Become(j, end),
             Go(j, "none"), at[j] # "none", UNCHANGED stalls
      PROVE  RunsDown
  <2>1. /\ job'[j] = end /\ job[j] = "active"
        /\ \A i \in Job \ {j} : job'[i] = job[i] /\ at'[i] = at[i] /\ stalls'[i] = stalls[i]
    BY <1>2, Standing DEF Become, Go
  <2> QED BY <2>1, MoveRunsDown
<1>3. ASSUME NEW j \in Job, Enqueue(j) PROVE RunsDown
  <2>1. /\ job[j] = "none"
        /\ \A i \in Job \ {j} : job'[i] = job[i] /\ at'[i] = at[i] /\ stalls'[i] = stalls[i]
    BY <1>3, Standing DEF Enqueue, Become
  <2> QED BY <2>1, MoveRunsDown
<1>4. ASSUME NEW j \in Job, Pick(j) PROVE RunsDown
  <2>1. /\ job[j] = "waiting" /\ job'[j] = "active" /\ at'[j] = "started"
        /\ stalls' = stalls
        /\ \A i \in Job \ {j} : job'[i] = job[i] /\ at'[i] = at[i]
    BY <1>4, Standing DEF Pick, Become, Go
  <2>2. Rank("active", at'[j]) = 8 /\ Rank(job[j], at[j]) = 9
    BY <2>1 DEF Rank
  <2> HIDE DEF Rank
  <2> QED BY <2>1, <2>2, MoveRunsDown
<1>5. ASSUME NEW j \in Job, RunJob(j) PROVE RunsDown
  <2>1. CASE \E outcome \in Outcome : Handle(j, outcome)
    <3>1. PICK outcome \in Outcome : Handle(j, outcome)
      BY <2>1
    <3>2. PICK place : place = IF outcome = "failed" THEN "threw" ELSE "returned"
      OBVIOUS
    <3> QED BY <1>1, <3>1, <3>2 DEF Handle
  <2>2. CASE CreateRow(j) \/ RecordResult(j) \/ RecordFailure(j)
    BY <1>1, <2>2 DEF CreateRow, RecordResult, RecordFailure
  <2>3. CASE Resolve(j) \/ Reject(j)
    BY <1>2, <2>3 DEF Resolve, Reject
  <2> QED BY <1>5, <2>1, <2>2, <2>3 DEF RunJob
<1>6. ASSUME NEW j \in Job, Trouble(j) PROVE RunsDown
  <2>1. CASE ContextFails(j) \/ \E committed \in BOOLEAN : CreateRowFails(j, committed)
    BY <1>2, <2>1 DEF ContextFails, CreateRowFails
  <2>2. CASE \E committed \in BOOLEAN : RecordResultFails(j, committed)
                                        \/ RecordFailureFails(j, committed)
    BY <1>1, <2>2 DEF RecordResultFails, RecordFailureFails
  <2> QED BY <1>6, <2>1, <2>2 DEF Trouble
\* A stalled job pays for its redelivery, or is failed.
<1>7. ASSUME NEW j \in Job, Stalled(j) PROVE RunsDown
  <2>1. /\ job[j] = "active" /\ at[j] = "none" /\ at' = at
        /\ job'[j] \in {"waiting", "failed"} /\ stalls'[j] = stalls[j] + 1
        /\ \A i \in Job \ {j} : job'[i] = job[i] /\ stalls'[i] = stalls[i]
    BY <1>7, Standing DEF Stalled, Become
  <2> QED BY <2>1, MoveRunsDown
\* A crash moves every job that was being worked on.
<1>8. CASE Crash
  <2>1. \A j \in Job : at'[j] = "none" /\ job'[j] = job[j] /\ stalls'[j] = stalls[j]
    BY <1>8 DEF Crash, queue
  <2>2. ASSUME NEW j \in Job, at[j] # "none" PROVE StepsLeft(j)' < StepsLeft(j)
    <3>1. /\ MaxStalled \in Nat /\ stalls[j] \in 0 .. MaxStalled + 1
          /\ at[j] \in Place /\ job[j] = "active"
      BY <2>2, Standing
    <3>2. Rank(job[j], at[j]) \in 4 .. 9 /\ Rank(job'[j], at'[j]) = 3
      BY <2>1, <2>2, <3>1 DEF Rank, Place
    <3> QED BY <2>1, <3>1, <3>2 DEF StepsLeft, StepsOf
  <2> QED BY <2>1, <2>2, FewStepsLeft DEF RunsDown
<1>9. CASE Shutdown \/ Exit \/ StartUp
  <2>1. UNCHANGED <<job, at, stalls>>
    BY <1>9 DEF Shutdown, Exit, StartUp, queue
  <2> QED BY <2>1, FewStepsLeft DEF RunsDown
<1> QED BY <1>3, <1>4, <1>5, <1>6, <1>7, <1>8, <1>9 DEF Next, Retry

\* No job is delivered for ever: whatever happens to it, handlers that fail, statements
\* that fail, workers that die, brings it closer to completed or failed, which is final.
THEOREM JobsRunDown == Spec => [][RunsDown]_vars
<1>1. IInv /\ [Next]_vars => [RunsDown]_vars
  BY NextRunsDown
<1> QED BY <1>1, Invariant, PTL DEF Spec
=============================================================================
