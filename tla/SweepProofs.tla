----------------------------- MODULE SweepProofs ------------------------------
(***************************************************************************)
(* Theorems about sweeps for every set of items and runs, and all limits.  *)
(*                                                                         *)
(* Of one run, its local variables and what MaluDB claimed for it are      *)
(* related by Lawful: the index counts the batches, only a batch under way *)
(* holds items, and the claims add up.  Of two, what they hold is disjoint *)
(* (Apart): MaluDB skips the items that another batch has locked.          *)
(***************************************************************************)
EXTENDS Sweep, FiniteSetTheorems, TLAPS

Lawful(r, t, m) ==
  /\ r \in RunState /\ t \in Nat /\ m \in Nat
  /\ IsFiniteSet(r.held) /\ Cardinality(r.held) <= Limit
  /\ r.pc # "working" => r.held = {}
  /\ r.pc \notin {"idle", "crashed"} => t = r.total + m + Cardinality(r.held)
  /\ r.pc # "ended" => r.reason = "none"
  /\ r.pc \in {"asking", "working"} => r.batches = r.index /\ r.index < MaxBatches
  /\ r.pc = "marking" => r.batches = r.index + 1
  /\ r.reason = "drained" => r.claimed = 0 /\ r.batches >= 1
  /\ r.reason = "max_batches" => r.batches = MaxBatches /\ r.claimed > 0
  /\ r.reason = "capability_unavailable" => r.batches < MaxBatches

Apart == \A v, w \in Run : v # w => runs[v].held \cap runs[w].held = {}

Typed ==
  /\ dirty \subseteq Item /\ abandoned \subseteq dirty
  /\ runs \in [Run -> RunState]
  /\ mark \in 0 .. MaxBatches
  /\ taken \in [Run -> Nat] /\ missed \in [Run -> Nat]
  /\ trouble \in 0 .. MaxTrouble

IInv ==
  /\ Typed /\ Apart
  /\ \A w \in Run : /\ runs[w].held \subseteq dirty \ abandoned
                    /\ Lawful(runs[w], taken[w], missed[w])

-----------------------------------------------------------------------------
(* A step of one run.                                                       *)

LEMMA Bounds ==
  /\ Limit \in Nat \ {0} /\ MaxBatches \in Nat \ {0} /\ MaxAttempts \in Nat \ {0}
  /\ MaxTrouble \in Nat
BY PositiveAssumption, TroubleAssumption

LEMMA TroubleType == IInv /\ (Trouble \/ UNCHANGED trouble) => trouble' \in 0 .. MaxTrouble
BY Bounds DEF IInv, Typed, Trouble

LEMMA RunStep ==
  ASSUME IInv, NEW w \in Run, NEW r, NEW t, NEW m, To(w, r), Lawful(r, t, m),
         taken' = [taken EXCEPT ![w] = t], missed' = [missed EXCEPT ![w] = m],
         dirty' \subseteq Item, abandoned' \subseteq dirty', mark' \in 0 .. MaxBatches,
         Trouble \/ UNCHANGED trouble,
         r.held \subseteq dirty' \ abandoned',
         \A v \in Run \ {w} : /\ r.held \cap runs[v].held = {}
                              /\ runs[v].held \subseteq dirty' \ abandoned'
  PROVE  IInv'
<1>1. \A v \in Run : /\ runs'[v] = IF v = w THEN r ELSE runs[v]
                     /\ taken'[v] = IF v = w THEN t ELSE taken[v]
                     /\ missed'[v] = IF v = w THEN m ELSE missed[v]
  BY DEF IInv, Typed, To
<1>2. Typed'
  BY TroubleType DEF IInv, Typed, To, Lawful
<1>3. Apart'
  BY <1>1 DEF IInv, Apart
<1>4. \A v \in Run : /\ runs'[v].held \subseteq dirty' \ abandoned'
                     /\ Lawful(runs'[v], taken'[v], missed'[v])
  BY <1>1 DEF IInv
<1> QED BY <1>2, <1>3, <1>4 DEF IInv

\* What is known of one run.
LEMMA RunFacts ==
  ASSUME IInv, NEW w \in Run
  PROVE  \E r, t, m :
           /\ r = runs[w] /\ t = taken[w] /\ m = missed[w] /\ Lawful(r, t, m)
           /\ taken = [taken EXCEPT ![w] = t] /\ missed = [missed EXCEPT ![w] = m]
           /\ r.held \subseteq dirty \ abandoned
           /\ \A v \in Run \ {w} : r.held \cap runs[v].held = {}
           /\ \A v \in Run : runs[v].held \subseteq dirty \ abandoned
           /\ dirty \subseteq Item /\ abandoned \subseteq dirty /\ mark \in 0 .. MaxBatches
<1>1. taken = [taken EXCEPT ![w] = taken[w]] /\ missed = [missed EXCEPT ![w] = missed[w]]
  BY DEF IInv, Typed
<1> QED BY <1>1 DEF IInv, Typed, Apart

\* A step that leaves MaluDB's queue and locks alone, and the run without a batch.
LEMMA QuietStep ==
  ASSUME IInv, NEW w \in Run, NEW q, NEW t, NEW m, To(w, q), q.held = {}, Lawful(q, t, m),
         taken' = [taken EXCEPT ![w] = t], missed' = [missed EXCEPT ![w] = m],
         UNCHANGED <<dirty, abandoned>>, mark' \in 0 .. MaxBatches, Trouble \/ UNCHANGED trouble
  PROVE  IInv'
<1>1. /\ dirty' \subseteq Item /\ abandoned' \subseteq dirty'
      /\ \A v \in Run : runs[v].held \subseteq dirty' \ abandoned'
  BY DEF IInv, Typed
<1> QED BY <1>1, RunStep

LEMMA IdleType ==
  /\ Idle \in RunState
  /\ Idle.pc = "idle" /\ Idle.index = 0 /\ Idle.held = {} /\ Idle.claimed = 0
  /\ Idle.batches = 0 /\ Idle.total = 0 /\ Idle.reason = "none"
<1>1. 0 \in 0 .. MaxBatches /\ 0 \in 0 .. MaxAttempts /\ 0 \in 0 .. Limit
  BY Bounds
<1> QED BY <1>1 DEF Idle, RunState

\* A run that has not asked for anything.
LEMMA IdleIsLawful ==
  ASSUME NEW t \in Nat, NEW m \in Nat, NEW r,
         \/ r = Idle
         \/ r = [Idle EXCEPT !.pc = "crashed"]
         \/ r = [Idle EXCEPT !.pc = "asking", !.attempt = 1] /\ t = 0 /\ m = 0
  PROVE  Lawful(r, t, m) /\ r.held = {}
<1>1. PICK i \in RunState :
        /\ i = Idle /\ i.pc = "idle" /\ i.index = 0 /\ i.held = {} /\ i.claimed = 0
        /\ i.batches = 0 /\ i.total = 0 /\ i.reason = "none"
  BY IdleType
<1>2. 1 \in 0 .. MaxAttempts
  BY Bounds
<1>3. /\ r \in RunState /\ r.index = 0 /\ r.held = {} /\ r.claimed = 0
      /\ r.batches = 0 /\ r.total = 0 /\ r.reason = "none"
      /\ r.pc \in {"idle", "crashed"} \/ (r.pc = "asking" /\ t = 0 /\ m = 0)
  BY <1>1, <1>2 DEF RunState
<1>4. IsFiniteSet({}) /\ Cardinality({}) = 0
  BY FS_EmptySet
<1> QED BY <1>3, <1>4, Bounds DEF Lawful

LEMMA StartStep == ASSUME IInv, NEW w \in Run, Start(w) PROVE IInv'
<1>1. PICK r : r = [Idle EXCEPT !.pc = "asking", !.attempt = 1]
  OBVIOUS
<1>2. Lawful(r, 0, 0) /\ r.held = {}
  BY <1>1, IdleIsLawful, Bounds
<1>3. mark' \in 0 .. MaxBatches
  BY DEF Start, IInv, Typed
<1> QED BY <1>1, <1>2, <1>3, QuietStep DEF Start

LEMMA ReturnStep == ASSUME IInv, NEW w \in Run, Return(w) PROVE IInv'
<1>1. PICK r, t, m : /\ r = runs[w] /\ t = taken[w] /\ m = missed[w] /\ Lawful(r, t, m)
                     /\ taken = [taken EXCEPT ![w] = t] /\ missed = [missed EXCEPT ![w] = m]
                     /\ mark \in 0 .. MaxBatches
  BY RunFacts
<1>2. PICK q : q = Idle
  OBVIOUS
<1>3. Lawful(q, t, m) /\ q.held = {}
  BY <1>1, <1>2, IdleIsLawful DEF Lawful
<1> QED BY <1>1, <1>2, <1>3, QuietStep DEF Return

LEMMA CrashStep == ASSUME IInv, NEW w \in Run, Crash(w) PROVE IInv'
<1>1. PICK r, t, m :
        /\ r = runs[w] /\ t = taken[w] /\ m = missed[w] /\ Lawful(r, t, m)
        /\ taken = [taken EXCEPT ![w] = t] /\ missed = [missed EXCEPT ![w] = m]
        /\ r.held \subseteq dirty \ abandoned
        /\ \A v \in Run \ {w} : r.held \cap runs[v].held = {}
        /\ \A v \in Run : runs[v].held \subseteq dirty \ abandoned
        /\ dirty \subseteq Item /\ abandoned \subseteq dirty /\ mark \in 0 .. MaxBatches
  BY RunFacts
<1>2. PICK q : q = [Idle EXCEPT !.pc = "crashed"]
  OBVIOUS
<1>3. Lawful(q, t, m) /\ q.held = {}
  BY <1>1, <1>2, IdleIsLawful DEF Lawful
<1>4. /\ dirty' \subseteq Item /\ abandoned' \subseteq dirty' /\ mark' \in 0 .. MaxBatches
      /\ \A v \in Run \ {w} : runs[v].held \subseteq dirty' \ abandoned'
  BY <1>1 DEF Crash
<1>5. /\ To(w, q) /\ Trouble
      /\ taken' = [taken EXCEPT ![w] = t] /\ missed' = [missed EXCEPT ![w] = m]
      /\ q.held \subseteq dirty' \ abandoned'
      /\ \A v \in Run \ {w} : q.held \cap runs[v].held = {}
  BY <1>1, <1>2, <1>3 DEF Crash
<1> QED BY <1>3, <1>4, <1>5, RunStep, Zenon

LEMMA UnavailableStep == ASSUME IInv, NEW w \in Run, Unavailable(w) PROVE IInv'
<1>1. PICK r, t, m : /\ r = runs[w] /\ t = taken[w] /\ m = missed[w] /\ Lawful(r, t, m)
                     /\ taken = [taken EXCEPT ![w] = t] /\ missed = [missed EXCEPT ![w] = m]
                     /\ mark \in 0 .. MaxBatches
  BY RunFacts
<1>2. PICK q : q = [r EXCEPT !.pc = "ended", !.reason = "capability_unavailable"]
  OBVIOUS
<1>3. r.pc = "asking" /\ Lawful(q, t, m) /\ q.held = {}
  BY <1>1, <1>2 DEF Unavailable, Lawful, RunState
<1>4. /\ To(w, q) /\ UNCHANGED <<dirty, abandoned>> /\ UNCHANGED trouble
      /\ taken' = [taken EXCEPT ![w] = t] /\ missed' = [missed EXCEPT ![w] = m]
      /\ mark' \in 0 .. MaxBatches
  BY <1>1, <1>2 DEF Unavailable
<1> QED BY <1>3, <1>4, QuietStep, Zenon

LEMMA MarkFailsStep == ASSUME IInv, NEW w \in Run, MarkFails(w) PROVE IInv'
<1>1. PICK r, t, m : /\ r = runs[w] /\ t = taken[w] /\ m = missed[w] /\ Lawful(r, t, m)
                     /\ taken = [taken EXCEPT ![w] = t] /\ missed = [missed EXCEPT ![w] = m]
                     /\ mark \in 0 .. MaxBatches
  BY RunFacts
<1>2. PICK q : q = [r EXCEPT !.pc = "failed"]
  OBVIOUS
<1>3. r.pc = "marking" /\ Lawful(q, t, m) /\ q.held = {}
  BY <1>1, <1>2 DEF MarkFails, Lawful, RunState
<1> QED BY <1>1, <1>2, <1>3, QuietStep DEF MarkFails

LEMMA AdvanceStep == ASSUME IInv, NEW w \in Run, Advance(w) PROVE IInv'
<1>1. PICK r, t, m : /\ r = runs[w] /\ t = taken[w] /\ m = missed[w] /\ Lawful(r, t, m)
                     /\ taken = [taken EXCEPT ![w] = t] /\ missed = [missed EXCEPT ![w] = m]
  BY RunFacts
<1>2. r.pc = "marking" /\ r.index + 1 \in 0 .. MaxBatches /\ 1 \in 0 .. MaxAttempts
      /\ UNCHANGED <<dirty, abandoned, taken, missed, trouble>> /\ mark' \in 0 .. MaxBatches
  BY <1>1, Bounds DEF Advance, Lawful, RunState
<1>3. ASSUME NEW q, To(w, q), Lawful(q, t, m), q.held = {} PROVE IInv'
  BY <1>1, <1>2, <1>3, QuietStep
<1>4. CASE r.claimed = 0 /\ To(w, [r EXCEPT !.pc = "ended", !.reason = "drained"])
  <2>1. PICK q : q = [r EXCEPT !.pc = "ended", !.reason = "drained"]
    OBVIOUS
  <2>2. /\ q \in RunState /\ q.pc = "ended" /\ q.reason = "drained" /\ q.held = r.held
        /\ q.claimed = r.claimed /\ q.total = r.total /\ q.batches = r.batches
    BY <1>1, <2>1 DEF Lawful, RunState
  <2>3. r.batches >= 1
    BY <1>1, <1>2, Bounds DEF Lawful, RunState
  <2>4. Lawful(q, t, m) /\ q.held = {}
    BY <1>1, <1>2, <1>4, <2>2, <2>3 DEF Lawful
  <2> QED BY <1>3, <1>4, <2>1, <2>4
<1>5. CASE /\ r.claimed > 0 /\ r.index + 1 < MaxBatches
           /\ To(w, [r EXCEPT !.pc = "asking", !.attempt = 1, !.index = @ + 1])
  <2>1. PICK q : q = [r EXCEPT !.pc = "asking", !.attempt = 1, !.index = @ + 1]
    OBVIOUS
  <2>2. Lawful(q, t, m) /\ q.held = {}
    BY <1>1, <1>2, <1>5, <2>1, Bounds DEF Lawful, RunState
  <2> QED BY <1>3, <1>5, <2>1, <2>2
<1>6. CASE /\ r.claimed > 0 /\ r.index + 1 = MaxBatches
           /\ To(w, [r EXCEPT !.pc = "ended", !.index = @ + 1, !.reason = "max_batches"])
  <2>1. PICK q : q = [r EXCEPT !.pc = "ended", !.index = @ + 1, !.reason = "max_batches"]
    OBVIOUS
  <2>2. Lawful(q, t, m) /\ q.held = {}
    BY <1>1, <1>2, <1>6, <2>1, Bounds DEF Lawful, RunState
  <2> QED BY <1>3, <1>6, <2>1, <2>2
<1> QED BY <1>1, <1>4, <1>5, <1>6 DEF Advance

LEMMA AnswerStep ==
  ASSUME IInv, NEW w \in Run, NEW errors \in SUBSET runs[w].held, Answer(w, errors)
  PROVE  IInv'
<1>1. PICK r, t, m :
        /\ r = runs[w] /\ t = taken[w] /\ m = missed[w] /\ Lawful(r, t, m)
        /\ taken = [taken EXCEPT ![w] = t] /\ missed = [missed EXCEPT ![w] = m]
        /\ \A v \in Run \ {w} : r.held \cap runs[v].held = {}
        /\ \A v \in Run : runs[v].held \subseteq dirty \ abandoned
        /\ r.held \subseteq dirty \ abandoned
        /\ dirty \subseteq Item /\ abandoned \subseteq dirty /\ mark \in 0 .. MaxBatches
  BY RunFacts
<1>2. PICK c : c = Cardinality(r.held)
  OBVIOUS
<1>3. c \in 0 .. Limit
  BY <1>1, <1>2, FS_CardinalityType, Bounds DEF Lawful
<1>4. PICK q : q = [r EXCEPT !.pc = "marking", !.held = {}, !.claimed = c,
                             !.batches = @ + 1, !.total = @ + c]
  OBVIOUS
<1>5. r.pc = "working" /\ r.batches + 1 \in 0 .. MaxBatches /\ r.total + c \in Nat
      /\ r.batches \in Nat /\ r.total \in Nat
  BY <1>1, <1>3, Bounds DEF Answer, Lawful, RunState
<1>6. /\ q \in RunState /\ q.pc = "marking" /\ q.held = {} /\ q.claimed = c /\ q.index = r.index
      /\ q.batches = r.batches + 1 /\ q.total = r.total + c /\ q.reason = r.reason
  BY <1>1, <1>3, <1>4, <1>5 DEF Lawful, RunState
<1>7. Lawful(q, t, m)
  <2>1. t = r.total + m + c /\ m \in Nat /\ r.reason = "none" /\ r.batches = r.index
    BY <1>1, <1>2, <1>5 DEF Lawful
  <2>2. IsFiniteSet({}) /\ Cardinality({}) = 0 /\ 0 <= Limit
    BY FS_EmptySet, Bounds
  <2>3. t = q.total + m + 0
    BY <1>3, <1>5, <1>6, <2>1
  <2> QED BY <1>1, <1>6, <2>1, <2>2, <2>3 DEF Lawful
<1>8. /\ To(w, q) /\ (Trouble \/ UNCHANGED trouble) /\ mark' \in 0 .. MaxBatches
      /\ taken' = [taken EXCEPT ![w] = t] /\ missed' = [missed EXCEPT ![w] = m]
  BY <1>1, <1>2, <1>4 DEF Answer
<1>9. /\ dirty' \subseteq Item /\ abandoned' \subseteq dirty'
      /\ q.held \subseteq dirty' \ abandoned'
      /\ \A v \in Run \ {w} : /\ q.held \cap runs[v].held = {}
                              /\ runs[v].held \subseteq dirty' \ abandoned'
  BY <1>1, <1>6 DEF Answer
<1> QED BY <1>7, <1>8, <1>9, RunStep, Zenon

LEMMA ClaimStep ==
  ASSUME IInv, NEW w \in Run, NEW items \in SUBSET Free, Claim(w, items)
  PROVE  IInv'
<1>1. PICK r, t, m :
        /\ r = runs[w] /\ t = taken[w] /\ m = missed[w] /\ Lawful(r, t, m)
        /\ missed = [missed EXCEPT ![w] = m]
        /\ \A v \in Run : runs[v].held \subseteq dirty \ abandoned
        /\ dirty \subseteq Item /\ abandoned \subseteq dirty /\ mark \in 0 .. MaxBatches
  BY RunFacts
<1>2. IsFiniteSet(items)
  BY <1>1, ItemAssumption, FS_Subset DEF Free
<1>3. PICK c : c = Cardinality(items)
  OBVIOUS
<1>4. c \in Nat /\ c <= Limit
  BY <1>2, <1>3, FS_CardinalityType DEF Claim
<1>5. PICK q : q = [r EXCEPT !.pc = "working", !.held = items]
  OBVIOUS
<1>6. r.pc = "asking" /\ items \subseteq Item
  BY <1>1 DEF Claim, Free
<1>7. /\ q \in RunState /\ q.pc = "working" /\ q.held = items /\ q.index = r.index
      /\ q.claimed = r.claimed /\ q.batches = r.batches /\ q.total = r.total
      /\ q.reason = r.reason
  BY <1>1, <1>5, <1>6 DEF Lawful, RunState
<1>8. Lawful(q, t + c, m)
  <2>1. t = r.total + m + 0 /\ t \in Nat /\ m \in Nat /\ r.total \in Nat
    BY <1>1, <1>6, FS_EmptySet DEF Lawful, RunState
  <2>2. t + c = q.total + m + c /\ t + c \in Nat
    BY <1>4, <1>7, <2>1
  <2> QED BY <1>1, <1>2, <1>3, <1>4, <1>6, <1>7, <2>1, <2>2 DEF Lawful
<1>9. /\ To(w, q) /\ UNCHANGED trouble /\ mark' \in 0 .. MaxBatches
      /\ taken' = [taken EXCEPT ![w] = t + c] /\ missed' = [missed EXCEPT ![w] = m]
  BY <1>1, <1>3, <1>5 DEF Claim
<1>10. /\ dirty' \subseteq Item /\ abandoned' \subseteq dirty'
       /\ q.held \subseteq dirty' \ abandoned'
       /\ \A v \in Run \ {w} : /\ q.held \cap runs[v].held = {}
                               /\ runs[v].held \subseteq dirty' \ abandoned'
  <2>1. (\A v \in Run : runs[v].held \subseteq Held) /\ abandoned \subseteq Held
    BY DEF Held
  <2>2. items \subseteq dirty /\ items \cap Held = {}
    BY DEF Free
  <2>3. dirty' = dirty /\ abandoned' = abandoned
    BY DEF Claim
  <2> QED BY <1>1, <1>7, <2>1, <2>2, <2>3
<1> QED BY <1>8, <1>9, <1>10, RunStep, Zenon

\* The run after a request without an answer.
LEMMA NoAnswerIsLawful ==
  ASSUME NEW w \in Run, NoAnswer(w), NEW r, r = runs[w], NEW t, NEW m, NEW n \in Nat,
         Lawful(r, t, m), r.pc \in {"asking", "working"}, n = m + Cardinality(r.held)
  PROVE  \E q : To(w, q) /\ Lawful(q, t, n) /\ q.held = {}
<1>0. /\ r \in RunState /\ t \in Nat /\ m \in Nat /\ t = r.total + m + Cardinality(r.held)
      /\ IsFiniteSet({}) /\ Cardinality({}) = 0 /\ 0 <= Limit /\ r.total \in Nat
      /\ r.reason = "none" /\ r.batches = r.index /\ r.index < MaxBatches
  BY FS_EmptySet, Bounds DEF Lawful, RunState
<1>1. t = r.total + n + 0
  <2>1. Cardinality(r.held) \in Nat
    BY FS_CardinalityType DEF Lawful
  <2> QED BY <1>0, <2>1
<1>2. CASE r.attempt < MaxAttempts /\ AskAgain(w)
  <2>1. PICK q : q = [r EXCEPT !.pc = "asking", !.attempt = @ + 1, !.held = {}]
    OBVIOUS
  <2>2. r.attempt + 1 \in 0 .. MaxAttempts
    BY <1>0, <1>2, Bounds DEF RunState
  <2>3. /\ q \in RunState /\ q.pc = "asking" /\ q.held = {} /\ q.index = r.index
        /\ q.batches = r.batches /\ q.total = r.total /\ q.reason = r.reason
    BY <1>0, <2>1, <2>2 DEF RunState
  <2>4. To(w, q) /\ Lawful(q, t, n)
    BY <1>0, <1>1, <1>2, <2>1, <2>3 DEF AskAgain, Lawful
  <2> QED BY <2>3, <2>4
<1>3. CASE Fail(w)
  <2>1. PICK q : q = [r EXCEPT !.pc = "failed", !.held = {}]
    OBVIOUS
  <2>2. /\ q \in RunState /\ q.pc = "failed" /\ q.held = {} /\ q.index = r.index
        /\ q.batches = r.batches /\ q.total = r.total /\ q.reason = r.reason
    BY <1>0, <2>1 DEF RunState
  <2>3. To(w, q) /\ Lawful(q, t, n)
    BY <1>0, <1>1, <1>3, <2>1, <2>2 DEF Fail, Lawful
  <2> QED BY <2>2, <2>3
<1> QED BY <1>2, <1>3 DEF NoAnswer, AskAgain

LEMMA RequestFailsStep == ASSUME IInv, NEW w \in Run, RequestFails(w) PROVE IInv'
<1>1. PICK r, t, m : /\ r = runs[w] /\ t = taken[w] /\ m = missed[w] /\ Lawful(r, t, m)
                     /\ taken = [taken EXCEPT ![w] = t] /\ missed = [missed EXCEPT ![w] = m]
                     /\ mark \in 0 .. MaxBatches
  BY RunFacts
<1>2. r.pc = "asking" /\ NoAnswer(w) /\ m \in Nat /\ m = m + Cardinality(r.held)
  BY <1>1, FS_EmptySet DEF RequestFails, Lawful
<1>3. PICK q : To(w, q) /\ Lawful(q, t, m) /\ q.held = {}
  BY <1>1, <1>2, NoAnswerIsLawful
<1> QED BY <1>1, <1>3, QuietStep DEF RequestFails

LEMMA AnswerLostStep == ASSUME IInv, NEW w \in Run, AnswerLost(w) PROVE IInv'
<1>1. PICK r, t, m :
        /\ r = runs[w] /\ t = taken[w] /\ m = missed[w] /\ Lawful(r, t, m)
        /\ taken = [taken EXCEPT ![w] = t]
        /\ r.held \subseteq dirty \ abandoned
        /\ \A v \in Run \ {w} : r.held \cap runs[v].held = {}
        /\ \A v \in Run : runs[v].held \subseteq dirty \ abandoned
        /\ dirty \subseteq Item /\ abandoned \subseteq dirty /\ mark \in 0 .. MaxBatches
  BY RunFacts
<1>2. PICK n : n = m + Cardinality(r.held)
  OBVIOUS
<1>3. r.pc = "working" /\ NoAnswer(w) /\ n \in Nat
  BY <1>1, <1>2, FS_CardinalityType DEF AnswerLost, Lawful
<1>4. PICK q : To(w, q) /\ Lawful(q, t, n) /\ q.held = {}
  <2>1. Lawful(r, t, m) /\ r = runs[w] /\ r.pc \in {"asking", "working"}
    BY <1>1, <1>3
  <2>2. n \in Nat /\ n = m + Cardinality(r.held) /\ NoAnswer(w)
    BY <1>2, <1>3
  <2> QED BY <2>1, <2>2, NoAnswerIsLawful, Z3
<1>5. /\ taken' = [taken EXCEPT ![w] = t] /\ missed' = [missed EXCEPT ![w] = n]
      /\ Trouble /\ mark' \in 0 .. MaxBatches
      /\ dirty' \subseteq Item /\ abandoned' \subseteq dirty'
      /\ q.held \subseteq dirty' \ abandoned'
      /\ \A v \in Run \ {w} : /\ q.held \cap runs[v].held = {}
                              /\ runs[v].held \subseteq dirty' \ abandoned'
  BY <1>1, <1>2, <1>4 DEF AnswerLost
<1> QED BY <1>4, <1>5, RunStep, Zenon

-----------------------------------------------------------------------------
(* MaluDB and the tenant.                                                   *)

LEMMA QueueStep ==
  ASSUME IInv, UNCHANGED <<runs, mark, taken, missed>>, Trouble \/ UNCHANGED trouble,
         dirty' \subseteq Item, abandoned' \subseteq dirty',
         \A v \in Run : runs[v].held \subseteq dirty' \ abandoned'
  PROVE  IInv'
<1>1. Typed'
  BY TroubleType DEF IInv, Typed
<1> QED BY <1>1 DEF IInv, Apart

LEMMA ReleaseStep ==
  ASSUME IInv, NEW i \in Item, NEW done \in BOOLEAN, Release(i, done)
  PROVE  IInv'
<1>1. /\ dirty \subseteq Item /\ abandoned \subseteq dirty
      /\ \A v \in Run : runs[v].held \subseteq dirty \ abandoned
  BY DEF IInv, Typed
<1>2. /\ abandoned' = abandoned \ {i} /\ i \in abandoned
      /\ dirty' = dirty \ {i} \/ dirty' = dirty
      /\ Trouble \/ UNCHANGED trouble
  BY DEF Release
<1>3. /\ dirty' \subseteq Item /\ abandoned' \subseteq dirty'
      /\ \A v \in Run : runs[v].held \subseteq dirty' \ abandoned'
  BY <1>1, <1>2
<1> QED BY <1>2, <1>3, QueueStep DEF Release

LEMMA TouchStep == ASSUME IInv, NEW i \in Item, Touch(i) PROVE IInv'
<1>1. /\ dirty \subseteq Item /\ abandoned \subseteq dirty
      /\ \A v \in Run : runs[v].held \subseteq dirty \ abandoned
  BY DEF IInv, Typed
<1>2. /\ i \notin abandoned /\ abandoned' = abandoned /\ dirty' = dirty \cup {i}
      /\ Trouble \/ UNCHANGED trouble
  <2>1. abandoned \subseteq Held
    BY DEF Held
  <2>2. i \notin Held /\ abandoned' = abandoned /\ dirty' = dirty \cup {i}
    BY DEF Touch
  <2>3. Trouble \/ UNCHANGED trouble
    BY RestlessAssumption DEF Touch
  <2> QED BY <2>1, <2>2, <2>3
<1>3. /\ dirty' \subseteq Item /\ abandoned' \subseteq dirty'
      /\ \A v \in Run : runs[v].held \subseteq dirty' \ abandoned'
  BY <1>1, <1>2
<1> QED BY <1>2, <1>3, QueueStep DEF Touch

-----------------------------------------------------------------------------
(* The properties.                                                          *)

LEMMA IInvInit == Init => IInv
<1> SUFFICES ASSUME Init PROVE IInv
  OBVIOUS
<1>1. 0 \in 0 .. MaxBatches /\ 0 \in 0 .. MaxTrouble
  BY Bounds
<1>2. Typed
  BY <1>1, IdleType DEF Init, Typed
<1>3. ASSUME NEW w \in Run PROVE Lawful(runs[w], taken[w], missed[w]) /\ runs[w].held = {}
  <2>1. Lawful(Idle, 0, 0) /\ Idle.held = {}
    BY IdleIsLawful
  <2> QED BY <2>1 DEF Init
<1> QED BY <1>2, <1>3 DEF IInv, Apart

LEMMA IInvStep == ASSUME IInv, [Next]_vars PROVE IInv'
<1>1. ASSUME NEW w \in Run, Step(w) PROVE IInv'
  BY <1>1, ClaimStep, AnswerStep, AdvanceStep, ReturnStep DEF Step
<1>2. CASE UNCHANGED vars
  <2>1. UNCHANGED <<dirty, abandoned, runs, mark, taken, missed, trouble>>
    BY <1>2 DEF vars
  <2> QED BY <2>1, QueueStep DEF IInv, Typed
<1> QED BY <1>1, <1>2, StartStep, UnavailableStep, MarkFailsStep, CrashStep, RequestFailsStep,
           AnswerLostStep, TouchStep, ReleaseStep DEF Next

LEMMA IInvImplies == IInv => TypeOK /\ TotalsAreExact /\ ReasonIsRight
BY DEF IInv, Typed, Lawful, TypeOK, TotalsAreExact, ReasonIsRight

LEMMA Invariant == Spec => []IInv
<1>1. IInv /\ [Next]_vars => IInv'
  BY IInvStep
<1> QED BY <1>1, IInvInit, PTL DEF Spec

\* Sweeps stay within their batches and attempts, whatever fails, and however many overlap:
\* no item is held by two batches, or held and clean.
THEOREM TypeCorrect == Spec => []TypeOK
BY Invariant, IInvImplies, PTL

\* The total of a sweep is what MaluDB claimed for it but for the answers that were lost.
THEOREM TotalsStayExact == Spec => []TotalsAreExact
BY Invariant, IInvImplies, PTL

\* A sweep never says "drained" or "max_batches" for another reason.
THEOREM ReasonsAreRight == Spec => []ReasonIsRight
BY Invariant, IInvImplies, PTL

-----------------------------------------------------------------------------
(* Why a sweep ends.  Each of its steps uses up some of its batches or of   *)
(* the attempts at a batch, and nothing that other sweeps, MaluDB or the    *)
(* tenant do gives them back; SweepsEnd needs fairness beyond this only.    *)

\* Steps of one batch at most: two for each attempt, and the watermark.
PerBatch == 2 * MaxAttempts + 1

\* The rounds left are those after the batch in progress.
StepsOf(r) ==
  LET later == (MaxBatches - r.index - 1) * PerBatch
      retries == MaxAttempts - r.attempt
  IN  CASE r.pc = "asking"             -> later + 2 * retries + 4
        [] r.pc = "working"            -> later + 2 * retries + 3
        [] r.pc = "marking"            -> later + 2
        [] r.pc \in {"ended", "failed"} -> 1
        [] r.pc \in {"idle", "crashed"} -> 0

StepsLeft(w) == StepsOf(runs[w])

\* A sweep under way stands still or comes closer to its end, which is never more than
\* a fixed number of steps away.
RunsDown ==
  \A w \in Run : runs[w].pc \notin {"idle", "crashed"} =>
    /\ StepsLeft(w) \in 0 .. MaxBatches * PerBatch + 3
    /\ runs'[w] = runs[w] \/ StepsLeft(w)' < StepsLeft(w)

\* The batches after one of index n, and one batch fewer.
LEMMA Later ==
  ASSUME NEW n \in 0 .. MaxBatches - 1
  PROVE  /\ PerBatch = 2 * MaxAttempts + 1 /\ PerBatch \in Nat
         /\ MaxBatches * PerBatch \in Nat
         /\ (MaxBatches - n - 1) * PerBatch \in Nat
         /\ (MaxBatches - n - 1) * PerBatch + PerBatch <= MaxBatches * PerBatch
         /\ n + 1 < MaxBatches =>
              (MaxBatches - n - 1) * PerBatch
                = (MaxBatches - (n + 1) - 1) * PerBatch + PerBatch
<1>1. PerBatch = 2 * MaxAttempts + 1 /\ PerBatch \in Nat /\ MaxBatches \in Nat /\ n \in Nat
  BY Bounds DEF PerBatch
<1> HIDE DEF PerBatch
<1>2. PICK b : b = MaxBatches - n - 1
  OBVIOUS
<1>3. b \in Nat
  BY <1>1, <1>2
<1>4. b * PerBatch \in Nat /\ n * PerBatch \in Nat
  BY <1>1, <1>3
<1>5. MaxBatches * PerBatch = b * PerBatch + n * PerBatch + PerBatch
  BY <1>1, <1>2, <1>3
<1>6. n + 1 < MaxBatches => b * PerBatch = (b - 1) * PerBatch + PerBatch
                            /\ MaxBatches - (n + 1) - 1 = b - 1
  BY <1>1, <1>2, <1>3
<1>7. /\ (MaxBatches - n - 1) * PerBatch = b * PerBatch
      /\ n + 1 < MaxBatches =>
           (MaxBatches - (n + 1) - 1) * PerBatch = (b - 1) * PerBatch
  BY <1>2, <1>6
<1>8. MaxBatches * PerBatch \in Nat /\ b * PerBatch + PerBatch <= MaxBatches * PerBatch
  BY <1>1, <1>4, <1>5
<1> QED BY <1>1, <1>4, <1>6, <1>7, <1>8

\* What is known of a sweep under way.
LEMMA UnderWay ==
  ASSUME IInv, NEW w \in Run
  PROVE  /\ runs[w] \in RunState /\ runs[w].attempt \in 0 .. MaxAttempts
         /\ runs[w].pc \in {"asking", "working", "marking"} =>
              /\ runs[w].index \in 0 .. MaxBatches - 1
              /\ PerBatch = 2 * MaxAttempts + 1 /\ PerBatch \in Nat
              /\ MaxBatches * PerBatch \in Nat
              /\ (MaxBatches - runs[w].index - 1) * PerBatch \in Nat
              /\ (MaxBatches - runs[w].index - 1) * PerBatch + PerBatch
                   <= MaxBatches * PerBatch
<1>1. Lawful(runs[w], taken[w], missed[w])
  BY DEF IInv
<1>2. runs[w] \in RunState /\ runs[w].attempt \in 0 .. MaxAttempts
  BY <1>1 DEF Lawful, RunState
<1>3. ASSUME runs[w].pc \in {"asking", "working", "marking"}
      PROVE  runs[w].index \in 0 .. MaxBatches - 1
  BY <1>1, <1>3, Bounds DEF Lawful, RunState
<1> QED BY <1>2, <1>3, Later

LEMMA FewStepsLeft ==
  ASSUME IInv, NEW w \in Run, runs[w].pc \notin {"idle", "crashed"}
  PROVE  StepsLeft(w) \in 1 .. MaxBatches * PerBatch + 3
<1>1. MaxBatches * PerBatch \in Nat
  <2>1. 0 \in 0 .. MaxBatches - 1
    BY Bounds
  <2> QED BY <2>1, Later
<1>2. CASE runs[w].pc \in {"ended", "failed"}
  BY <1>1, <1>2 DEF StepsLeft, StepsOf
<1>3. CASE runs[w].pc \in {"asking", "working", "marking"}
  BY <1>3, UnderWay, Bounds DEF StepsLeft, StepsOf
<1> QED BY <1>2, <1>3, UnderWay DEF RunState

\* Where a step may take the sweep it moves.
LEMMA MoveRunsDown ==
  ASSUME IInv, NEW w \in Run, NEW r, To(w, r),
         LET q == runs[w] IN
           \/ q.pc \in {"idle", "crashed"}
           \/ q.pc \in {"asking", "working", "marking"} /\ r.pc \in {"ended", "failed"}
           \/ r.pc \in {"idle", "crashed"}
           \/ /\ r.index = q.index /\ r.attempt = q.attempt
              /\ \/ q.pc = "asking" /\ r.pc = "working"
                 \/ q.pc = "working" /\ r.pc = "marking"
           \/ /\ q.pc \in {"asking", "working"} /\ r.pc = "asking" /\ r.index = q.index
              /\ q.attempt < MaxAttempts /\ r.attempt = q.attempt + 1
           \/ /\ q.pc = "marking" /\ r.pc = "asking" /\ q.index + 1 < MaxBatches
              /\ r.index = q.index + 1 /\ r.attempt = 1
  PROVE  RunsDown
<1>1. \A v \in Run : runs'[v] = IF v = w THEN r ELSE runs[v]
  BY DEF IInv, Typed, To
<1>2. ASSUME runs[w].pc \notin {"idle", "crashed"}
      PROVE  StepsOf(r) < StepsOf(runs[w])
  <2>2. CASE r.pc \in {"idle", "crashed"}
    <3>1. StepsOf(r) = 0
      BY <2>2 DEF StepsOf
    <3>2. StepsOf(runs[w]) \in 1 .. MaxBatches * PerBatch + 3
      BY <1>2, FewStepsLeft DEF StepsLeft
    <3> QED BY <3>1, <3>2
  <2>3. CASE runs[w].pc \in {"asking", "working", "marking"} /\ r.pc \in {"ended", "failed"}
    BY <2>3, UnderWay, Bounds DEF StepsOf
  <2>4. CASE /\ r.index = runs[w].index /\ r.attempt = runs[w].attempt
             /\ \/ runs[w].pc = "asking" /\ r.pc = "working"
                \/ runs[w].pc = "working" /\ r.pc = "marking"
    BY <2>4, UnderWay, Bounds DEF StepsOf
  <2>5. CASE /\ runs[w].pc \in {"asking", "working"} /\ r.pc = "asking"
             /\ r.index = runs[w].index
             /\ runs[w].attempt < MaxAttempts /\ r.attempt = runs[w].attempt + 1
    BY <2>5, UnderWay, Bounds DEF StepsOf
  <2>6. CASE /\ runs[w].pc = "marking" /\ r.pc = "asking" /\ runs[w].index + 1 < MaxBatches
             /\ r.index = runs[w].index + 1 /\ r.attempt = 1
    <3>1. runs[w].index \in 0 .. MaxBatches - 1
      BY <2>6, UnderWay
    <3>2. (MaxBatches - runs[w].index - 1) * PerBatch
            = (MaxBatches - (runs[w].index + 1) - 1) * PerBatch + PerBatch
      BY <2>6, <3>1, Later
    <3> QED BY <2>6, <3>2, UnderWay, Bounds DEF StepsOf
  <2> QED BY <1>2, <2>2, <2>3, <2>4, <2>5, <2>6
<1> QED BY <1>1, <1>2, FewStepsLeft DEF RunsDown, StepsLeft

LEMMA NextRunsDown == IInv /\ [Next]_vars => [RunsDown]_vars
<1> SUFFICES ASSUME IInv, Next PROVE RunsDown
  BY DEF vars
<1>0. \A w \in Run : runs[w] \in RunState
  BY DEF IInv, Typed
<1>1. ASSUME NEW w \in Run, Start(w) PROVE RunsDown
  BY <1>1, MoveRunsDown DEF Start
<1>2. ASSUME NEW w \in Run, Return(w) \/ Crash(w) PROVE RunsDown
  <2>1. Idle.pc = "idle" /\ [Idle EXCEPT !.pc = "crashed"].pc = "crashed"
    BY DEF Idle
  <2> QED BY <1>2, <2>1, MoveRunsDown DEF Return, Crash
<1>3. ASSUME NEW w \in Run, Unavailable(w) \/ MarkFails(w) PROVE RunsDown
  <2> DEFINE e == [runs[w] EXCEPT !.pc = "ended", !.reason = "capability_unavailable"]
             f == [runs[w] EXCEPT !.pc = "failed"]
  <2>1. e.pc = "ended" /\ f.pc = "failed"
    BY <1>0 DEF RunState
  <2>2. runs[w].pc \in {"asking", "marking"} /\ (To(w, e) \/ To(w, f))
    BY <1>3 DEF Unavailable, MarkFails
  <2> HIDE DEF e, f
  <2> QED BY <2>1, <2>2, MoveRunsDown
<1>4. ASSUME NEW w \in Run, RequestFails(w) \/ AnswerLost(w) PROVE RunsDown
  <2> DEFINE a == [runs[w] EXCEPT !.pc = "asking", !.attempt = @ + 1, !.held = {}]
             f == [runs[w] EXCEPT !.pc = "failed", !.held = {}]
  <2>1. /\ a.pc = "asking" /\ a.index = runs[w].index /\ a.attempt = runs[w].attempt + 1
        /\ f.pc = "failed"
    BY <1>0 DEF RunState
  <2>2. /\ runs[w].pc \in {"asking", "working"}
        /\ (runs[w].attempt < MaxAttempts /\ To(w, a)) \/ To(w, f)
    BY <1>4 DEF RequestFails, AnswerLost, NoAnswer, AskAgain, Fail
  <2> HIDE DEF a, f
  <2> QED BY <2>1, <2>2, MoveRunsDown
<1>5. ASSUME NEW w \in Run, NEW items \in SUBSET Free, Claim(w, items) PROVE RunsDown
  <2> DEFINE c == [runs[w] EXCEPT !.pc = "working", !.held = items]
  <2>1. c.pc = "working" /\ c.index = runs[w].index /\ c.attempt = runs[w].attempt
    BY <1>0 DEF RunState
  <2>2. runs[w].pc = "asking" /\ To(w, c)
    BY <1>5 DEF Claim
  <2> HIDE DEF c
  <2> QED BY <2>1, <2>2, MoveRunsDown
<1>6. ASSUME NEW w \in Run, NEW errors \in SUBSET runs[w].held, Answer(w, errors)
      PROVE  RunsDown
  <2> DEFINE m == [runs[w] EXCEPT !.pc = "marking", !.held = {},
                                  !.claimed = Cardinality(runs[w].held),
                                  !.batches = @ + 1,
                                  !.total = @ + Cardinality(runs[w].held)]
  <2>1. m.pc = "marking" /\ m.index = runs[w].index /\ m.attempt = runs[w].attempt
    BY <1>0 DEF RunState
  <2>2. runs[w].pc = "working" /\ To(w, m)
    BY <1>6 DEF Answer
  <2> HIDE DEF m
  <2> QED BY <2>1, <2>2, MoveRunsDown
<1>7. ASSUME NEW w \in Run, Advance(w) PROVE RunsDown
  <2> DEFINE a == [runs[w] EXCEPT !.pc = "asking", !.attempt = 1, !.index = @ + 1]
             d == [runs[w] EXCEPT !.pc = "ended", !.reason = "drained"]
             m == [runs[w] EXCEPT !.pc = "ended", !.index = @ + 1, !.reason = "max_batches"]
  <2>1. /\ a.pc = "asking" /\ a.index = runs[w].index + 1 /\ a.attempt = 1
        /\ d.pc = "ended" /\ m.pc = "ended"
    BY <1>0 DEF RunState
  <2>2. /\ runs[w].pc = "marking"
        /\ (runs[w].index + 1 < MaxBatches /\ To(w, a)) \/ To(w, d) \/ To(w, m)
    BY <1>7 DEF Advance
  <2> HIDE DEF a, d, m
  <2> QED BY <2>1, <2>2, MoveRunsDown
\* MaluDB and the tenant move no sweep.
<1>8. ASSUME NEW i \in Item, Touch(i) \/ \E done \in BOOLEAN : Release(i, done)
      PROVE  RunsDown
  <2>1. runs' = runs
    BY <1>8 DEF Touch, Release
  <2>2. \A w \in Run : runs[w].pc \notin {"idle", "crashed"} =>
          StepsLeft(w) \in 1 .. MaxBatches * PerBatch + 3
    BY FewStepsLeft
  <2> QED BY <2>1, <2>2 DEF RunsDown
<1> QED BY <1>1, <1>2, <1>3, <1>4, <1>5, <1>6, <1>7, <1>8 DEF Next, Step

\* A sweep always ends, even if the tenant makes items dirty as fast as it drains them:
\* each of its steps brings it closer to its end, by its batch cap and the client's
\* attempts, and no step of anybody else sets it back.
THEOREM SweepsRunDown == Spec => [][RunsDown]_vars
<1>1. IInv /\ [Next]_vars => [RunsDown]_vars
  BY NextRunsDown
<1> QED BY <1>1, Invariant, PTL DEF Spec

=============================================================================
