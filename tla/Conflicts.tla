------------------------------ MODULE Conflicts -------------------------------
(***************************************************************************)
(* Contradiction scans of one subject, from the statements that are listed *)
(* to the one that is closed: how they are grouped, what is made of the    *)
(* model's answer, which statement loses, and what a scan that works on an *)
(* old list, or an item accepted late, closes while others do the same.    *)
(*                                                                         *)
(* MaluDB is external: it lists at most ListLimit statements of its choice,*)
(* closed ones among them, in an order that does not change (ids stand for *)
(* it).  Its other users assert statements, revise their confidence and    *)
(* close them; slot and object of a statement do not change.  The model is *)
(* external: it answers anything.                                          *)
(*                                                                         *)
(* Abstractions.  A slot is a pair of verb and predicate, the null         *)
(* predicate being one; an object is a kind and an id, or nulls.           *)
(* Confidences are multiples of 1/Full.  What an answer has for            *)
(* `contradiction` is true, false, or something else that JavaScript takes *)
(* for true (as "false", or 1) or for false (as 0, null, or nothing).      *)
(* Budgets are in ScanBudget, rows of review items in ReviewQueue.         *)
(***************************************************************************)
EXTENDS Integers, FiniteSets

CONSTANTS Statement,      \* ids, numbered in the order they are listed
          Slot, Object,
          Scan,           \* the scans that may overlap
          ListLimit,      \* limit of a list of statements
          Full,           \* the confidence 1.0
          Stated,         \* the confidences that statements carry, or Null
          MinConfidence,  \* minConfidenceToFlag, in the job's payload
          AutoResolve, CreateItems,  \* the same
          Answer,         \* what the model may answer
          MaxChanges,     \* bound on what others do to statements once asserted
          MaxItems,       \* bound on review items
          Null            \* null, or what is not there

ASSUME StatementAssumption == Statement \subseteq Nat /\ IsFiniteSet(Statement)
ASSUME ConfidenceAssumption ==
  Full \in Nat /\ MinConfidence \in 0..Full /\ Stated \subseteq 0..Full \cup {Null}
ASSUME LimitAssumption == {ListLimit, MaxChanges, MaxItems} \subseteq Nat
ASSUME PayloadAssumption == {AutoResolve, CreateItems} \subseteq BOOLEAN
ASSUME AnswerAssumption ==
  \A a \in Answer : /\ a.json \in BOOLEAN
                    /\ a.contradiction \in {"true", "false", "truthy", "falsy"}
                    /\ a.confidence = Null \/ a.confidence \in Int

\* What a statement says.
Said == [slot : Slot, object : Object, confidence : Stated]
ASSUME NullAssumption == Null \notin Int /\ Null \notin Said

VARIABLES
  said,      \* MaluDB: what the asserted statements say
  closed,    \* MaluDB: the statements whose validity has ended
  scans,     \* the scans' local variables, the listed statements with their confidence
  items,     \* the review items: a group, what was answered for it, what is to be closed
  changes,   \* what others did to asserted statements so far
  warrants,  \* history: for which group, and after which answer, the program closed what
  held,      \* history: the confidences that each statement has had
  withdrawn  \* history: the statements that others closed

vars == <<said, closed, scans, items, changes, warrants, held, withdrawn>>
others == <<changes, held, withdrawn>>

Idle == [pc |-> "idle", listed |-> [s \in {} |-> Null], found |-> {}, todo |-> {},
         group |-> {}, answer |-> Null]

Init ==
  /\ said = [s \in Statement |-> Null]
  /\ closed = {}
  /\ scans = [c \in Scan |-> Idle]
  /\ items = {}
  /\ changes = 0
  /\ warrants = {}
  /\ held = [s \in Statement |-> {}]
  /\ withdrawn = {}

Asserted == {s \in Statement : said[s] # Null}

-----------------------------------------------------------------------------
(* The algorithms.                                                          *)

InSlot(listed, k) == {s \in listed : said[s].slot = k}
Objects(g) == {said[s].object : s \in g}

\* Mutant: two statements suffice.
Repetitions(listed) ==
  {g \in {InSlot(listed, k) : k \in Slot} : Cardinality(g) >= 2}

\* The groups of active statements of a slot that have two objects or more.
FindCandidateConflicts(listed) ==
  {g \in {InSlot(listed, k) : k \in Slot} : Cardinality(g) >= 2 /\ Cardinality(Objects(g)) >= 2}

Clamp(x) == IF x < 0 THEN 0 ELSE IF x > Full THEN Full ELSE x

\* Mutant: an answer without a confidence is taken to be sure.
ParseTrustfully(a) ==
  IF ~a.json THEN [contradiction |-> FALSE, confidence |-> 0]
  ELSE [contradiction |-> a.contradiction \in {"true", "truthy"},
        confidence |-> IF a.confidence = Null THEN Full ELSE Clamp(a.confidence)]

\* parseVerdict: text without JSON is no contradiction, a confidence that is not a
\* number is none, and Boolean() takes more than true for a contradiction.
ParseVerdict(a) ==
  IF ~a.json THEN [contradiction |-> FALSE, confidence |-> 0]
  ELSE [contradiction |-> a.contradiction \in {"true", "truthy"},
        confidence |-> IF a.confidence = Null THEN 0 ELSE Clamp(a.confidence)]

IsFlagged(verdict) == verdict.contradiction /\ verdict.confidence >= MinConfidence

\* confidence ?? 0
Amount(x) == IF x = Null THEN 0 ELSE x

\* The order of the stable sort by confidence.
Before(s, x, u, y) == Amount(x) < Amount(y) \/ (Amount(x) = Amount(y) /\ s < u)

\* Mutant: the statement that was listed first is closed.
IsFirst(s, g, listed) == s \in g /\ \A u \in g \ {s} : s < u

\* By the confidences that were listed, whatever they are by now.
IsLoser(s, g, listed) ==
  s \in g /\ \A u \in g \ {s} : Before(s, listed[s], u, listed[u])

-----------------------------------------------------------------------------
(* MaluDB's other users, and the operators.                                 *)

AssertStatement(s, slot, object, confidence) ==
  /\ said[s] = Null
  /\ said' = [said EXCEPT ![s] = [slot |-> slot, object |-> object, confidence |-> confidence]]
  /\ held' = [held EXCEPT ![s] = {confidence}]
  /\ UNCHANGED <<closed, scans, items, changes, warrants, withdrawn>>

Change ==
  /\ changes < MaxChanges
  /\ changes' = changes + 1
  /\ UNCHANGED <<scans, items, warrants>>

\* The score of a statement is adjusted.
Revise(s, confidence) ==
  /\ Change
  /\ said[s] # Null /\ said[s].confidence # confidence
  /\ said' = [said EXCEPT ![s] = [@ EXCEPT !.confidence = confidence]]
  /\ held' = [held EXCEPT ![s] = @ \cup {confidence}]
  /\ UNCHANGED <<closed, withdrawn>>

\* PATCH /v1/statements/{id}, by another of MaluDB's users.
Withdraw(s) ==
  /\ Change
  /\ said[s] # Null /\ s \notin closed
  /\ closed' = closed \cup {s}
  /\ withdrawn' = withdrawn \cup {s}
  /\ UNCHANGED <<said, held>>

\* PATCH /v1/statements/{id}, by this program.
Close(s, group, answer) ==
  /\ closed' = closed \cup {s}
  /\ warrants' = warrants \cup {[statement |-> s, group |-> group, answer |-> answer]}

\* An operator accepts an item, whatever has happened since it was raised.
Accept(i) ==
  /\ i \in items
  /\ Close(i.loser, i.group, i.answer)
  /\ UNCHANGED <<said, scans, items, others>>

-----------------------------------------------------------------------------
(* A scan.                                                                  *)

To(c, r) == scans' = [scans EXCEPT ![c] = r]

\* On to the next group, in the order in which they first occur, or the end.
Continue(r, todo) == IF todo = {} THEN Idle ELSE [r EXCEPT !.pc = "judging", !.todo = todo]

\* listStatements, whose closed statements are left out, and the grouping.  The scan works
\* on what was listed, confidences included, until it ends.
List(c) ==
  /\ scans[c].pc = "idle"
  /\ \E page \in SUBSET Asserted :
       LET active == [s \in page \ closed |-> said[s].confidence]
           groups == FindCandidateConflicts(DOMAIN active) IN
       /\ Cardinality(page) <= ListLimit
       /\ To(c, Continue([Idle EXCEPT !.listed = active, !.found = groups], groups))
  /\ UNCHANGED <<said, closed, items, warrants, others>>

IsNext(g, todo) == g \in todo /\ \A h \in todo \ {g} : \E s \in g : \A u \in h : s < u

\* Mutant: the verdict's confidence and rationale do not get into the item.
FlagSilently(r, g, a) == [r EXCEPT !.pc = "recording", !.group = g, !.todo = @ \ {g}]

Flag(r, g, a) == [r EXCEPT !.pc = "recording", !.group = g, !.answer = a, !.todo = @ \ {g}]

\* judgeConflict for the next group.
Judge(c) ==
  LET r == scans[c] IN
  /\ r.pc = "judging"
  /\ \E g \in r.todo, a \in Answer :
       /\ IsNext(g, r.todo)
       /\ To(c, IF IsFlagged(ParseVerdict(a))
                THEN Flag(r, g, a)
                ELSE Continue(r, r.todo \ {g}))
  /\ UNCHANGED <<said, closed, items, warrants, others>>

\* createReviewItem, unless the payload says not to.
Record(c) ==
  LET r == scans[c] IN
  /\ r.pc = "recording"
  /\ Cardinality(items) < MaxItems
  /\ \E s \in r.group :
       /\ IsLoser(s, r.group, r.listed)
       /\ items' = IF CreateItems
                   THEN items \cup {[group |-> r.group, answer |-> r.answer, loser |-> s]}
                   ELSE items
  /\ To(c, [r EXCEPT !.pc = "resolving"])
  /\ UNCHANGED <<said, closed, warrants, others>>

\* The auto-resolve, whose failure is logged: the loser is closed or not.
Resolve(c) ==
  LET r == scans[c] IN
  /\ r.pc = "resolving"
  /\ \/ UNCHANGED <<closed, warrants>>
     \/ AutoResolve /\ \E s \in r.group :
                         IsLoser(s, r.group, r.listed) /\ Close(s, r.group, r.answer)
  /\ To(c, Continue(r, r.todo))
  /\ UNCHANGED <<said, items, others>>

\* A failing query or model call, or the end of the process, ends a scan anywhere.
Break(c) ==
  /\ scans[c].pc # "idle"
  /\ To(c, Idle)
  /\ UNCHANGED <<said, closed, items, warrants, others>>

Step(c) == Judge(c) \/ Record(c) \/ Resolve(c)

Next ==
  \/ \E s \in Statement, k \in Slot, o \in Object, x \in Stated : AssertStatement(s, k, o, x)
  \/ \E s \in Statement : Withdraw(s) \/ \E x \in Stated : Revise(s, x)
  \/ \E i \in items : Accept(i)
  \/ \E c \in Scan : List(c) \/ Step(c) \/ Break(c)

Spec == Init /\ [][Next]_vars

-----------------------------------------------------------------------------
(* Properties.                                                              *)

ScanType == [pc : {"idle", "judging", "recording", "resolving"},
             listed : UNION {[S -> Stated] : S \in SUBSET Statement}, found : SUBSET SUBSET Statement,
             todo : SUBSET SUBSET Statement, group : SUBSET Statement,
             answer : Answer \cup {Null}]

\* The types of what MaluDB and the scans keep.
TypeOK ==
  /\ said \in [Statement -> Said \cup {Null}]
  /\ closed \subseteq Statement
  /\ scans \in [Scan -> ScanType]
  /\ items \subseteq [group : SUBSET Statement, answer : Answer, loser : Statement]
  /\ warrants \subseteq [group : SUBSET Statement, answer : Answer, statement : Statement]
  /\ changes \in 0..MaxChanges
  /\ held \in [Statement -> SUBSET Stated]
  /\ withdrawn \subseteq Statement

\* The reference definition of the groups: two active statements of one slot with
\* different objects are in one group, and what is in a group is listed and disagrees
\* with a member of it, as does nothing of its slot that is left out.
Disagree(s, u) == said[s].slot = said[u].slot /\ said[s].object # said[u].object
Clash(s, u, listed) == said[s].slot = said[u].slot /\ \E x, y \in InSlot(listed, said[s].slot) : Disagree(x, y)
GroupsAreConflicts ==
  \A c \in Scan : LET r == scans[c] IN
    \A s, u \in DOMAIN r.listed :
      (\E g \in r.found : {s, u} \subseteq g) <=> Clash(s, u, DOMAIN r.listed)

\* Scans and accepted items, however stale what they work on, never close a statement that
\* was above all others of its slot (the last listed of equals) whatever confidence of
\* theirs and of its own, past or present, one takes; so a slot stays with a statement in
\* force, unless others have revised a confidence in it or closed one of its statements.
Resolved == {w.statement : w \in warrants}
Rivals(s) == {u \in Asserted \ {s} : said[u].slot = said[s].slot}
AlwaysBest(s) == \A u \in Rivals(s) : \A x \in held[s], y \in held[u] : Before(u, y, s, x)
Untouched(s) == \A u \in {s} \cup Rivals(s) : held[u] = {said[u].confidence} /\ u \notin withdrawn
BestSurvives ==
  \A s \in Asserted :
    /\ AlwaysBest(s) => s \notin Resolved
    /\ Untouched(s) /\ s \in closed => ~(Rivals(s) \subseteq closed)

\* What is closed was closed by others, or the model's answer for a group that it is in was
\* JSON with a contradiction that is true to JavaScript and a numeric confidence that
\* reaches the threshold.
Affirms(a) == /\ a.json /\ a.contradiction \in {"true", "truthy"}
              /\ a.confidence \in Int /\ a.confidence >= MinConfidence
ClosedAfterVerdict ==
  \A s \in closed \ withdrawn : \E w \in warrants :
    w.statement = s /\ s \in w.group /\ Affirms(w.answer)
=============================================================================
