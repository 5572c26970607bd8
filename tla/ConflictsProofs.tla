--------------------------- MODULE ConflictsProofs ---------------------------
(***************************************************************************)
(* Theorems about Conflicts, for every set of statements, scans and        *)
(* answers.                                                                *)
(*                                                                         *)
(* Nothing a scan holds gets wrong while others act, because slot and      *)
(* object of a statement do not change, and a confidence it once had stays *)
(* one that it once had: a group stays a group of one slot (Grouped), a    *)
(* list one that MaluDB could give (Seen), and a loser stays one that a    *)
(* statement of its slot was once above (Beaten), in a scan's variables,   *)
(* in an item and after it was closed.                                     *)
(***************************************************************************)
EXTENDS Conflicts, FiniteSetTheorems, WellFoundedInduction, TLAPS

Grouped(g) ==
  /\ g \subseteq Asserted /\ Cardinality(g) >= 2
  /\ \A s, u \in g : said[s].slot = said[u].slot

Beaten(s) ==
  /\ s \in Asserted
  /\ \E u \in Asserted \ {s} :
       said[u].slot = said[s].slot /\ \E x \in held[s], y \in held[u] : Before(s, x, u, y)

Seen(listed) == /\ DOMAIN listed \subseteq Asserted
                /\ \A s \in DOMAIN listed : listed[s] \in held[s]

\* A verdict of this answer is flagged.
Flagged(a) == a \in Answer /\ IsFlagged(ParseVerdict(a))

Sound(r) ==
  /\ Seen(r.listed)
  /\ r.found = FindCandidateConflicts(DOMAIN r.listed)
  /\ \A g \in r.todo : Grouped(g) /\ g \subseteq DOMAIN r.listed
  /\ r.pc \in {"recording", "resolving"} =>
       Grouped(r.group) /\ r.group \subseteq DOMAIN r.listed /\ Flagged(r.answer)

Held == \A s \in Asserted : said[s].confidence \in held[s]

IInv ==
  /\ TypeOK /\ Held
  /\ \A c \in Scan : Sound(scans[c])
  /\ \A i \in items : Beaten(i.loser) /\ i.loser \in i.group /\ Flagged(i.answer)
  /\ \A w \in warrants : Beaten(w.statement) /\ w.statement \in w.group /\ Flagged(w.answer)
  /\ closed \subseteq Resolved \cup withdrawn

-----------------------------------------------------------------------------
(* Sets of two or more.                                                     *)

LEMMA TwoMembers ==
  ASSUME NEW S, IsFiniteSet(S)
  PROVE  Cardinality(S) >= 2 <=> \E x, y \in S : x # y
<1>0. Cardinality(S) \in Nat
  BY FS_CardinalityType
<1>1. ASSUME Cardinality(S) >= 2 PROVE \E x, y \in S : x # y
  <2>1. PICK x : x \in S
    BY <1>1, FS_EmptySet
  <2>2. S # {x}
    BY <1>1, FS_Singleton
  <2> QED BY <2>1, <2>2
<1>2. ASSUME NEW x \in S, NEW y \in S, x # y PROVE Cardinality(S) >= 2
  <2>1. IsFiniteSet({x}) /\ Cardinality({x}) = 1
    BY FS_Singleton
  <2>2. IsFiniteSet({x} \cup {y}) /\ Cardinality({x} \cup {y}) = 2
    BY <1>2, <2>1, FS_AddElement
  <2>3. Cardinality({x} \cup {y}) <= Cardinality(S)
    BY FS_Subset
  <2> QED BY <1>0, <2>2, <2>3
<1> QED BY <1>1, <1>2

LEMMA FiniteGroups ==
  ASSUME NEW g \in SUBSET Statement
  PROVE  IsFiniteSet(g) /\ IsFiniteSet(Objects(g))
<1>1. IsFiniteSet(g)
  BY StatementAssumption, FS_Subset
<1>2. IsFiniteSet(Objects(g))
  <2> DEFINE f == [s \in g |-> said[s].object]
  <2>1. f \in Surjection(g, Objects(g))
    BY DEF Objects, Surjection
  <2> QED BY <1>1, <2>1, FS_Surjection
<1> QED BY <1>1, <1>2

-----------------------------------------------------------------------------
(* The algorithms.                                                          *)

LEMMA AmountType == ASSUME NEW x \in Stated PROVE Amount(x) \in Int
<1>1. CASE x = Null
  BY <1>1 DEF Amount
<1>2. CASE x # Null
  BY <1>2, ConfidenceAssumption DEF Amount
<1> QED BY <1>1, <1>2

LEMMA BeforeIsStrict ==
  ASSUME NEW s \in Statement, NEW u \in Statement, NEW x \in Stated, NEW y \in Stated
  PROVE  ~(Before(s, x, u, y) /\ Before(u, y, s, x))
  BY StatementAssumption, AmountType DEF Before

LEMMA BeforeIsTotal ==
  ASSUME NEW s \in Statement, NEW u \in Statement \ {s}, NEW x \in Stated, NEW y \in Stated
  PROVE  Before(s, x, u, y) \/ Before(u, y, s, x)
  BY StatementAssumption, AmountType DEF Before

LEMMA BeforeIsTransitive ==
  ASSUME NEW s \in Statement, NEW u \in Statement, NEW v \in Statement,
         NEW x \in Stated, NEW y \in Stated, NEW z \in Stated,
         Before(s, x, u, y), Before(u, y, v, z)
  PROVE  Before(s, x, v, z)
<1>1. s \in Nat /\ u \in Nat /\ v \in Nat
  BY StatementAssumption
<1>2. Amount(x) \in Int /\ Amount(y) \in Int /\ Amount(z) \in Int
  BY AmountType
<1> QED BY <1>1, <1>2 DEF Before

LEMMA SaidType ==
  ASSUME TypeOK, NEW s \in Asserted
  PROVE  s \in Statement /\ said[s] \in Said /\ said[s].confidence \in Stated
  BY DEF TypeOK, Asserted, Said

\* By the confidences that they have.
Worse(s, u) == Before(s, said[s].confidence, u, said[u].confidence)

Below == {p \in Nat \X Nat : p[1] < p[2]}

LEMMA Minimum ==
  ASSUME NEW S, S \subseteq Nat, S # {}
  PROVE  \E x \in S : \A y \in S : x <= y
<1>1. IsWellFoundedOn(Below, Nat)
  BY NatLessThanWellFounded, Zenon DEF OpToRel, Below
<1>2. PICK x \in S : \A y \in S : ~(<<y, x>> \in Below)
  BY <1>1, WFMin, Zenon
<1>3. ASSUME NEW y \in S PROVE x <= y
  <2>1. ~(y < x)
    BY <1>2 DEF Below
  <2> QED BY <2>1
<1> QED BY <1>3

\* A slot that has statements has a best one: the one that the fewest are better than is
\* one that none is better than.
LEMMA SlotHasABest ==
  ASSUME TypeOK, NEW s \in Asserted
  PROVE  \E b \in {s} \cup Rivals(s) : \A u \in Rivals(b) : Worse(u, b)
<1> DEFINE S == {u \in Asserted : said[u].slot = said[s].slot}
           Better(u) == {v \in S : Worse(u, v)}
           N == {Cardinality(Better(u)) : u \in S}
<1>1. ASSUME NEW u \in S
      PROVE  IsFiniteSet(Better(u)) /\ Cardinality(Better(u)) \in Nat
  <2>1. Better(u) \in SUBSET Statement
    BY DEF Asserted
  <2> HIDE DEF Better
  <2> QED BY <2>1, StatementAssumption, FS_Subset, FS_CardinalityType
<1>2. N \subseteq Nat /\ N # {}
  <2>1. s \in S
    OBVIOUS
  <2> HIDE DEF Better, S
  <2> QED BY <1>1, <2>1
<1>3. PICK n \in N : \A m \in N : n <= m
  <2> HIDE DEF N
  <2> QED BY <1>2, Minimum
<1>4. PICK b \in S : n = Cardinality(Better(b))
  OBVIOUS
<1>5. ASSUME NEW u \in Better(b) PROVE FALSE
  <2>1. u \in S /\ u \in Asserted /\ b \in Asserted /\ Worse(b, u)
    OBVIOUS
  <2>2. Better(u) \subseteq Better(b) \ {u}
    <3> SUFFICES ASSUME NEW v \in S, Worse(u, v) PROVE Worse(b, v) /\ v # u
      OBVIOUS
    <3>1. v \in Asserted
      OBVIOUS
    <3> HIDE DEF S
    <3> QED BY <2>1, <3>1, SaidType, BeforeIsTransitive, BeforeIsStrict DEF Worse
  <2>3. IsFiniteSet(Better(b) \ {u}) /\ Cardinality(Better(b) \ {u}) = n - 1
    <3> HIDE DEF Better
    <3> QED BY <1>1, <1>4, <1>5, FS_RemoveElement
  <2>4. Cardinality(Better(u)) <= n - 1
    <3> HIDE DEF Better
    <3> QED BY <2>2, <2>3, FS_Subset
  <2>5. Cardinality(Better(u)) \in N /\ Cardinality(Better(u)) \in Nat /\ n \in Nat
    <3> HIDE DEF Better
    <3> QED BY <1>1, <1>4, <2>1
  <2> HIDE DEF N, Better
  <2> QED BY <1>3, <2>4, <2>5
<1>6. b \in {s} \cup Rivals(s)
  BY DEF Rivals
<1>7. ASSUME NEW u \in Rivals(b) PROVE Worse(u, b)
  <2>1. u \in S /\ u \in Asserted \ {b} /\ b \in Asserted
    BY DEF Rivals
  <2>2. ~Worse(b, u)
    BY <1>5, <2>1
  <2> HIDE DEF S, Better
  <2> QED BY <2>1, <2>2, SaidType, BeforeIsTotal DEF Worse
<1> QED BY <1>6, <1>7

\* The loser of a group that was listed is beaten.
LEMMA LoserIsBeaten ==
  ASSUME NEW listed, Seen(listed), NEW g, Grouped(g), g \subseteq DOMAIN listed,
         NEW s, IsLoser(s, g, listed)
  PROVE  Beaten(s)
<1>1. g \in SUBSET Statement
  BY DEF Grouped, Asserted
<1>2. PICK u \in g : u # s
  BY <1>1, FiniteGroups, TwoMembers DEF Grouped
<1>3. s \in g /\ Before(s, listed[s], u, listed[u])
  BY <1>2 DEF IsLoser
<1>4. listed[s] \in held[s] /\ listed[u] \in held[u]
  BY <1>2, <1>3 DEF Seen
<1>5. s \in Asserted /\ u \in Asserted \ {s} /\ said[u].slot = said[s].slot
  BY <1>2, <1>3 DEF Grouped
<1> QED BY <1>3, <1>4, <1>5 DEF Beaten

LEMMA CandidatesAreGrouped ==
  ASSUME NEW listed \in SUBSET Asserted, NEW g \in FindCandidateConflicts(listed)
  PROVE  Grouped(g) /\ g \subseteq listed
  BY DEF FindCandidateConflicts, InSlot, Grouped

\* A flagged answer is JSON that calls the group a contradiction, surely enough, if the
\* threshold is above zero.
LEMMA FlaggedAffirms ==
  ASSUME MinConfidence > 0, NEW a, Flagged(a)
  PROVE  Affirms(a)
<1>1. a.json /\ a.contradiction \in {"true", "truthy"}
  BY DEF Flagged, IsFlagged, ParseVerdict
<1>2. a.confidence # Null /\ Clamp(a.confidence) >= MinConfidence
  BY <1>1, ConfidenceAssumption DEF Flagged, IsFlagged, ParseVerdict
<1>3. a.confidence \in Int
  BY <1>2, AnswerAssumption DEF Flagged
<1> QED BY <1>1, <1>2, <1>3, ConfidenceAssumption DEF Affirms, Clamp

-----------------------------------------------------------------------------
(* What was said, and once held.                                            *)

Grows ==
  \A s \in Asserted : /\ s \in Asserted' /\ held[s] \subseteq held'[s]
                      /\ said'[s].slot = said[s].slot /\ said'[s].object = said[s].object

LEMMA NothingNew == ASSUME UNCHANGED <<said, held>> PROVE Grows
  BY DEF Grows, Asserted

LEMMA BeatenStays == ASSUME Grows, NEW s, Beaten(s) PROVE Beaten(s)'
<1>1. PICK u \in Asserted \ {s} :
        said[u].slot = said[s].slot /\ \E x \in held[s], y \in held[u] : Before(s, x, u, y)
  BY DEF Beaten
<1>2. s \in Asserted' /\ u \in Asserted' \ {s} /\ said'[u].slot = said'[s].slot
      /\ \E x \in held'[s], y \in held'[u] : Before(s, x, u, y)
  BY <1>1 DEF Grows, Beaten
<1> QED BY <1>2 DEF Beaten, Before, Amount

LEMMA GroupedStays == ASSUME Grows, NEW g, Grouped(g) PROVE Grouped(g)'
  BY DEF Grows, Grouped

LEMMA CandidatesStay ==
  ASSUME Grows, NEW listed, listed \subseteq Asserted
  PROVE  FindCandidateConflicts(listed)' = FindCandidateConflicts(listed)
<1>1. \A k : InSlot(listed, k)' = InSlot(listed, k)
  BY DEF Grows, InSlot
<1>2. \A g : g \subseteq listed => Objects(g)' = Objects(g)
  BY DEF Grows, Objects
<1>3. \A k : InSlot(listed, k) \subseteq listed
  BY DEF InSlot
<1> QED BY <1>1, <1>2, <1>3 DEF FindCandidateConflicts

LEMMA SoundStays == ASSUME Grows, NEW r, Sound(r) PROVE Sound(r)'
<1>1. Seen(r.listed)'
  BY DEF Grows, Sound, Seen
<1>2. r.found = FindCandidateConflicts(DOMAIN r.listed)'
  BY CandidatesStay DEF Sound, Seen
<1>3. \A g \in r.todo : Grouped(g)' /\ g \subseteq DOMAIN r.listed
  BY GroupedStays DEF Sound
<1>4. r.pc \in {"recording", "resolving"} =>
        Grouped(r.group)' /\ r.group \subseteq DOMAIN r.listed /\ Flagged(r.answer)'
  BY GroupedStays DEF Sound, Flagged, IsFlagged, ParseVerdict, Clamp
<1> QED BY <1>1, <1>2, <1>3, <1>4 DEF Sound

ItemType == [group : SUBSET Statement, answer : Answer, loser : Statement]
WarrantType == [group : SUBSET Statement, answer : Answer, statement : Statement]

ScansSound(cs) == \A c \in Scan : Sound(cs[c])
ItemsSound(is) == \A i \in is : Beaten(i.loser) /\ i.loser \in i.group /\ Flagged(i.answer)
WarrantsSound(ws) ==
  \A w \in ws : Beaten(w.statement) /\ w.statement \in w.group /\ Flagged(w.answer)

\* What is sound by what was said before a step is sound after it.
LEMMA Carries ==
  ASSUME IInv, Grows, said' \in [Statement -> Said \cup {Null}], Held',
         changes' \in 0..MaxChanges, held' \in [Statement -> SUBSET Stated],
         withdrawn' \subseteq Statement,
         scans' \in [Scan -> ScanType], ScansSound(scans'),
         items' \subseteq ItemType, ItemsSound(items'),
         closed' \subseteq Statement, closed' \subseteq Resolved' \cup withdrawn',
         warrants' \subseteq WarrantType, WarrantsSound(warrants')
  PROVE  IInv'
<1>2. TypeOK'
  BY DEF TypeOK, ItemType, WarrantType
<1>3. ASSUME NEW d \in Scan PROVE Sound(scans[d])'
  <2>1. PICK q : q = scans'[d] /\ Sound(q)
    BY DEF ScansSound
  <2>2. Sound(q)'
    BY <2>1, SoundStays
  <2> QED BY <2>1, <2>2 DEF Sound, Seen, Grouped, Flagged, FindCandidateConflicts, InSlot, Objects,
             IsFlagged, ParseVerdict, Clamp, Asserted
<1>4. \A i \in items' : Beaten(i.loser)' /\ i.loser \in i.group /\ Flagged(i.answer)'
  BY BeatenStays DEF ItemsSound, Flagged, IsFlagged, ParseVerdict, Clamp
<1>5. \A w \in warrants' : Beaten(w.statement)' /\ w.statement \in w.group /\ Flagged(w.answer)'
  BY BeatenStays DEF WarrantsSound, Flagged, IsFlagged, ParseVerdict, Clamp
<1> QED BY <1>2, <1>3, <1>4, <1>5 DEF IInv

LEMMA IInvFacts ==
  IInv => /\ said \in [Statement -> Said \cup {Null}] /\ Held
          /\ changes \in 0..MaxChanges /\ held \in [Statement -> SUBSET Stated]
          /\ withdrawn \subseteq Statement
          /\ scans \in [Scan -> ScanType] /\ ScansSound(scans)
          /\ items \subseteq ItemType /\ ItemsSound(items)
          /\ closed \subseteq Statement /\ closed \subseteq Resolved \cup withdrawn
          /\ warrants \subseteq WarrantType /\ WarrantsSound(warrants)
  BY DEF IInv, TypeOK, ItemType, WarrantType, ScansSound, ItemsSound, WarrantsSound

\* What holds after a step in which nothing is said, and this program closes nothing.
LEMMA NothingSaid ==
  ASSUME IInv, UNCHANGED <<said, others>>
  PROVE  /\ Grows /\ Held' /\ said' \in [Statement -> Said \cup {Null}]
         /\ changes' \in 0..MaxChanges /\ held' \in [Statement -> SUBSET Stated]
         /\ withdrawn' \subseteq Statement
         /\ closed' = closed /\ warrants' = warrants =>
              /\ closed' \subseteq Statement /\ closed' \subseteq Resolved' \cup withdrawn'
              /\ warrants' \subseteq WarrantType /\ WarrantsSound(warrants')
<1>1. UNCHANGED <<said, changes, held, withdrawn>>
  BY DEF others
<1>2. Held'
  BY <1>1, IInvFacts DEF Held, Asserted
<1>3. warrants' = warrants => Resolved' = Resolved
  BY DEF Resolved
<1> QED BY <1>1, <1>2, <1>3, NothingNew, IInvFacts

\* Closing a beaten statement of a flagged group.
LEMMA CloseIsSound ==
  ASSUME IInv, NEW s \in Statement, NEW g \in SUBSET Statement, NEW a \in Answer,
         Beaten(s), s \in g, Flagged(a), Close(s, g, a), withdrawn' = withdrawn
  PROVE  /\ closed' \subseteq Statement /\ closed' \subseteq Resolved' \cup withdrawn'
         /\ warrants' \subseteq WarrantType /\ WarrantsSound(warrants')
<1>1. PICK w : w = [statement |-> s, group |-> g, answer |-> a]
  OBVIOUS
<1>2. w \in WarrantType /\ w.statement = s /\ w.group = g /\ w.answer = a
  BY <1>1 DEF WarrantType
<1>3. closed' = closed \cup {s} /\ warrants' = warrants \cup {w}
  BY <1>1 DEF Close
<1>4. Resolved \cup {s} \subseteq Resolved'
  BY <1>2, <1>3 DEF Resolved
<1> QED BY <1>2, <1>3, <1>4, IInvFacts DEF WarrantsSound

-----------------------------------------------------------------------------
(* The invariant.                                                           *)

LEMMA IdleIsSound == Idle \in ScanType /\ Sound(Idle)
<1>1. FindCandidateConflicts({}) = {}
  BY FS_EmptySet DEF FindCandidateConflicts, InSlot
<1>2. PICK f : f = [s \in {} |-> Null]
  OBVIOUS
<1>3. DOMAIN f = {} /\ f \in [{} -> Stated]
  BY <1>2
<1>4. Idle = [pc |-> "idle", listed |-> f, found |-> {}, todo |-> {}, group |-> {}, answer |-> Null]
  BY <1>2 DEF Idle
<1> QED BY <1>1, <1>3, <1>4 DEF Sound, Seen, ScanType

LEMMA IInvInit == Init => IInv
<1> SUFFICES ASSUME Init PROVE IInv
  OBVIOUS
<1>1. Asserted = {}
  BY DEF Init, Asserted
<1>2. TypeOK
  BY LimitAssumption, IdleIsSound DEF Init, TypeOK
<1>3. \A c \in Scan : Sound(scans[c])
  BY IdleIsSound DEF Init
<1> QED BY <1>1, <1>2, <1>3 DEF Init, IInv, Held

\* A scan that goes on to the groups that are left.
LEMMA ContinueIsSound ==
  ASSUME NEW r \in ScanType, Sound(r), NEW todo \in SUBSET SUBSET Statement,
         \A g \in todo : Grouped(g) /\ g \subseteq DOMAIN r.listed
  PROVE  Continue(r, todo) \in ScanType /\ Sound(Continue(r, todo))
<1>1. CASE todo = {}
  BY <1>1, IdleIsSound DEF Continue
<1>2. CASE todo # {}
  BY <1>2 DEF Continue, Sound, ScanType
<1> QED BY <1>1, <1>2

\* The invariant after a step of scan c that leaves what MaluDB and the items keep.
LEMMA ScanMoves ==
  ASSUME IInv, NEW c \in Scan, NEW r \in ScanType, Sound(r), To(c, r),
         UNCHANGED <<said, closed, items, warrants, others>>
  PROVE  IInv'
<1>1. scans' \in [Scan -> ScanType] /\ ScansSound(scans')
  BY IInvFacts DEF To, ScansSound
<1> QED BY <1>1, NothingSaid, IInvFacts, Carries

\* The invariant after others have asserted, revised or closed statements.
LEMMA OthersMove ==
  ASSUME IInv, UNCHANGED <<scans, items, warrants>>, Grows, Held',
         said' \in [Statement -> Said \cup {Null}], changes' \in 0..MaxChanges,
         held' \in [Statement -> SUBSET Stated], withdrawn' \subseteq Statement,
         closed' \subseteq Statement, closed' \subseteq Resolved \cup withdrawn'
  PROVE  IInv'
<1>1. Resolved' = Resolved
  BY DEF Resolved
<1> QED BY <1>1, IInvFacts, Carries

LEMMA OthersStep ==
  ASSUME IInv,
         \/ \E s \in Statement, k \in Slot, o \in Object, x \in Stated : AssertStatement(s, k, o, x)
         \/ \E s \in Statement : Withdraw(s) \/ \E x \in Stated : Revise(s, x)
  PROVE  IInv'
<1> USE IInvFacts
<1>1. ASSUME NEW s \in Statement, NEW k \in Slot, NEW o \in Object, NEW x \in Stated,
             AssertStatement(s, k, o, x)
      PROVE  IInv'
  <2>1. PICK e : e = [slot |-> k, object |-> o, confidence |-> x]
    OBVIOUS
  <2>2. e \in Said /\ e.confidence = x
    BY <2>1 DEF Said
  <2>3. said' = [said EXCEPT ![s] = e] /\ held' = [held EXCEPT ![s] = {x}] /\ s \notin Asserted
    BY <1>1, <2>1 DEF AssertStatement, Asserted
  <2>4. /\ said' \in [Statement -> Said \cup {Null}] /\ held' \in [Statement -> SUBSET Stated]
        /\ \A u \in Statement \ {s} : said'[u] = said[u] /\ held'[u] = held[u]
        /\ said'[s] = e /\ held'[s] = {x}
    BY <2>2, <2>3
  <2>5. Grows
    BY <2>3, <2>4 DEF Grows, Asserted
  <2>6. Held'
    BY <2>2, <2>4 DEF Held, Asserted
  <2> QED BY <1>1, <2>4, <2>5, <2>6, OthersMove DEF AssertStatement
<1>2. ASSUME NEW s \in Statement, NEW x \in Stated, Revise(s, x) PROVE IInv'
  <2>1. said[s] \in Said /\ said[s] # Null /\ s \in Asserted
    BY <1>2 DEF Revise, Asserted
  <2>2. PICK e : e = [said[s] EXCEPT !.confidence = x]
    OBVIOUS
  <2>3. e \in Said /\ e.confidence = x /\ e.slot = said[s].slot /\ e.object = said[s].object
    BY <2>1, <2>2 DEF Said
  <2>4. said' = [said EXCEPT ![s] = e] /\ held' = [held EXCEPT ![s] = held[s] \cup {x}]
    BY <1>2, <2>2 DEF Revise
  <2>5. /\ said' \in [Statement -> Said \cup {Null}] /\ held' \in [Statement -> SUBSET Stated]
        /\ \A u \in Statement \ {s} : said'[u] = said[u] /\ held'[u] = held[u]
        /\ said'[s] = e /\ held'[s] = held[s] \cup {x}
    BY <2>3, <2>4
  <2>6. e # Null
    BY <2>3, NullAssumption
  <2>7. Grows
    BY <2>3, <2>5, <2>6 DEF Grows, Asserted
  <2>8. Held'
    BY <2>3, <2>5 DEF Held, Asserted
  <2>9. changes' \in 0..MaxChanges
    BY <1>2, LimitAssumption DEF Revise, Change
  <2> QED BY <1>2, <2>5, <2>7, <2>8, <2>9, OthersMove DEF Revise, Change
<1>3. ASSUME NEW s \in Statement, Withdraw(s) PROVE IInv'
  <2>1. UNCHANGED <<said, held>> /\ Grows
    BY <1>3, NothingNew DEF Withdraw
  <2>2. Held'
    BY <2>1 DEF Held, Asserted
  <2>3. changes' \in 0..MaxChanges
    BY <1>3, LimitAssumption DEF Withdraw, Change
  <2> QED BY <1>3, <2>1, <2>2, <2>3, OthersMove DEF Withdraw, Change
<1> QED BY <1>1, <1>2, <1>3

LEMMA IInvStep == IInv /\ [Next]_vars => IInv'
<1> SUFFICES ASSUME IInv, [Next]_vars PROVE IInv'
  OBVIOUS
<1> USE IInvFacts
<1>0. /\ TypeOK
      /\ \A c \in Scan : Sound(scans[c]) /\ scans[c] \in ScanType
  BY DEF ScansSound, IInv
<1>1. CASE \/ \E s \in Statement, k \in Slot, o \in Object, x \in Stated : AssertStatement(s, k, o, x)
           \/ \E s \in Statement : Withdraw(s) \/ \E x \in Stated : Revise(s, x)
  BY <1>1, OthersStep
<1>2. ASSUME NEW i \in items, Accept(i) PROVE IInv'
  <2>1. /\ i.loser \in Statement /\ i.group \in SUBSET Statement /\ i.answer \in Answer
        /\ Beaten(i.loser) /\ i.loser \in i.group /\ Flagged(i.answer)
    BY DEF ItemsSound, ItemType
  <2>2. UNCHANGED <<said, scans, items, others>> /\ withdrawn' = withdrawn
    BY <1>2 DEF Accept, others
  <2>3. /\ closed' \subseteq Statement /\ closed' \subseteq Resolved' \cup withdrawn'
        /\ warrants' \subseteq WarrantType /\ WarrantsSound(warrants')
    BY <1>2, <2>1, <2>2, CloseIsSound DEF Accept
  <2> QED BY <2>2, <2>3, NothingSaid, Carries
<1>3. ASSUME NEW c \in Scan, List(c) PROVE IInv'
  <2>1. PICK active, groups :
          /\ active = [s \in DOMAIN active |-> said[s].confidence] /\ DOMAIN active \subseteq Asserted
          /\ groups = FindCandidateConflicts(DOMAIN active)
          /\ To(c, Continue([Idle EXCEPT !.listed = active, !.found = groups], groups))
    <3>1. PICK page \in SUBSET Asserted :
            LET active == [s \in page \ closed |-> said[s].confidence]
                groups == FindCandidateConflicts(DOMAIN active) IN
            To(c, Continue([Idle EXCEPT !.listed = active, !.found = groups], groups))
      BY <1>3 DEF List
    <3>2. PICK active : active = [s \in page \ closed |-> said[s].confidence]
      OBVIOUS
    <3>3. PICK groups : groups = FindCandidateConflicts(DOMAIN active)
      OBVIOUS
    <3>4. To(c, Continue([Idle EXCEPT !.listed = active, !.found = groups], groups))
      BY <3>1, <3>2, <3>3
    <3>5. DOMAIN active = page \ closed
      BY <3>2
    <3>6. active = [s \in DOMAIN active |-> said[s].confidence] /\ DOMAIN active \subseteq Asserted
      BY <3>2, <3>5
    <3> QED BY <3>3, <3>4, <3>6
  <2>2. Seen(active) /\ active \in UNION {[S -> Stated] : S \in SUBSET Statement}
    <3>1. \A s \in DOMAIN active : s \in Asserted /\ active[s] = said[s].confidence
      BY <2>1
    <3>2. \A s \in DOMAIN active : active[s] \in Stated /\ active[s] \in held[s]
      BY <1>0, <3>1, SaidType DEF Held
    <3>3. DOMAIN active \in SUBSET Statement
      BY <2>1 DEF Asserted
    <3>4. active \in [DOMAIN active -> Stated]
      BY <2>1, <3>2
    <3> QED BY <2>1, <3>2, <3>3, <3>4 DEF Seen
  <2>3. groups \in SUBSET SUBSET Statement /\ \A g \in groups : Grouped(g) /\ g \subseteq DOMAIN active
    BY <2>1, CandidatesAreGrouped DEF Grouped, Asserted
  <2>4. PICK r : r = [Idle EXCEPT !.listed = active, !.found = groups]
    OBVIOUS
  <2>5. /\ r.pc = "idle" /\ r.listed = active /\ r.found = groups /\ r.todo = {}
        /\ r \in ScanType
    BY <2>2, <2>3, <2>4, IdleIsSound DEF Idle, ScanType
  <2>6. Sound(r)
    BY <2>1, <2>2, <2>5 DEF Sound
  <2>7. Continue(r, groups) \in ScanType /\ Sound(Continue(r, groups))
    BY <2>3, <2>5, <2>6, ContinueIsSound
  <2>8. To(c, Continue(r, groups))
    BY <2>1, <2>4
  <2> QED BY <1>3, <2>7, <2>8, ScanMoves DEF List
<1>4. ASSUME NEW c \in Scan, Judge(c) PROVE IInv'
  <2>1. PICK g \in scans[c].todo, a \in Answer :
          To(c, IF IsFlagged(ParseVerdict(a)) THEN Flag(scans[c], g, a)
                ELSE Continue(scans[c], scans[c].todo \ {g}))
    BY <1>4 DEF Judge
  <2>2. PICK r \in ScanType : r = scans[c] /\ Sound(r) /\ g \in r.todo
    BY <1>0, <2>1
  <2>3. CASE IsFlagged(ParseVerdict(a))
    <3>1. PICK q : q = Flag(r, g, a)
      OBVIOUS
    <3>2. /\ q \in ScanType /\ q.listed = r.listed /\ q.found = r.found /\ q.todo = r.todo \ {g}
          /\ q.group = g /\ q.answer = a
      BY <2>2, <3>1 DEF Flag, ScanType
    <3>3. Sound(q)
      BY <2>2, <2>3, <3>2 DEF Sound, Flagged
    <3> QED BY <1>4, <2>1, <2>2, <2>3, <3>1, <3>2, <3>3, ScanMoves DEF Judge
  <2>4. CASE ~IsFlagged(ParseVerdict(a))
    <3>1. PICK q : q = Continue(r, r.todo \ {g})
      OBVIOUS
    <3>2. /\ r.todo \ {g} \in SUBSET SUBSET Statement
          /\ \A h \in r.todo \ {g} : Grouped(h) /\ h \subseteq DOMAIN r.listed
      BY <2>2 DEF ScanType, Sound
    <3>3. q \in ScanType /\ Sound(q)
      BY <2>2, <3>1, <3>2, ContinueIsSound
    <3> QED BY <1>4, <2>1, <2>2, <2>4, <3>1, <3>3, ScanMoves DEF Judge
  <2> QED BY <2>3, <2>4
<1>5. ASSUME NEW c \in Scan, Record(c) PROVE IInv'
  <2>1. PICK r \in ScanType : r = scans[c] /\ Sound(r) /\ r.pc = "recording"
    BY <1>0, <1>5 DEF Record
  <2>2. PICK s \in r.group : IsLoser(s, r.group, r.listed) /\
          items' = IF CreateItems
                   THEN items \cup {[group |-> r.group, answer |-> r.answer, loser |-> s]}
                   ELSE items
    BY <1>5, <2>1 DEF Record
  <2>3. /\ Beaten(s) /\ Flagged(r.answer)
        /\ [group |-> r.group, answer |-> r.answer, loser |-> s] \in ItemType
    BY <2>1, <2>2, LoserIsBeaten DEF Sound, Flagged, ScanType, ItemType
  <2>4. items' \subseteq ItemType /\ ItemsSound(items')
    BY <2>2, <2>3 DEF ItemsSound
  <2>5. PICK q : q = [r EXCEPT !.pc = "resolving"]
    OBVIOUS
  <2>6. q \in ScanType /\ Sound(q) /\ To(c, q)
    BY <1>5, <2>1, <2>5 DEF Record, ScanType, Sound
  <2>7. scans' \in [Scan -> ScanType] /\ ScansSound(scans')
    BY <2>6 DEF To, ScansSound
  <2>8. UNCHANGED <<said, closed, warrants, others>>
    BY <1>5 DEF Record
  <2> QED BY <2>4, <2>7, <2>8, NothingSaid, Carries
<1>6. ASSUME NEW c \in Scan, Resolve(c) PROVE IInv'
  <2>1. PICK r \in ScanType : r = scans[c] /\ Sound(r) /\ r.pc = "resolving"
    BY <1>0, <1>6 DEF Resolve
  <2>2. UNCHANGED <<said, items, others>> /\ withdrawn' = withdrawn
    BY <1>6 DEF Resolve, others
  <2>3. /\ closed' \subseteq Statement /\ closed' \subseteq Resolved' \cup withdrawn'
        /\ warrants' \subseteq WarrantType /\ WarrantsSound(warrants')
    <3>1. ASSUME NEW s \in r.group, IsLoser(s, r.group, r.listed), Close(s, r.group, r.answer)
          PROVE  /\ closed' \subseteq Statement /\ closed' \subseteq Resolved' \cup withdrawn'
                 /\ warrants' \subseteq WarrantType /\ WarrantsSound(warrants')
      <4>1. /\ Beaten(s) /\ Flagged(r.answer) /\ s \in Statement
            /\ r.group \in SUBSET Statement /\ r.answer \in Answer
        BY <2>1, <3>1, LoserIsBeaten DEF Sound, Flagged, ScanType
      <4> QED BY <2>2, <3>1, <4>1, CloseIsSound
    <3>2. CASE UNCHANGED <<closed, warrants>>
      BY <2>2, <3>2, NothingSaid
    <3> QED BY <1>6, <2>1, <3>1, <3>2 DEF Resolve
  <2>4. /\ r.todo \in SUBSET SUBSET Statement
        /\ \A h \in r.todo : Grouped(h) /\ h \subseteq DOMAIN r.listed
    BY <2>1 DEF ScanType, Sound
  <2>5. PICK q : q = Continue(r, r.todo)
    OBVIOUS
  <2>6. q \in ScanType /\ Sound(q) /\ To(c, q)
    BY <1>6, <2>1, <2>4, <2>5, ContinueIsSound DEF Resolve
  <2>7. scans' \in [Scan -> ScanType] /\ ScansSound(scans')
    BY <2>6 DEF To, ScansSound
  <2> QED BY <2>2, <2>3, <2>7, NothingSaid, Carries
<1>7. ASSUME NEW c \in Scan, Break(c) PROVE IInv'
  BY <1>7, IdleIsSound, ScanMoves DEF Break
<1>8. ASSUME UNCHANGED vars PROVE IInv'
  BY <1>8, NothingSaid, Carries DEF vars, others
<1> QED BY <1>1, <1>2, <1>3, <1>4, <1>5, <1>6, <1>7, <1>8 DEF Next, Step

-----------------------------------------------------------------------------
(* The properties.                                                          *)

LEMMA Invariance == Spec => []IInv
  BY IInvInit, IInvStep, PTL DEF Spec

LEMMA FoundAreTheClashes ==
  ASSUME TypeOK, NEW r, Sound(r), NEW listed, listed = DOMAIN r.listed,
         NEW s \in listed, NEW u \in listed
  PROVE  (\E g \in r.found : {s, u} \subseteq g) <=> Clash(s, u, listed)
<1> DEFINE G(k) == InSlot(listed, k)
<1>1. /\ listed \in SUBSET Statement /\ s \in Asserted /\ u \in Asserted
      /\ r.found = FindCandidateConflicts(listed)
      /\ \A x \in listed : said[x].slot \in Slot
  BY SaidType DEF Sound, Seen, Said
<1>2. ASSUME NEW k \in Slot
      PROVE  G(k) \in r.found <=> \E x, y \in G(k) : said[x].object # said[y].object
  <2>1. /\ G(k) \in SUBSET Statement /\ IsFiniteSet(G(k)) /\ IsFiniteSet(Objects(G(k)))
    BY <1>1, FiniteGroups DEF InSlot
  <2>2. Cardinality(Objects(G(k))) >= 2 <=> \E x, y \in G(k) : said[x].object # said[y].object
    <3> HIDE DEF G
    <3>1. Cardinality(Objects(G(k))) >= 2 <=> \E x, y \in Objects(G(k)) : x # y
      BY <2>1, TwoMembers
    <3> QED BY <3>1 DEF Objects
  <2>3. Cardinality(Objects(G(k))) >= 2 => Cardinality(G(k)) >= 2
    <3> HIDE DEF G
    <3> QED BY <2>1, <2>2, TwoMembers
  <2>4. ASSUME G(k) \in r.found PROVE Cardinality(Objects(G(k))) >= 2
    BY <1>1, <2>4 DEF FindCandidateConflicts
  <2>5. ASSUME Cardinality(Objects(G(k))) >= 2 PROVE G(k) \in r.found
    BY <1>1, <2>3, <2>5 DEF FindCandidateConflicts
  <2> QED BY <2>2, <2>4, <2>5
<1>3. ASSUME NEW g \in r.found, {s, u} \subseteq g PROVE Clash(s, u, listed)
  <2>1. PICK k \in Slot : g = G(k)
    BY <1>1 DEF FindCandidateConflicts
  <2>2. said[s].slot = k /\ said[u].slot = k
    BY <1>3, <2>1 DEF InSlot
  <2>3. PICK x \in G(k), y \in G(k) : said[x].object # said[y].object
    BY <1>2, <2>1
  <2>4. said[x].slot = k /\ said[y].slot = k
    BY <2>3 DEF InSlot
  <2> QED BY <2>2, <2>3, <2>4 DEF Clash, Disagree
<1>4. ASSUME Clash(s, u, listed) PROVE \E g \in r.found : {s, u} \subseteq g
  <2>1. PICK k \in Slot : k = said[s].slot /\ k = said[u].slot
    BY <1>1, <1>4 DEF Clash
  <2>2. G(k) \in r.found
    BY <1>2, <1>4, <2>1 DEF Clash, Disagree
  <2>3. s \in G(k) /\ u \in G(k)
    BY <2>1 DEF InSlot
  <2> QED BY <2>2, <2>3
<1> QED BY <1>3, <1>4

LEMMA NoneBeatsTheBest == IInv => BestSurvives
<1> SUFFICES ASSUME IInv, NEW s \in Asserted
             PROVE  /\ AlwaysBest(s) => s \notin Resolved
                    /\ Untouched(s) /\ s \in closed => ~(Rivals(s) \subseteq closed)
  BY DEF BestSurvives
<1>1. ASSUME NEW b \in Asserted, b \in Resolved, AlwaysBest(b) PROVE FALSE
  <2>1. PICK u \in Asserted \ {b} : /\ said[u].slot = said[b].slot
                                    /\ \E x \in held[b], y \in held[u] : Before(b, x, u, y)
    BY <1>1 DEF IInv, Resolved, Beaten
  <2>2. PICK x \in held[b], y \in held[u] : Before(b, x, u, y)
    BY <2>1
  <2>3. u \in Rivals(b) /\ Before(u, y, b, x)
    BY <1>1, <2>1, <2>2 DEF Rivals, AlwaysBest
  <2>4. b \in Statement /\ u \in Statement /\ x \in Stated /\ y \in Stated
    BY <2>1, <2>2, IInvFacts DEF Asserted
  <2> QED BY <2>2, <2>3, <2>4, BeforeIsStrict
<1>2. ASSUME Untouched(s), s \in closed, Rivals(s) \subseteq closed PROVE FALSE
  <2>1. PICK b \in {s} \cup Rivals(s) : \A u \in Rivals(b) : Worse(u, b)
    BY SlotHasABest DEF IInv
  <2>2. b \in Asserted /\ Rivals(b) \subseteq {s} \cup Rivals(s)
    BY <2>1 DEF Rivals
  <2>3. \A u \in {s} \cup Rivals(s) : held[u] = {said[u].confidence} /\ u \notin withdrawn
    BY <1>2 DEF Untouched
  <2>4. AlwaysBest(b)
    BY <2>1, <2>2, <2>3 DEF AlwaysBest, Worse
  <2>5. b \in Resolved
    BY <1>2, <2>1, <2>3 DEF IInv
  <2> QED BY <1>1, <2>2, <2>4, <2>5
<1> QED BY <1>1, <1>2

\* Statements, scans, items and what was closed keep their types, for any number of
\* statements and scans.
THEOREM TypeCorrect == Spec => []TypeOK
  BY Invariance, PTL DEF IInv

\* The groups of a scan are the clashes of what it listed, for lists of any length.
THEOREM GroupsAreTheConflicts == Spec => []GroupsAreConflicts
<1>1. IInv => GroupsAreConflicts
  BY FoundAreTheClashes DEF IInv, GroupsAreConflicts
<1> QED BY <1>1, Invariance, PTL

\* Whatever is stale, however many scans and accepted items close statements of a slot, one
\* that was above all others by whatever confidence they had, or had once, is never closed
\* by them; and a slot in which nobody else changed a thing keeps a statement in force.
THEOREM TheBestSurvives == Spec => []BestSurvives
  BY Invariance, NoneBeatsTheBest, PTL

\* With a threshold above zero nothing is closed, but by others, unless the model's answer
\* had a contradiction that JavaScript takes for true and a number that reaches it.
THEOREM ClosedWithAVerdict == MinConfidence > 0 => (Spec => []ClosedAfterVerdict)
<1> SUFFICES ASSUME MinConfidence > 0 PROVE Spec => []ClosedAfterVerdict
  OBVIOUS
<1>1. IInv => ClosedAfterVerdict
  BY FlaggedAffirms DEF IInv, ClosedAfterVerdict, Resolved
<1> QED BY <1>1, Invariance, PTL
=============================================================================
