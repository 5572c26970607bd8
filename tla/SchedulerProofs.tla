--------------------------- MODULE SchedulerProofs ----------------------------
(***************************************************************************)
(* Theorems about the routes and the scheduler for every set of tenants,   *)
(* versions, documents and job types.                                      *)
(*                                                                         *)
(* migrate() takes none of its steps differently here, except that the     *)
(* worker may give up after it; so what MigrationsProofs has shown carries *)
(* over.  For the rest: what is stored is a parsed valid document that was *)
(* posted, as JSON (Stored), what applySchedules holds was made of such rows        *)
(* (Local), and, while no request falls into the start, it is up to date   *)
(* (Fresh).                                                                *)
(***************************************************************************)
EXTENDS Scheduler, MigrationsProofs, FiniteSetTheorems, WellFoundedInduction

-----------------------------------------------------------------------------
(* migrate() as a part of the whole.                                        *)

LEMMA MigrationsSteps ==
  ASSUME [Next]_vars
  PROVE  MigrationsNext \/ (\E p \in Proc : GiveUp(p)) \/ UNCHANGED migrationVars
<1>1. CASE Routes
  BY <1>1 DEF Routes, UpsertTenant, SetTenantEnabled, PostPolicy, Request, migrationVars
<1>2. CASE ApplySchedules
  <2>1. Abort => GiveUp(Worker) /\ Worker \in Proc
    BY ProcAssumption DEF Abort, GiveUp
  <2> QED BY <1>2, <2>1 DEF ApplySchedules, ListTenants, ReadDefault, ReadTenant, AddRepeatable,
                            NextTenant, migrationVars
<1>3. CASE \E p \in Proc : Starting(p) \/ Failing(p)
  BY <1>3 DEF Starting, Failing, MigrationsNext
<1>4. CASE UNCHANGED vars
  BY <1>4 DEF vars, migrationVars
<1> QED BY <1>1, <1>2, <1>3, <1>4 DEF Next

LEMMA MigrationsInvariant == Spec => [](MInv /\ Survivor)
<1>1. Init => MInv /\ Survivor
  BY MInvInit, SurvivorInit DEF Init
<1>2. MInv /\ Survivor /\ [Next]_vars => (MInv /\ Survivor)'
  BY MigrationsSteps, MInvStep, SurvivorStep
<1> QED BY <1>1, <1>2, PTL DEF Spec

\* With the routes and the scheduler around it too, each migration is committed once and
\* in order.
THEOREM MigrationsHold == Spec => []AppliedOnceInOrder
  BY MigrationsInvariant, MInvImplies, PTL

\* Whichever processes race for a migration, without crashes one of them is not ended.
THEOREM SomebodyAlwaysSurvives == Spec => []SomebodySurvives
  BY MigrationsInvariant, SurvivorImplies, PTL

\* The whole implements the schema version that migrate() promises: nobody is up, serving
\* requests or registering repeatables, before the last one.
THEOREM StartImplementsVersions == Spec => ImplementsVersions
<1>1. Init => Versions!Init
  BY VersionsInit DEF Init
<1>2. MInv /\ MInv' /\ [Next]_vars => [Versions!Next]_(Versions!vars)
  BY MigrationsSteps, VersionsStep
<1> QED BY <1>1, <1>2, MigrationsInvariant, PTL DEF Spec, ImplementsVersions, Versions!Spec

-----------------------------------------------------------------------------
(* Least and greatest numbers.                                              *)

Below == {p \in Nat \X Nat : p[1] < p[2]}

LEMMA BelowIsWellFounded == IsWellFoundedOn(Below, Nat)
BY NatLessThanWellFounded, Zenon DEF OpToRel, Below

LEMMA Minimum ==
  ASSUME NEW S, S \subseteq Nat, S # {}
  PROVE  \E x \in S : \A y \in S : x <= y
<1>1. PICK x \in S : \A y \in S : ~(<<y, x>> \in Below)
  BY BelowIsWellFounded, WFMin, Zenon
<1>2. ASSUME NEW y \in S PROVE x <= y
  <2>1. ~(y < x)
    BY <1>1 DEF Below
  <2> QED BY <2>1
<1> QED BY <1>2

LEMMA Maximum ==
  ASSUME NEW n \in Nat, NEW S, S \subseteq 1..n, S # {}
  PROVE  \E x \in S : \A y \in S : y <= x
<1> DEFINE T == {m \in Nat : \A y \in S : y <= m}
<1>1. T \subseteq Nat /\ n \in T
  BY SMT
<1>2. PICK t \in T : \A u \in T : t <= u
  BY <1>1, Minimum, Zenon
<1>3. CASE t \in S
  BY <1>3, SMT
<1>4. CASE t \notin S
  <2>1. \A y \in S : y <= t - 1 /\ t - 1 \in Nat
    BY <1>4, SMT
  <2>2. t - 1 \in T
    BY <2>1
  <2> QED BY <2>2, <1>2, SMT
<1> QED BY <1>3, <1>4

\* The tenant that is next.
LEMMA FirstTenant ==
  ASSUME NEW S, S \subseteq Tenant, S # {}
  PROVE  First(S) \in S
<1>1. \E m \in S : \A n \in S : m <= n
  BY Minimum, TenantAssumption
<1> QED BY <1>1 DEF First

-----------------------------------------------------------------------------
(* Documents and policies.                                                  *)

\* What parsing a valid document gives.
Good(p) ==
  /\ p \in Policies /\ SchedulesAreValid(p.schedules)
  /\ \A j \in JobType : p.schedules[j] # Absent => p.schedules[j].enabled # Absent
  /\ \A s \in Setting : /\ p.settings[s] \in Optional(Legal[s])
                        /\ p.settings[s] = Absent => DefaultValue[s] = Absent

\* Each cadence and setting of p is a default, or is given by one of the documents D.
CadencesOf(D, j) == Offers(DefaultSchedules, j) \cup UNION {Offers(d.schedules, j) : d \in D}
ValuesOf(D, s) == {DefaultValue[s]} \cup {d.settings[s] : d \in D}
Authored(p, D) ==
  /\ \A j \in JobType : Offers(p.schedules, j) \subseteq CadencesOf(D, j)
  /\ \A s \in Setting : p.settings[s] \in ValuesOf(D, s)

LEMMA AuthoredByMore ==
  ASSUME NEW p, NEW D, NEW E, D \subseteq E, Authored(p, D)
  PROVE  Authored(p, E)
<1>1. \A j \in JobType : CadencesOf(D, j) \subseteq CadencesOf(E, j)
  BY DEF CadencesOf
<1>2. \A s \in Setting : ValuesOf(D, s) \subseteq ValuesOf(E, s)
  BY DEF ValuesOf
<1> QED BY <1>1, <1>2 DEF Authored

LEMMA LegalIsValue == \A s \in Setting : Legal[s] \subseteq Value
BY DEF Value

\* Documents, and the minimal one, that are valid.
Parseable(d) ==
  /\ d.schedules \in Optional(Schedules)
  /\ IsValid(d)

LEMMA ParseIsGood ==
  ASSUME NEW d, Parseable(d)
  PROVE  Good(Parse(d))
<1> DEFINE sch == ParseSchedules(d.schedules)
           set == Fill(d.settings)
<1>1. Parse(d).schedules = sch /\ Parse(d).settings = set /\ Parse(d) = [schedules |-> sch, settings |-> set]
  BY DEF Parse
<1>2. ASSUME NEW s \in Setting
      PROVE  /\ set[s] \in Optional(Legal[s]) /\ set[s] \in Optional(Value)
             /\ set[s] = Absent => DefaultValue[s] = Absent
  BY <1>2, DefaultsAssumption, LegalIsValue
     DEF Parseable, IsValid, SettingsAreLegal, Fill, Or, Optional
<1>3. set \in [Setting -> Optional(Value)]
  BY <1>2 DEF Fill
<1>4. /\ sch \in Schedules /\ SchedulesAreValid(sch)
      /\ \A j \in JobType : sch[j] # Absent => sch[j].enabled # Absent
  <2>1. CASE d.schedules = Absent
    <3>1. sch = DefaultSchedules
      BY <2>1 DEF ParseSchedules
    <3> QED BY <3>1, DefaultsAssumption
  <2>2. CASE d.schedules # Absent
    <3>1. d.schedules \in Schedules
      BY <2>2 DEF Parseable, Optional
    <3>2. ASSUME NEW j \in JobType
          PROVE  /\ sch[j] = ParseEntry(d.schedules[j])
                 /\ sch[j] \in Optional(Entry)
                 /\ sch[j] # Absent => EntryIsValid(sch[j]) /\ sch[j].enabled # Absent
      <4>1. sch[j] = ParseEntry(d.schedules[j]) /\ d.schedules[j] \in Optional(Entry)
        BY <2>2, <3>1 DEF ParseSchedules, Schedules
      <4>2. CASE d.schedules[j] = Absent
        BY <4>1, <4>2 DEF ParseEntry, Optional
      <4>3. CASE d.schedules[j] # Absent
        <5>1. d.schedules[j] \in Entry /\ EntryIsValid(d.schedules[j])
          BY <2>2, <4>1, <4>3 DEF Parseable, IsValid, SchedulesAreValid, Optional
        <5>2. /\ ParseEntry(d.schedules[j]).enabled = Or(d.schedules[j].enabled, TRUE)
              /\ ParseEntry(d.schedules[j]).cron = d.schedules[j].cron
              /\ ParseEntry(d.schedules[j]).every = d.schedules[j].every
              /\ ParseEntry(d.schedules[j]) \in Entry
          BY <4>3, <5>1 DEF ParseEntry, Entry, Or, Optional
        <5> QED BY <4>1, <5>1, <5>2, AbsentAssumption DEF EntryIsValid, Or, Optional
      <4> QED BY <4>2, <4>3
    <3>3. sch \in Schedules
      <4>1. sch = [j \in JobType |-> ParseEntry(d.schedules[j])]
        BY <2>2 DEF ParseSchedules
      <4> QED BY <3>2, <4>1 DEF Schedules
    <3> QED BY <3>2, <3>3 DEF SchedulesAreValid
  <2> QED BY <2>1, <2>2
<1>5. Parse(d) \in Policies
  BY <1>1, <1>3, <1>4 DEF Policies
<1> QED BY <1>1, <1>2, <1>4, <1>5 DEF Good

LEMMA ParseIsAuthored ==
  ASSUME NEW d, Parseable(d)
  PROVE  Authored(Parse(d), {d})
<1>1. /\ Parse(d).schedules = ParseSchedules(d.schedules)
      /\ Parse(d).settings = Fill(d.settings)
  BY DEF Parse
<1>2. ASSUME NEW j \in JobType PROVE Offers(Parse(d).schedules, j) \subseteq CadencesOf({d}, j)
  <2>1. CASE d.schedules = Absent
    BY <1>1, <2>1 DEF ParseSchedules, CadencesOf
  <2>2. CASE d.schedules # Absent
    <3>1. d.schedules[j] \in Optional(Entry) /\ Parse(d).schedules[j] = ParseEntry(d.schedules[j])
      BY <1>1, <2>2 DEF Parseable, Optional, Schedules, ParseSchedules
    <3>2. CASE d.schedules[j] = Absent
      <4>1. Parse(d).schedules[j] = Absent
        BY <3>1, <3>2 DEF ParseEntry
      <4> QED BY <4>1 DEF Offers
    <3>3. CASE d.schedules[j] # Absent
      <4>1. /\ Parse(d).schedules[j].cron = d.schedules[j].cron
            /\ Parse(d).schedules[j].every = d.schedules[j].every
        BY <3>1, <3>3 DEF ParseEntry, Entry, Optional
      <4>2. Offers(Parse(d).schedules, j) \subseteq Offers(d.schedules, j)
        BY <2>2, <3>3, <4>1 DEF Offers
      <4> QED BY <4>2 DEF CadencesOf
    <3> QED BY <3>2, <3>3
  <2> QED BY <2>1, <2>2
<1>3. ASSUME NEW s \in Setting PROVE Parse(d).settings[s] \in ValuesOf({d}, s)
  BY <1>1 DEF Fill, Or, ValuesOf
<1> QED BY <1>2, <1>3 DEF Authored

LEMMA MinimalIsGood == Good(Parse(Minimal)) /\ Authored(Parse(Minimal), {})
<1>1. Parseable(Minimal)
  BY DEF Parseable, Minimal, IsValid, SchedulesAreValid, SettingsAreLegal, Optional
<1>2. /\ Parse(Minimal).schedules = DefaultSchedules
      /\ Parse(Minimal).settings = [s \in Setting |-> DefaultValue[s]]
  BY DEF Parse, Minimal, ParseSchedules, Fill, Or
<1>3. Authored(Parse(Minimal), {})
  BY <1>2 DEF Authored, CadencesOf, ValuesOf
<1> QED BY <1>1, <1>3, ParseIsGood

\* A policy parses to itself.
LEMMA ParsingIsIdempotent == ASSUME NEW p, Good(p) PROVE Parse(p) = p
<1>1. /\ p.schedules \in Schedules /\ p.schedules # Absent
      /\ p.settings \in [Setting -> Optional(Value)]
      /\ p = [schedules |-> p.schedules, settings |-> p.settings]
  BY AbsentAssumption DEF Good, Policies
<1>2. ASSUME NEW j \in JobType PROVE ParseEntry(p.schedules[j]) = p.schedules[j]
  <2>1. CASE p.schedules[j] = Absent
    BY <2>1 DEF ParseEntry
  <2>2. CASE p.schedules[j] # Absent
    <3>1. p.schedules[j] \in Entry /\ p.schedules[j].enabled # Absent
      BY <1>1, <2>2 DEF Good, Schedules, Optional
    <3> QED BY <2>2, <3>1 DEF ParseEntry, Or, Entry
  <2> QED BY <2>1, <2>2
<1>3. ParseSchedules(p.schedules) = p.schedules
  BY <1>1, <1>2 DEF ParseSchedules, Schedules
<1>4. ASSUME NEW s \in Setting PROVE Or(p.settings[s], DefaultValue[s]) = p.settings[s]
  BY DEF Good, Or
<1>5. Fill(p.settings) = p.settings
  BY <1>1, <1>4 DEF Fill
<1> QED BY <1>1, <1>3, <1>5 DEF Parse

LEMMA NullIsIllegal == \A s \in Setting : Null \notin Optional(Legal[s])
BY JsonAssumption, LegalIsValue DEF Optional

\* JSON keeps what is finite, and spoils a setting of what is not.
LEMMA JsonKeepsTheFinite ==
  ASSUME NEW d, Parseable(d)
  PROVE  /\ IsFinite(d) => ToJson(Parse(d)) = Parse(d)
         /\ ~IsFinite(d) => \E s \in Setting : ToJson(Parse(d)).settings[s] = Null
<1>1. PICK p : p = Parse(d) /\ Good(p) /\ p.settings = Fill(d.settings)
  <2>1. Good(Parse(d)) /\ Parse(d).settings = Fill(d.settings)
    BY ParseIsGood DEF Parse
  <2> QED BY <2>1
<1>2. /\ p = [schedules |-> p.schedules, settings |-> p.settings]
      /\ p.settings \in [Setting -> Optional(Value)]
  BY <1>1 DEF Good, Policies
<1>3. ToJson(p).settings = [s \in Setting |-> IF p.settings[s] \in Infinite THEN Null
                                             ELSE p.settings[s]]
      /\ ToJson(p) = [schedules |-> p.schedules, settings |-> ToJson(p).settings]
  BY DEF ToJson
<1>4. \A s \in Setting : p.settings[s] \in Infinite <=> d.settings[s] \in Infinite
  <2>1. Absent \notin Infinite
    BY JsonAssumption, AbsentAssumption
  <2> QED BY <1>1, <2>1, DefaultsAssumption DEF Fill, Or
<1>5. ASSUME IsFinite(d) PROVE ToJson(p) = p
  <2>1. ToJson(p).settings = p.settings
    BY <1>2, <1>3, <1>4, <1>5 DEF IsFinite
  <2> QED BY <1>2, <1>3, <2>1
<1>6. ASSUME ~IsFinite(d) PROVE \E s \in Setting : ToJson(p).settings[s] = Null
  BY <1>3, <1>4, <1>6 DEF IsFinite
<1> QED BY <1>1, <1>5, <1>6

LEMMA WrittenType == ASSUME NEW d, Parseable(d) PROVE ToJson(Parse(d)) \in Written
BY ParseIsGood DEF Good, Policies, ToJson, Written

\* The round trip of an accepted document through the database: unless it gave an infinite
\* number, the row parses to just what was accepted; if it did, the row does not parse,
\* and with no policy does it merge to one that does.
THEOREM StoredPoliciesReadBack ==
  ASSUME NEW d, Parseable(d)
  PROVE  /\ IsFinite(d) => /\ IsValid(ToJson(Parse(d)))
                           /\ Parse(ToJson(Parse(d))) = Parse(d)
         /\ ~IsFinite(d) => /\ ~IsValid(ToJson(Parse(d)))
                            /\ \A base : ~IsValid(Merge(base, ToJson(Parse(d))))
<1>1. Good(Parse(d))
  BY ParseIsGood
<1>2. ASSUME IsFinite(d) PROVE IsValid(ToJson(Parse(d))) /\ Parse(ToJson(Parse(d))) = Parse(d)
  BY <1>1, <1>2, JsonKeepsTheFinite, ParsingIsIdempotent
     DEF Good, IsValid, SettingsAreLegal
<1>3. ASSUME ~IsFinite(d)
      PROVE  /\ ~IsValid(ToJson(Parse(d)))
             /\ \A base : ~IsValid(Merge(base, ToJson(Parse(d))))
  <2>1. PICK s \in Setting : ToJson(Parse(d)).settings[s] = Null
    BY <1>3, JsonKeepsTheFinite
  <2>2. ~IsValid(ToJson(Parse(d)))
    BY <2>1, NullIsIllegal DEF IsValid, SettingsAreLegal
  <2>3. ASSUME NEW base PROVE ~IsValid(Merge(base, ToJson(Parse(d))))
    <3>1. Merge(base, ToJson(Parse(d))).settings[s] = Null
      BY <2>1, JsonAssumption DEF Merge, Or, Optional
    <3> QED BY <3>1, NullIsIllegal DEF IsValid, SettingsAreLegal
  <2> QED BY <2>2, <2>3
<1> QED BY <1>2, <1>3

\* Two policies merge to a valid document: whatever is enabled has a cadence.
LEMMA MergeIsValid ==
  ASSUME NEW b, NEW o, Good(b), Good(o)
  PROVE  Parseable(Merge(b, o)) /\ Merge(b, o).schedules \in Schedules
<1> DEFINE sch == [j \in JobType |-> MergeEntry(b.schedules[j], o.schedules[j])]
<1>1. /\ Merge(b, o).schedules = sch
      /\ Merge(b, o).settings = [s \in Setting |-> Or(o.settings[s], b.settings[s])]
  BY AbsentAssumption DEF Merge, Good, Policies
<1>2. ASSUME NEW j \in JobType
      PROVE  sch[j] \in Optional(Entry) /\ (sch[j] # Absent => EntryIsValid(sch[j]))
  <2>1. /\ sch[j] = MergeEntry(b.schedules[j], o.schedules[j])
        /\ b.schedules[j] \in Optional(Entry) /\ o.schedules[j] \in Optional(Entry)
        /\ b.schedules[j] # Absent => EntryIsValid(b.schedules[j])
        /\ o.schedules[j] # Absent => /\ EntryIsValid(o.schedules[j])
                                      /\ o.schedules[j].enabled # Absent
    BY AbsentAssumption DEF Good, Policies, Schedules, SchedulesAreValid
  <2>2. CASE Absent \in {b.schedules[j], o.schedules[j]}
    BY <2>1, <2>2 DEF MergeEntry, Or, Optional
  <2>3. CASE Absent \notin {b.schedules[j], o.schedules[j]}
    <3>1. /\ sch[j].enabled = o.schedules[j].enabled
          /\ sch[j].cron = Or(o.schedules[j].cron, b.schedules[j].cron)
          /\ sch[j].every = Or(o.schedules[j].every, b.schedules[j].every)
          /\ sch[j] \in Entry
      BY <2>1, <2>3 DEF MergeEntry, Or, Entry, Optional
    <3> QED BY <2>1, <2>3, <3>1 DEF EntryIsValid, Or, Optional
  <2> QED BY <2>2, <2>3
<1>3. sch \in Schedules /\ SchedulesAreValid(sch)
  BY <1>2 DEF Schedules, SchedulesAreValid
<1>4. SettingsAreLegal(Merge(b, o).settings)
  BY <1>1 DEF SettingsAreLegal, Good, Or, Optional
<1> QED BY <1>1, <1>3, <1>4 DEF Parseable, IsValid, Optional

\* The merged policy has no other authors than the two.
LEMMA MergeIsAuthored ==
  ASSUME NEW b, NEW o, Good(b), Good(o), NEW D, Authored(b, D), Authored(o, D)
  PROVE  Authored(Parse(Merge(b, o)), D)
<1> DEFINE m == Merge(b, o)
<1>1. /\ m.schedules = [j \in JobType |-> MergeEntry(b.schedules[j], o.schedules[j])]
      /\ m.settings = [s \in Setting |-> Or(o.settings[s], b.settings[s])]
      /\ m.schedules # Absent
  <2>1. m.schedules \in Schedules
    BY MergeIsValid
  <2>2. o.schedules # Absent
    BY AbsentAssumption DEF Good, Policies
  <2> QED BY <2>1, <2>2, AbsentAssumption DEF Merge
<1>2. Authored(Parse(m), {m})
  BY MergeIsValid, ParseIsAuthored
<1> HIDE DEF m
<1>3. ASSUME NEW j \in JobType PROVE Offers(m.schedules, j) \subseteq CadencesOf(D, j)
  <2>1. /\ m.schedules[j] = MergeEntry(b.schedules[j], o.schedules[j])
        /\ b.schedules # Absent /\ o.schedules # Absent
    BY <1>1, AbsentAssumption DEF Good, Policies
  <2>2. /\ Offers(b.schedules, j) \subseteq CadencesOf(D, j)
        /\ Offers(o.schedules, j) \subseteq CadencesOf(D, j)
    BY DEF Authored
  <2>3. CASE Absent \in {b.schedules[j], o.schedules[j]}
    BY <1>1, <2>1, <2>2, <2>3 DEF MergeEntry, Or, Offers
  <2>4. CASE Absent \notin {b.schedules[j], o.schedules[j]}
    <3>1. /\ m.schedules[j].cron \in {b.schedules[j].cron, o.schedules[j].cron}
          /\ m.schedules[j].every \in {b.schedules[j].every, o.schedules[j].every}
      BY <2>1, <2>4 DEF MergeEntry, Or
    <3>2. Offers(m.schedules, j) \subseteq Offers(b.schedules, j) \cup Offers(o.schedules, j)
      BY <2>1, <2>4, <3>1 DEF Offers
    <3> QED BY <2>2, <3>2
  <2> QED BY <2>3, <2>4
<1>4. ASSUME NEW s \in Setting PROVE m.settings[s] \in ValuesOf(D, s)
  BY <1>1 DEF Authored, Or
<1>5. ASSUME NEW j \in JobType PROVE Offers(Parse(m).schedules, j) \subseteq CadencesOf(D, j)
  <2>1. CadencesOf({m}, j) = Offers(DefaultSchedules, j) \cup Offers(m.schedules, j)
    BY DEF CadencesOf
  <2>2. Offers(DefaultSchedules, j) \subseteq CadencesOf(D, j)
    BY DEF CadencesOf
  <2> QED BY <1>2, <1>3, <2>1, <2>2 DEF Authored
<1>6. ASSUME NEW s \in Setting PROVE Parse(m).settings[s] \in ValuesOf(D, s)
  <2>1. ValuesOf({m}, s) = {DefaultValue[s], m.settings[s]}
    BY DEF ValuesOf
  <2>2. DefaultValue[s] \in ValuesOf(D, s)
    BY DEF ValuesOf
  <2> QED BY <1>2, <1>4, <2>1, <2>2 DEF Authored
<1> QED BY <1>5, <1>6 DEF Authored, m

LEMMA EffectiveIsGood ==
  ASSUME NEW b, NEW o, NEW D, Good(b), Authored(b, D),
         o # Absent => Good(o) /\ Authored(o, D)
  PROVE  Good(Effective(b, o)) /\ Authored(Effective(b, o), D)
BY MergeIsValid, ParseIsGood, MergeIsAuthored DEF Effective

\* A repeatable that a policy plans has a cadence and a payload of that policy.
LEMMA PlannedIsAuthored ==
  ASSUME NEW p, NEW D, Good(p), Authored(p, D), NEW x \in PlanRepeatables(p)
  PROVE  /\ x.job \in JobType /\ x.repeat \in {"cron", "every"} \X Cadence
         /\ x.params \in [Params[x.job] -> Optional(Value)] /\ x.repeat \in CadencesOf(D, x.job)
         /\ \A s \in Params[x.job] : x.params[s] \in ValuesOf(D, s)
<1>1. PICK j \in JobType : /\ IsPlanned(p, j)
                           /\ x = [job |-> j, repeat |-> Repeat(p.schedules[j]), params |-> JobParams(p, j)]
  BY DEF PlanRepeatables
<1>2. x.job = j /\ x.repeat = Repeat(p.schedules[j]) /\ x.params = [s \in Params[j] |-> p.settings[s]]
  BY <1>1 DEF JobParams
<1>3. p.schedules[j] \in Entry /\ p.schedules[j] # Absent /\ p.schedules # Absent
  BY <1>1, AbsentAssumption DEF IsPlanned, IsActive, Good, Policies, Schedules, Optional
<1>4. /\ x.repeat \in Offers(p.schedules, j)
      /\ x.repeat \in {"cron", "every"} \X Cadence
  BY <1>1, <1>2, <1>3 DEF IsPlanned, Repeat, Offers, Entry, Optional
<1>5. Params[j] \subseteq Setting
  BY JobAssumption
<1> QED BY <1>2, <1>4, <1>5, LegalIsValue DEF Authored, Good, Optional

-----------------------------------------------------------------------------
(* The inductive invariant.                                                 *)

\* Its documents, and those of its own or of the default policy, among what was posted.
DocsOf(o) == {d \in Document : <<o, d>> \in posted}
Given(P, t) == {d \in Document : \E o \in {t, Default} : <<o, d>> \in P}

\* Every stored row is a valid document that was posted for its owner, parsed, as JSON.
Stored ==
  \A o \in Owner, v \in Version : policies[o][v] # Absent =>
    /\ policies[o][v].given \in DocsOf(o) /\ IsValid(policies[o][v].given)
    /\ policies[o][v].document = ToJson(Parse(policies[o][v].given))

\* What x, of a plan or registered, says about a job comes from the documents D.
MadeFrom(D, x) ==
  /\ x.job \in JobType /\ x.repeat \in {"cron", "every"} \X Cadence
  /\ x.params \in [Params[x.job] -> Optional(Value)] /\ x.repeat \in CadencesOf(D, x.job)
  /\ \A s \in Params[x.job] : x.params[s] \in ValuesOf(D, s)

SchedType == [pc : {"off", "default", "tenant", "adding", "running"}, todo : SUBSET Tenant,
              base : Optional(WholePolicies),
              plan : SUBSET [job : JobType, repeat : {"cron", "every"} \X Cadence,
                             params : UNION {[Params[j] -> Optional(Value)] : j \in JobType}]]

Local ==
  /\ sched.pc \in {"default", "tenant", "adding"} => sched.todo # {}
  /\ sched.pc = "running" => sched.todo = {}
  /\ sched.pc = "tenant" => Good(sched.base) /\ Authored(sched.base, DocsOf(Default))
  /\ sched.pc = "adding" => \A x \in sched.plan : MadeFrom(Given(posted, First(sched.todo)), x)
  /\ \A r \in repeatables : MadeFrom(Given(posted, r.tenant), r)

Wanted == [t \in Tenant |-> Intended(t)]
Key(t, x) == [tenant |-> t, job |-> x.job, repeat |-> x.repeat]

\* The tenants that are done have what they want, and the plan has what the next one lacks.
Fresh ==
  quiet =>
    /\ sched.pc # "off" => \A t \in Enabled \ sched.todo : Wanted[t] \subseteq Registered
    /\ sched.pc = "tenant" => sched.base = BasePolicy
    /\ sched.pc = "adding" =>
         Wanted[First(sched.todo)] \subseteq
           Registered \cup {Key(First(sched.todo), x) : x \in sched.plan}

SInv == TypeOK /\ sched \in SchedType /\ Stored /\ Local /\ Fresh

-----------------------------------------------------------------------------
(* Rows.                                                                    *)

LEMMA MadeFromMore ==
  ASSUME NEW D, NEW E, D \subseteq E, NEW x, MadeFrom(D, x)
  PROVE  MadeFrom(E, x)
BY DEF MadeFrom, CadencesOf, ValuesOf

LEMMA LatestIsStored ==
  ASSUME NEW o, LatestRow(o) # Absent
  PROVE  \E v \in Version : LatestRow(o) = policies[o][v]
<1> DEFINE stored == {v \in Version : policies[o][v] # Absent}
<1>1. stored # {}
  BY DEF LatestRow
<1>2. stored \subseteq 1..Cardinality(Version) /\ Cardinality(Version) \in Nat
  BY VersionAssumption, FS_CardinalityType
<1>3. \E v \in stored : \A u \in stored : u <= v
  BY <1>1, <1>2, Maximum
<1>4. (CHOOSE v \in stored : \A u \in stored : u <= v) \in stored
  BY <1>3
<1> QED BY <1>1, <1>4 DEF LatestRow

\* A row is what is left of a valid document of its owner, and a policy if that is finite.
LEMMA LatestIsWritten ==
  ASSUME Stored, NEW o \in Owner, Latest(o) # Absent
  PROVE  /\ LatestRow(o) # Absent
         /\ \E d \in DocsOf(o) : /\ Parseable(d) /\ d = LatestRow(o).given
                                 /\ Latest(o) = ToJson(Parse(d))
<1>1. LatestRow(o) # Absent /\ Latest(o) = LatestRow(o).document
  BY DEF Latest
<1>2. PICK v \in Version : LatestRow(o) = policies[o][v]
  BY <1>1, LatestIsStored
<1>3. PICK d \in DocsOf(o) : IsValid(d) /\ d = LatestRow(o).given /\ Latest(o) = ToJson(Parse(d))
  BY <1>1, <1>2 DEF Stored
<1>4. Parseable(d)
  BY <1>3, DocumentAssumption DEF Parseable, DocsOf
<1> QED BY <1>1, <1>3, <1>4

LEMMA LatestIsGood ==
  ASSUME Stored, NEW o \in Owner, Latest(o) # Absent, IsFinite(LatestRow(o).given)
  PROVE  Good(Latest(o)) /\ Authored(Latest(o), DocsOf(o))
<1>1. PICK d \in DocsOf(o) : Parseable(d) /\ IsFinite(d) /\ Latest(o) = ToJson(Parse(d))
  BY LatestIsWritten
<1>2. Latest(o) = Parse(d)
  BY <1>1, JsonKeepsTheFinite
<1>3. Good(Parse(d)) /\ Authored(Parse(d), {d}) /\ {d} \subseteq DocsOf(o)
  BY <1>1, ParseIsGood, ParseIsAuthored
<1> QED BY <1>2, <1>3, AuthoredByMore

\* What does not stop the parser is finite.
LEMMA ParsedIsFinite ==
  ASSUME Stored, NEW o \in Owner, Latest(o) # Absent,
         IsValid(Latest(o)) \/ \E base : IsValid(Merge(base, Latest(o)))
  PROVE  IsFinite(LatestRow(o).given)
<1>1. PICK d \in DocsOf(o) : /\ Parseable(d) /\ d = LatestRow(o).given
                             /\ Latest(o) = ToJson(Parse(d))
  BY LatestIsWritten
<1> QED BY <1>1, StoredPoliciesReadBack

LEMMA BaseIsGood ==
  ASSUME Stored, IsValid(BaseDocument)
  PROVE  Good(BasePolicy) /\ Authored(BasePolicy, DocsOf(Default))
<1>1. CASE Latest(Default) = Absent
  <2>1. BasePolicy = Parse(Minimal)
    BY <1>1 DEF BasePolicy, BaseDocument, Or
  <2>2. {} \subseteq DocsOf(Default)
    OBVIOUS
  <2> QED BY <2>1, <2>2, MinimalIsGood, AuthoredByMore
<1>2. CASE Latest(Default) # Absent
  <2>1. BaseDocument = Latest(Default) /\ Default \in Owner
    BY <1>2 DEF BaseDocument, Or, Owner
  <2>2. Good(Latest(Default)) /\ Authored(Latest(Default), DocsOf(Default))
    BY <1>2, <2>1, ParsedIsFinite, LatestIsGood
  <2> QED BY <2>1, <2>2, ParsingIsIdempotent DEF BasePolicy
<1> QED BY <1>1, <1>2

\* The default policy parses if it is finite.
LEMMA BaseIsValid ==
  ASSUME Stored
  PROVE  IsValid(BaseDocument) <=> (Latest(Default) # Absent => IsFinite(LatestRow(Default).given))
<1>1. CASE Latest(Default) = Absent
  <2>1. BaseDocument = Minimal
    BY <1>1 DEF BaseDocument, Or
  <2> QED BY <1>1, <2>1 DEF Minimal, IsValid, SchedulesAreValid, SettingsAreLegal, Optional
<1>2. CASE Latest(Default) # Absent
  <2>1. BaseDocument = Latest(Default) /\ Default \in Owner
    BY <1>2 DEF BaseDocument, Or, Owner
  <2>2. IsFinite(LatestRow(Default).given) => IsValid(Latest(Default))
    BY <1>2, <2>1, LatestIsGood DEF Good, IsValid, SettingsAreLegal
  <2> QED BY <1>2, <2>1, <2>2, ParsedIsFinite
<1> QED BY <1>1, <1>2

LEMMA RowsAreNotAbsent ==
  ASSUME Stored, NEW o \in Owner, LatestRow(o) # Absent
  PROVE  Latest(o) # Absent
<1>1. PICK v \in Version : LatestRow(o) = policies[o][v]
  BY LatestIsStored
<1>2. Latest(o) = ToJson(Parse(LatestRow(o).given))
  BY <1>1 DEF Latest, Stored
<1>3. ToJson(Parse(LatestRow(o).given)) \in Written
  BY <1>1, WrittenType, DocumentAssumption DEF Stored, DocsOf, Parseable
<1> QED BY <1>2, <1>3, DocumentAssumption

LEMMA GivenAreDocs ==
  \A t : DocsOf(t) \subseteq Given(posted, t) /\ DocsOf(Default) \subseteq Given(posted, t)
BY DEF DocsOf, Given

LEMMA SInvImplies ==
  SInv => /\ TypeOK /\ FinitePoliciesResolve /\ PayloadsHaveAuthors /\ QuietStartRegistersPlans
<1> SUFFICES ASSUME SInv
             PROVE  FinitePoliciesResolve /\ PayloadsHaveAuthors /\ QuietStartRegistersPlans
  BY DEF SInv
<1>1. FinitePoliciesResolve
  <2> SUFFICES ASSUME NEW t \in Tenant
               PROVE  Resolves(t) <=> \A o \in {t, Default} :
                        LatestRow(o) # Absent => IsFinite(LatestRow(o).given)
    BY DEF FinitePoliciesResolve
  <2>1. ASSUME NEW o \in {t, Default}
        PROVE  o \in Owner /\ (LatestRow(o) # Absent <=> Latest(o) # Absent)
    <3>1. o \in Owner
      BY DEF Owner
    <3>2. LatestRow(o) # Absent => Latest(o) # Absent
      BY <3>1, RowsAreNotAbsent DEF SInv
    <3> QED BY <3>1, <3>2 DEF Latest
  <2>2. IsValid(BaseDocument) <=> (Latest(Default) # Absent => IsFinite(LatestRow(Default).given))
    BY BaseIsValid DEF SInv
  <2>3. ASSUME Latest(t) # Absent, IsValid(Merge(BasePolicy, Latest(t)))
        PROVE  IsFinite(LatestRow(t).given)
    BY <2>1, <2>3, ParsedIsFinite DEF SInv
  <2>4. ASSUME Latest(t) # Absent, IsValid(BaseDocument), IsFinite(LatestRow(t).given)
        PROVE  IsValid(Merge(BasePolicy, Latest(t)))
    BY <2>1, <2>4, BaseIsGood, LatestIsGood, MergeIsValid DEF SInv, Parseable
  <2> QED BY <2>1, <2>2, <2>3, <2>4 DEF Resolves
<1>2. PayloadsHaveAuthors
  <2>1. \A r \in repeatables : MadeFrom(Given(posted, r.tenant), r)
    BY DEF SInv, Local
  <2>2. \A t : Given(posted, t) = GivenFor(t)
    BY DEF Given, GivenFor
  <2> QED BY <2>1, <2>2 DEF PayloadsHaveAuthors, MadeFrom, CadencesOf, ValuesOf
<1>3. QuietStartRegistersPlans
  <2>1. ASSUME sched.pc = "running", quiet, NEW t \in Enabled
        PROVE  Intended(t) \subseteq Registered
    <3>1. t \in Enabled \ sched.todo /\ t \in Tenant
      BY <2>1 DEF SInv, Local, Enabled
    <3>2. Wanted[t] \subseteq Registered
      BY <2>1, <3>1 DEF SInv, Fresh
    <3> QED BY <3>1, <3>2 DEF Wanted
  <2> QED BY <2>1 DEF QuietStartRegistersPlans
<1> QED BY <1>1, <1>2, <1>3

LEMMA SInvInit == Init => SInv
<1> SUFFICES ASSUME Init PROVE SInv
  OBVIOUS
<1>1. Off \in SchedType /\ sched = Off /\ sched.pc = "off"
  BY DEF Init, Off, SchedType, Optional
<1>2. TypeOK
  <2>1. MigrationsTypeOK
    BY MInvInit DEF Init, MInv
  <2>2. 0 \in 0..MaxChanges
    BY DocumentAssumption
  <2>3. sched.todo = {} /\ sched.base = Absent
    BY <1>1 DEF Off
  <2>4. policies \in [Owner -> [Version -> {Absent}]]
    BY DEF Init
  <2>5. policies \in [Owner -> [Version -> Optional([given : Document, document : Written])]]
    BY <2>4 DEF Optional
  <2> QED BY <1>1, <2>1, <2>2, <2>3, <2>5 DEF Init, TypeOK, Optional
<1>3. Stored
  BY DEF Init, Stored
<1>4. Local /\ Fresh
  BY <1>1 DEF Init, Local, Fresh
<1> QED BY <1>1, <1>2, <1>3, <1>4 DEF SInv

-----------------------------------------------------------------------------
(* The routes.                                                              *)

\* What survives a request, of what applySchedules and Redis hold.
LEMMA LocalGrows ==
  ASSUME Local, posted \subseteq posted', UNCHANGED <<sched, repeatables>>
  PROVE  Local'
<1>1. \A t : Given(posted, t) \subseteq Given(posted', t)
  BY DEF Given
<1>2. DocsOf(Default) \subseteq DocsOf(Default)'
  BY DEF DocsOf
<1>3. ASSUME sched'.pc = "tenant" PROVE Good(sched'.base) /\ Authored(sched'.base, DocsOf(Default)')
  BY <1>2, <1>3, AuthoredByMore DEF Local
<1>4. ASSUME sched'.pc = "adding", NEW x \in sched'.plan
      PROVE  MadeFrom(Given(posted', First(sched.todo)), x)
  <2>1. MadeFrom(Given(posted, First(sched.todo)), x)
    BY <1>4 DEF Local
  <2> QED BY <1>1, <2>1, MadeFromMore
<1>5. ASSUME NEW r \in repeatables' PROVE MadeFrom(Given(posted', r.tenant), r)
  <2>1. MadeFrom(Given(posted, r.tenant), r)
    BY DEF Local
  <2> QED BY <1>1, <2>1, MadeFromMore
<1> QED BY <1>3, <1>4, <1>5 DEF Local

LEMMA RequestStep ==
  ASSUME SInv, Request, posted \subseteq posted', posted' \subseteq Owner \X Document, Stored',
         tenants' \in [Tenant -> {"none", "enabled", "disabled"}],
         policies' \in [Owner -> [Version -> Optional([given : Document, document : Written])]]
  PROVE  SInv'
<1>1. /\ UNCHANGED <<schema, ids, boot, crashes, applied, repeatables, sched>>
      /\ changes' \in 0..MaxChanges /\ quiet' = FALSE
  BY DocumentAssumption DEF Request, migrationVars, SInv, TypeOK
<1>2. TypeOK'
  BY <1>1 DEF SInv, TypeOK, MigrationsTypeOK
<1>3. Local'
  BY <1>1, LocalGrows DEF SInv
<1> QED BY <1>1, <1>2, <1>3 DEF SInv, Fresh

LEMMA RoutesStep == ASSUME SInv, Routes PROVE SInv'
<1>0. /\ tenants \in [Tenant -> {"none", "enabled", "disabled"}]
      /\ policies \in [Owner -> [Version -> Optional([given : Document, document : Written])]]
      /\ posted \subseteq Owner \X Document
  BY DEF SInv, TypeOK
<1>1. ASSUME Request, UNCHANGED <<policies, posted>>,
             tenants' \in [Tenant -> {"none", "enabled", "disabled"}]
      PROVE  SInv'
  <2>1. Stored'
    BY <1>1 DEF SInv, Stored, DocsOf
  <2> QED BY <1>0, <1>1, <2>1, RequestStep
<1>2. ASSUME NEW t \in Tenant, NEW enabled \in Optional(BOOLEAN), UpsertTenant(t, enabled)
      PROVE  SInv'
  BY <1>0, <1>1, <1>2 DEF UpsertTenant
<1>3. ASSUME NEW t \in Tenant, NEW enabled \in BOOLEAN, SetTenantEnabled(t, enabled)
      PROVE  SInv'
  BY <1>0, <1>1, <1>3 DEF SetTenantEnabled
<1>4. ASSUME NEW o \in Owner, NEW v \in Version, NEW d \in Document, PostPolicy(o, v, d)
      PROVE  SInv'
  <2> DEFINE row == [given |-> d, document |-> ToJson(Parse(d))]
  <2>1. Parseable(d)
    BY <1>4, DocumentAssumption DEF PostPolicy, Parseable
  <2>2. row \in [given : Document, document : Written]
    BY <2>1, WrittenType
  <2>3. policies' = [policies EXCEPT ![o] = [policies[o] EXCEPT ![v] = row]]
    BY <1>4 DEF PostPolicy, InsertPolicy
  <2>4. row.given = d /\ row.document = ToJson(Parse(d)) /\ posted' = posted \cup {<<o, d>>} /\ IsValid(d)
    BY <1>4 DEF PostPolicy
  <2> HIDE DEF row
  <2>5. policies' \in [Owner -> [Version -> Optional([given : Document, document : Written])]]
    BY <1>0, <2>2, <2>3 DEF Optional
  <2>6. ASSUME NEW x \in Owner, NEW w \in Version, policies'[x][w] # Absent
        PROVE  /\ policies'[x][w].given \in DocsOf(x)' /\ IsValid(policies'[x][w].given)
               /\ policies'[x][w].document = ToJson(Parse(policies'[x][w].given))
    <3>1. CASE x = o /\ w = v
      <4>1. policies'[x][w] = row
        BY <1>0, <2>3, <3>1
      <4> QED BY <2>4, <3>1, <4>1 DEF DocsOf
    <3>2. CASE ~(x = o /\ w = v)
      <4>1. policies'[x][w] = policies[x][w]
        BY <1>0, <2>3, <3>2
      <4> QED BY <2>4, <2>6, <4>1 DEF SInv, Stored, DocsOf
    <3> QED BY <3>1, <3>2
  <2>7. Stored'
    BY <2>6 DEF Stored
  <2>8. posted \subseteq posted' /\ posted' \subseteq Owner \X Document
    BY <1>0, <2>4
  <2>9. Request /\ tenants' = tenants
    BY <1>4 DEF PostPolicy
  <2> QED BY <1>0, <2>5, <2>7, <2>8, <2>9, RequestStep
<1> QED BY <1>2, <1>3, <1>4 DEF Routes

-----------------------------------------------------------------------------
(* The worker.                                                              *)

\* What applySchedules reads, and does not change.
LEMMA ReadsAreStable ==
  ASSUME UNCHANGED <<tenants, policies, changes, posted>>
  PROVE  /\ Wanted' = Wanted /\ Enabled' = Enabled /\ BasePolicy' = BasePolicy
         /\ Stored => Stored'
<1>1. BasePolicy' = BasePolicy /\ Enabled' = Enabled
  BY DEF BasePolicy, BaseDocument, Latest, LatestRow, Enabled
<1>2. Wanted' = Wanted
  BY DEF Wanted, Intended, PolicyOf, BasePolicy, BaseDocument, Latest, LatestRow
<1>3. Stored => Stored'
  BY DEF Stored, DocsOf
<1> QED BY <1>1, <1>2, <1>3

\* A step that leaves Redis alone.
LEMMA SchedStep ==
  ASSUME SInv, MigrationsTypeOK', UNCHANGED <<tenants, policies, repeatables, changes, posted>>,
         quiet' \in BOOLEAN, NEW s \in SchedType, sched' = s,
         s.pc \in {"default", "tenant", "adding"} => s.todo # {},
         s.pc = "running" => s.todo = {},
         s.pc = "tenant" => Good(s.base) /\ Authored(s.base, DocsOf(Default)),
         s.pc = "adding" => \A x \in s.plan : MadeFrom(Given(posted, First(s.todo)), x),
         quiet' =>
           /\ s.pc # "off" => \A t \in Enabled \ s.todo : Wanted[t] \subseteq Registered
           /\ s.pc = "tenant" => s.base = BasePolicy
           /\ s.pc = "adding" =>
                Wanted[First(s.todo)] \subseteq Registered \cup {Key(First(s.todo), x) : x \in s.plan}
  PROVE  SInv'
<1>1. TypeOK'
  BY DEF SInv, TypeOK, SchedType
<1>2. Local'
  BY DEF SInv, Local, DocsOf
<1>3. Registered' = Registered
  BY DEF Registered
<1>4. Fresh'
  BY <1>3, ReadsAreStable DEF Fresh
<1> QED BY <1>1, <1>2, <1>4, ReadsAreStable DEF SInv

LEMMA OffStep ==
  ASSUME SInv, MigrationsTypeOK', UNCHANGED <<tenants, policies, repeatables, changes, posted>>,
         quiet' \in BOOLEAN, sched' = Off
  PROVE  SInv'
<1>1. Off \in SchedType /\ Off.pc = "off"
  BY DEF Off, SchedType, Optional
<1> QED BY <1>1, SchedStep

LEMMA LoopType ==
  ASSUME NEW S, S \subseteq Tenant
  PROVE  /\ Loop(S) \in SchedType /\ Loop(S).todo = S
         /\ Loop(S).pc = IF S = {} THEN "running" ELSE "default"
BY DEF Loop, Off, SchedType, Optional

LEMMA ListTenantsStep == ASSUME SInv, ListTenants, MigrationsTypeOK' PROVE SInv'
<1>1. Enabled \subseteq Tenant /\ sched' = Loop(Enabled) /\ quiet' = TRUE
  BY DEF ListTenants, Enabled
<1>2. PICK s : s = Loop(Enabled)
  OBVIOUS
<1>3. s \in SchedType /\ s.todo = Enabled /\ s.pc = IF Enabled = {} THEN "running" ELSE "default"
  BY <1>1, <1>2, LoopType
<1> QED BY <1>1, <1>2, <1>3, SchedStep DEF ListTenants

LEMMA ReadDefaultStep == ASSUME SInv, ReadDefault, MigrationsTypeOK' PROVE SInv'
<1>1. /\ sched.pc = "default" /\ sched.todo # {} /\ quiet' = quiet /\ quiet \in BOOLEAN
      /\ UNCHANGED <<tenants, policies, repeatables, changes, posted>>
  BY DEF ReadDefault, SInv, Local, TypeOK
<1>2. CASE ~IsValid(BaseDocument)
  BY <1>1, <1>2, OffStep DEF ReadDefault, Abort
<1>3. CASE IsValid(BaseDocument)
  <2>1. Good(BasePolicy) /\ Authored(BasePolicy, DocsOf(Default)) /\ BasePolicy \in Optional(WholePolicies)
    BY <1>3, BaseIsGood DEF SInv, Good, Optional, WholePolicies
  <2>2. PICK s : s = [sched EXCEPT !.pc = "tenant", !.base = BasePolicy]
    OBVIOUS
  <2>3. s \in SchedType /\ s.pc = "tenant" /\ s.todo = sched.todo /\ s.base = BasePolicy
    BY <2>1, <2>2 DEF SInv, SchedType
  <2>4. sched' = s
    BY <1>3, <2>2 DEF ReadDefault
  <2>5. quiet => \A t \in Enabled \ s.todo : Wanted[t] \subseteq Registered
    BY <1>1, <2>3 DEF SInv, Fresh
  <2> QED BY <1>1, <2>1, <2>3, <2>4, <2>5, SchedStep
<1> QED BY <1>2, <1>3

LEMMA ReadTenantStep == ASSUME SInv, ReadTenant, MigrationsTypeOK' PROVE SInv'
<1> DEFINE t == First(sched.todo)
           policy == Effective(sched.base, Latest(t))
<1>1. /\ sched.pc = "tenant" /\ quiet' = quiet /\ quiet \in BOOLEAN
      /\ UNCHANGED <<tenants, policies, repeatables, changes, posted>>
      /\ Abort \/ sched' = [sched EXCEPT !.pc = "adding", !.plan = PlanRepeatables(policy)]
  BY DEF ReadTenant, SInv, TypeOK
<1>2. sched.todo # {} /\ t \in sched.todo /\ t \in Tenant /\ t \in Owner
  BY <1>1, FirstTenant DEF SInv, Local, TypeOK, Owner
<1>3. Abort \/ (Latest(t) # Absent => IsValid(Merge(sched.base, Latest(t))))
  BY DEF ReadTenant
<1>4. CASE Abort
  BY <1>1, <1>4, OffStep DEF Abort
<1>5. CASE ~Abort
  <2>0. Good(policy) /\ Authored(policy, Given(posted, t))
    <3>1. Good(sched.base) /\ Authored(sched.base, Given(posted, t))
      BY <1>1, GivenAreDocs, AuthoredByMore DEF SInv, Local
    <3>2. Latest(t) # Absent => IsFinite(LatestRow(t).given)
      BY <1>2, <1>3, <1>5, ParsedIsFinite DEF SInv
    <3>3. Latest(t) # Absent => Good(Latest(t)) /\ Authored(Latest(t), Given(posted, t))
      BY <1>2, <3>2, LatestIsGood, GivenAreDocs, AuthoredByMore DEF SInv
    <3> HIDE DEF t
    <3> QED BY <3>1, <3>3, EffectiveIsGood
  <2>1. \A x \in PlanRepeatables(policy) : MadeFrom(Given(posted, t), x)
    <3> HIDE DEF t, policy
    <3> QED BY <2>0, PlannedIsAuthored DEF MadeFrom
  <2>2. PlanRepeatables(policy) \subseteq
          [job : JobType, repeat : {"cron", "every"} \X Cadence,
           params : UNION {[Params[j] -> Optional(Value)] : j \in JobType}]
    <3>1. ASSUME NEW x \in PlanRepeatables(policy)
          PROVE  x = [job |-> x.job, repeat |-> x.repeat, params |-> x.params]
      BY DEF PlanRepeatables
    <3> HIDE DEF t, policy
    <3> QED BY <2>1, <3>1 DEF MadeFrom
  <2>3. PICK s : s = [sched EXCEPT !.pc = "adding", !.plan = PlanRepeatables(policy)]
    OBVIOUS
  <2>4. /\ s \in SchedType /\ s.pc = "adding" /\ s.todo = sched.todo
        /\ s.plan = PlanRepeatables(policy) /\ sched' = s
    <3> HIDE DEF t, policy
    <3> QED BY <1>1, <1>5, <2>2, <2>3 DEF SInv, SchedType, policy
  <2>5. ASSUME quiet PROVE Wanted[t] \subseteq {Key(t, x) : x \in s.plan}
    <3>1. policy = PolicyOf(t)
      BY <1>1, <2>5 DEF SInv, Fresh, PolicyOf
    <3>2. Wanted[t] = {[tenant |-> t, job |-> j, repeat |-> Repeat(PolicyOf(t).schedules[j])] :
                       j \in {k \in JobType : IsPlanned(PolicyOf(t), k)}}
      BY <1>2 DEF Wanted, Intended
    <3>3. s.plan = {[job |-> j, repeat |-> Repeat(PolicyOf(t).schedules[j]),
                     params |-> JobParams(PolicyOf(t), j)] :
                    j \in {k \in JobType : IsPlanned(PolicyOf(t), k)}}
      BY <2>4, <3>1 DEF PlanRepeatables
    <3>4. ASSUME NEW j \in JobType, IsPlanned(PolicyOf(t), j)
          PROVE  [tenant |-> t, job |-> j, repeat |-> Repeat(PolicyOf(t).schedules[j])]
                   \in {Key(t, x) : x \in s.plan}
      <4> DEFINE x == [job |-> j, repeat |-> Repeat(PolicyOf(t).schedules[j]),
                       params |-> JobParams(PolicyOf(t), j)]
      <4>1. x \in s.plan
        BY <3>3, <3>4
      <4>2. Key(t, x) = [tenant |-> t, job |-> j, repeat |-> Repeat(PolicyOf(t).schedules[j])]
        BY DEF Key
      <4> HIDE DEF x, t
      <4> QED BY <4>1, <4>2
    <3> HIDE DEF t
    <3> QED BY <3>2, <3>4
  <2>6. quiet => \A u \in Enabled \ s.todo : Wanted[u] \subseteq Registered
    BY <1>1, <2>4 DEF SInv, Fresh
  <2>7. First(s.todo) = t
    BY <2>4
  <2> HIDE DEF t, policy
  <2> QED BY <1>1, <1>2, <2>1, <2>4, <2>5, <2>6, <2>7, SchedStep
<1> QED BY <1>1, <1>4, <1>5

LEMMA NextTenantStep == ASSUME SInv, NextTenant, MigrationsTypeOK' PROVE SInv'
<1>1. PICK S : S = sched.todo \ {First(sched.todo)}
  OBVIOUS
<1>2. PICK s : s = Loop(S)
  OBVIOUS
<1>3. S \subseteq Tenant
  BY <1>1 DEF SInv, TypeOK
<1>4. s \in SchedType /\ s.todo = S /\ s.pc = IF S = {} THEN "running" ELSE "default"
  BY <1>2, <1>3, LoopType
<1>5. sched' = s /\ quiet' = quiet /\ quiet \in BOOLEAN
  BY <1>1, <1>2 DEF NextTenant, SInv, TypeOK
<1>6. ASSUME quiet, NEW t \in Enabled \ S PROVE Wanted[t] \subseteq Registered
  <2>1. sched.pc = "adding" /\ sched.plan = {}
    BY DEF NextTenant
  <2>2. Wanted[First(sched.todo)] \subseteq Registered
    BY <1>6, <2>1 DEF SInv, Fresh
  <2> QED BY <1>1, <1>6, <2>1, <2>2 DEF SInv, Fresh
<1>7. UNCHANGED <<tenants, policies, repeatables, changes, posted>>
  BY DEF NextTenant
<1> QED BY <1>4, <1>5, <1>6, <1>7, SchedStep

\* What BullMQ makes of an upsert: the key is registered, no other is lost.
LEMMA UpsertKeys ==
  ASSUME SInv, NEW t \in Tenant, NEW x, MadeFrom(Given(posted, t), x), Upsert(t, x)
  PROVE  /\ Registered \cup {Key(t, x)} \subseteq Registered'
         /\ \A r \in repeatables' : MadeFrom(Given(posted, r.tenant), r)
         /\ repeatables' \subseteq Repeatable
<1>1. PICK params \in {x.params} \cup {r.params : r \in Alike(t, x)} :
        repeatables' = (repeatables \ Alike(t, x)) \cup
          {[tenant |-> t, job |-> x.job, repeat |-> x.repeat, params |-> params]}
  BY DEF Upsert
<1> DEFINE new == [tenant |-> t, job |-> x.job, repeat |-> x.repeat, params |-> params]
<1>2. MadeFrom(Given(posted, t), new)
  <2>1. CASE params = x.params
    BY <2>1 DEF MadeFrom
  <2>2. ASSUME NEW r \in Alike(t, x), params = r.params PROVE MadeFrom(Given(posted, t), new)
    <3>1. MadeFrom(Given(posted, t), r) /\ r.job = x.job /\ r.repeat = x.repeat
      BY DEF Alike, SInv, Local
    <3> QED BY <2>2, <3>1 DEF MadeFrom
  <2> QED BY <1>1, <2>1, <2>2
<1>3. new \in Repeatable /\ new.tenant = t
  BY <1>2 DEF MadeFrom, Repeatable
<1>4. Registered \cup {Key(t, x)} \subseteq Registered'
  <2>1. new \in repeatables' /\ [tenant |-> new.tenant, job |-> new.job, repeat |-> new.repeat] = Key(t, x)
    BY <1>1 DEF Key
  <2>2. Key(t, x) \in Registered'
    BY <2>1 DEF Registered
  <2>3. ASSUME NEW r \in repeatables
        PROVE  [tenant |-> r.tenant, job |-> r.job, repeat |-> r.repeat] \in Registered'
    <3>1. CASE r \in Alike(t, x)
      BY <2>2, <3>1 DEF Alike, Key
    <3>2. CASE r \notin Alike(t, x)
      BY <1>1, <3>2 DEF Registered
    <3> QED BY <3>1, <3>2
  <2> QED BY <2>2, <2>3 DEF Registered
<1>5. \A r \in repeatables : MadeFrom(Given(posted, r.tenant), r)
  BY DEF SInv, Local
<1>6. repeatables \subseteq Repeatable
  BY DEF SInv, TypeOK
<1> HIDE DEF new
<1>7. repeatables' \subseteq repeatables \cup {new}
  BY <1>1 DEF new
<1> QED BY <1>2, <1>3, <1>4, <1>5, <1>6, <1>7

LEMMA AddRepeatableStep == ASSUME SInv, AddRepeatable, MigrationsTypeOK' PROVE SInv'
<1>1. PICK x \in sched.plan :
        /\ sched.pc = "adding"
        /\ \/ Abort /\ UNCHANGED repeatables
           \/ Upsert(First(sched.todo), x) /\ sched' = [sched EXCEPT !.plan = @ \ {x}]
        /\ UNCHANGED <<tenants, policies, changes, quiet, posted>>
  BY DEF AddRepeatable
<1>2. quiet \in BOOLEAN
  BY DEF SInv, TypeOK
<1>3. CASE Abort /\ UNCHANGED repeatables
  BY <1>1, <1>2, <1>3, OffStep DEF Abort
<1>4. CASE Upsert(First(sched.todo), x) /\ sched' = [sched EXCEPT !.plan = @ \ {x}]
  <2>1. PICK t \in Tenant : t = First(sched.todo) /\ t \in sched.todo
    BY <1>1, FirstTenant DEF SInv, Local, TypeOK
  <2>2. \A y \in sched.plan : MadeFrom(Given(posted, t), y)
    BY <1>1, <2>1 DEF SInv, Local
  <2>3. /\ Registered \cup {Key(t, x)} \subseteq Registered'
        /\ \A r \in repeatables' : MadeFrom(Given(posted, r.tenant), r)
        /\ repeatables' \subseteq Repeatable
    BY <1>1, <1>4, <2>1, <2>2, UpsertKeys
  <2>4. PICK s \in SchedType : sched' = s /\ s.pc = "adding" /\ s.todo = sched.todo
                               /\ s.base = sched.base /\ s.plan = sched.plan \ {x}
    <3> DEFINE c == [sched EXCEPT !.plan = @ \ {x}]
    <3>1. c \in SchedType /\ sched' = c /\ c.pc = "adding" /\ c.todo = sched.todo
          /\ c.base = sched.base /\ c.plan = sched.plan \ {x}
      BY <1>1, <1>4 DEF SInv, SchedType
    <3> HIDE DEF c
    <3> QED BY <3>1
  <2>5. TypeOK'
    BY <1>1, <1>2, <2>3, <2>4 DEF SInv, TypeOK, SchedType
  <2>6. Local'
    <3>1. \A y \in s.plan : MadeFrom(Given(posted, First(s.todo)), y)
      BY <2>1, <2>2, <2>4
    <3> QED BY <1>1, <2>1, <2>3, <2>4, <3>1 DEF Local
  <2>7. Fresh'
    <3>1. /\ quiet => \A u \in Enabled \ s.todo : Wanted[u] \subseteq Registered
          /\ quiet => Wanted[t] \subseteq Registered \cup {Key(t, y) : y \in sched.plan}
      BY <1>1, <2>1, <2>4 DEF SInv, Fresh
    <3>2. quiet => Wanted[t] \subseteq Registered' \cup {Key(t, y) : y \in s.plan}
      <4>1. {Key(t, y) : y \in sched.plan} \subseteq {Key(t, x)} \cup {Key(t, y) : y \in s.plan}
        BY <2>4
      <4> QED BY <2>3, <3>1, <4>1
    <3>3. quiet => \A u \in Enabled \ s.todo : Wanted[u] \subseteq Registered'
      BY <2>3, <3>1
    <3>4. Wanted' = Wanted /\ Enabled' = Enabled /\ quiet' = quiet
      BY <1>1, ReadsAreStable
    <3>5. First(s.todo) = t
      BY <2>1, <2>4
    <3> QED BY <2>4, <3>2, <3>3, <3>4, <3>5 DEF Fresh
  <2> QED BY <1>1, <2>4, <2>5, <2>6, <2>7, ReadsAreStable DEF SInv
<1> QED BY <1>1, <1>3, <1>4

LEMMA LeavingStep == ASSUME SInv, Leaving, MigrationsTypeOK' PROVE SInv'
<1>1. /\ UNCHANGED <<tenants, policies, repeatables, changes, posted>> /\ quiet' = quiet
      /\ sched' \in {sched, Off} /\ quiet \in BOOLEAN
  BY DEF Leaving, SInv, TypeOK
<1>2. CASE sched' = Off
  BY <1>1, <1>2, OffStep
<1>3. CASE sched' = sched
  BY <1>1, <1>3, SchedStep DEF SInv, Local, Fresh
<1> QED BY <1>1, <1>2, <1>3

-----------------------------------------------------------------------------
(* The properties.                                                          *)

LEMMA SInvStep == ASSUME SInv, MigrationsTypeOK', [Next]_vars PROVE SInv'
<1>1. CASE Routes
  BY <1>1, RoutesStep
<1>2. CASE ApplySchedules
  BY <1>2, ListTenantsStep, ReadDefaultStep, ReadTenantStep, AddRepeatableStep, NextTenantStep
     DEF ApplySchedules
<1>3. CASE \E p \in Proc : Starting(p) \/ Failing(p)
  BY <1>3, LeavingStep DEF Starting, Failing
<1>4. CASE UNCHANGED vars
  <2>1. /\ UNCHANGED <<tenants, policies, repeatables, changes, posted>> /\ quiet' = quiet
        /\ sched' = sched /\ quiet \in BOOLEAN
    BY <1>4 DEF vars, schedulerVars, SInv, TypeOK
  <2> QED BY <2>1, SchedStep DEF SInv, Local, Fresh
<1> QED BY <1>1, <1>2, <1>3, <1>4 DEF Next

LEMMA Invariant == Spec => []SInv
<1>1. Init => MInv /\ SInv
  BY MInvInit, SInvInit DEF Init
<1>2. MInv /\ [Next]_vars => MInv'
  BY MigrationsSteps, MInvStep
<1>3. MInv' => MigrationsTypeOK'
  BY DEF MInv
<1>4. MInv /\ SInv /\ [Next]_vars => (MInv /\ SInv)'
  BY <1>2, <1>3, SInvStep
<1> QED BY <1>1, <1>4, PTL DEF Spec

\* The variables of the routes and of the scheduler keep their types.
THEOREM TypeCorrect == Spec => []TypeOK
BY Invariant, SInvImplies, PTL

\* Whatever two accepted documents leave out or disable, they merge to a valid policy; what
\* the API accepted stops the worker's parser if and only if it gave an infinite number.
THEOREM FinitePoliciesAlwaysResolve == Spec => []FinitePoliciesResolve
BY Invariant, SInvImplies, PTL

\* Nothing of one tenant's policy reaches the repeatables of another.
THEOREM PayloadsAlwaysHaveAuthors == Spec => []PayloadsHaveAuthors
BY Invariant, SInvImplies, PTL

\* A start of the worker that no request falls into registers what every policy plans.
THEOREM QuietStartsRegisterPlans == Spec => []QuietStartRegistersPlans
BY Invariant, SInvImplies, PTL

-----------------------------------------------------------------------------
(* What a tenant's policy is made of.                                       *)

\* The policy p of a tenant with the row own, over the default policy base: a setting that
\* has a default is own's, since parsing has filled in what its document left out; one that
\* has none is base's if own leaves it out; a job that own leaves out is base's; one that it
\* has is enabled as own says, and keeps base's cron expression unless own gives another,
\* so that an interval of own's does not take effect.
MadeOfTwo(p, base, own) ==
  /\ \A s \in Setting :
       p.settings[s] = IF DefaultValue[s] # Absent THEN own.settings[s]
                       ELSE Or(own.settings[s], base.settings[s])
  /\ \A j \in JobType :
       /\ own.schedules[j] = Absent => p.schedules[j] = base.schedules[j]
       /\ own.schedules[j] # Absent =>
            /\ p.schedules[j] # Absent
            /\ p.schedules[j].enabled = own.schedules[j].enabled
            /\ base.schedules[j] # Absent /\ own.schedules[j].cron = Absent =>
                 p.schedules[j].cron = base.schedules[j].cron
            /\ own.schedules[j].cron # Absent =>
                 p.schedules[j].cron = own.schedules[j].cron

OwnPolicyWins ==
  \A t \in Tenant : Latest(t) # Absent /\ Resolves(t) => MadeOfTwo(PolicyOf(t), BasePolicy, Latest(t))

LEMMA MergeOfTwo ==
  ASSUME NEW b, NEW o, Good(b), Good(o)
  PROVE  MadeOfTwo(Parse(Merge(b, o)), b, o)
<1>1. /\ b.schedules \in Schedules /\ o.schedules \in Schedules /\ o.schedules # Absent
  BY AbsentAssumption DEF Good, Policies
<1>2. PICK sch : sch = [j \in JobType |-> MergeEntry(b.schedules[j], o.schedules[j])]
  OBVIOUS
<1>3. PICK set : set = [s \in Setting |-> Or(o.settings[s], b.settings[s])]
  OBVIOUS
<1>4. Merge(b, o).schedules = sch /\ Merge(b, o).settings = set
  BY <1>1, <1>2, <1>3 DEF Merge
<1>5. sch # Absent
  BY <1>4, MergeIsValid, AbsentAssumption
<1>6. Parse(Merge(b, o)).schedules = [j \in JobType |-> ParseEntry(sch[j])]
      /\ Parse(Merge(b, o)).settings = Fill(set)
  BY <1>4, <1>5 DEF Parse, ParseSchedules
<1>7. \A s \in Setting :
        Fill(set)[s] = IF DefaultValue[s] # Absent THEN o.settings[s]
                       ELSE Or(o.settings[s], b.settings[s])
  BY <1>3 DEF Fill, Or, Good
<1>8. ASSUME NEW j \in JobType
      PROVE  LET e == ParseEntry(MergeEntry(b.schedules[j], o.schedules[j])) IN
             /\ o.schedules[j] = Absent => e = b.schedules[j]
             /\ o.schedules[j] # Absent =>
                  /\ e # Absent
                  /\ e.enabled = o.schedules[j].enabled
                  /\ b.schedules[j] # Absent /\ o.schedules[j].cron = Absent =>
                       e.cron = b.schedules[j].cron
                  /\ o.schedules[j].cron # Absent => e.cron = o.schedules[j].cron
  <2>1. /\ b.schedules[j] \in Optional(Entry) /\ o.schedules[j] \in Optional(Entry)
        /\ b.schedules[j] # Absent => b.schedules[j].enabled # Absent
        /\ o.schedules[j] # Absent => o.schedules[j].enabled # Absent
    BY <1>1 DEF Schedules, Good
  \* An entry that says whether it is enabled is not changed by parsing.
  <2>2. ASSUME NEW e \in Entry, e.enabled # Absent PROVE ParseEntry(e) = e /\ e # Absent
    BY <2>2, AbsentAssumption DEF ParseEntry, Or, Entry
  <2>3. CASE o.schedules[j] = Absent /\ b.schedules[j] = Absent
    BY <2>3 DEF MergeEntry, ParseEntry, Or
  <2>4. CASE o.schedules[j] = Absent /\ b.schedules[j] # Absent
    <3>1. MergeEntry(b.schedules[j], o.schedules[j]) = b.schedules[j]
      BY <2>4 DEF MergeEntry, Or
    <3> QED BY <2>1, <2>2, <2>4, <3>1 DEF Optional
  <2>5. CASE o.schedules[j] # Absent /\ b.schedules[j] = Absent
    <3>1. MergeEntry(b.schedules[j], o.schedules[j]) = o.schedules[j]
      BY <2>5 DEF MergeEntry, Or
    <3> QED BY <2>1, <2>2, <2>5, <3>1 DEF Optional
  <2>6. CASE o.schedules[j] # Absent /\ b.schedules[j] # Absent
    <3>1. PICK e : e = MergeEntry(b.schedules[j], o.schedules[j])
      OBVIOUS
    <3>2. o.schedules[j] \in Entry /\ b.schedules[j] \in Entry
      BY <2>1, <2>6 DEF Optional
    <3>3. /\ e \in Entry /\ e.enabled = o.schedules[j].enabled
          /\ e.cron = Or(o.schedules[j].cron, b.schedules[j].cron)
      BY <2>1, <2>6, <3>1, <3>2 DEF MergeEntry, Or, Entry, Optional
    <3>4. ParseEntry(e) = e /\ e # Absent
      BY <2>1, <2>2, <2>6, <3>3
    <3> QED BY <2>6, <3>1, <3>3, <3>4 DEF Or
  <2> QED BY <2>3, <2>4, <2>5, <2>6
<1> QED BY <1>2, <1>6, <1>7, <1>8 DEF MadeOfTwo

\* A tenant with a policy of its own gets none of the default policy's settings but those
\* that have no default, whatever its document left out; for the rest the default policy
\* reaches it through the schedules alone, and there its cron expressions stand above the
\* tenant's intervals.
THEOREM OwnPolicyAlwaysWins == Spec => []OwnPolicyWins
<1>1. SInv => OwnPolicyWins
  <2> SUFFICES ASSUME SInv, NEW t \in Tenant, Latest(t) # Absent, Resolves(t)
               PROVE  MadeOfTwo(PolicyOf(t), BasePolicy, Latest(t))
    BY DEF OwnPolicyWins
  <2>1. Good(BasePolicy) /\ Good(Latest(t))
    <3>1. t \in Owner /\ IsFinite(LatestRow(t).given)
      BY ParsedIsFinite DEF SInv, Owner, Resolves
    <3> QED BY <3>1, BaseIsGood, LatestIsGood DEF SInv, Resolves
  <2>2. PolicyOf(t) = Parse(Merge(BasePolicy, Latest(t)))
    BY DEF PolicyOf, Effective
  <2> QED BY <2>1, <2>2, MergeOfTwo
<1> QED BY <1>1, Invariant, PTL
=============================================================================
