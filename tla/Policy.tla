------------------------------- MODULE Policy --------------------------------
(***************************************************************************)
(* The policy engine: what parsing makes of a document, how a tenant's     *)
(* document is merged onto the default one, and which repeatable jobs a    *)
(* policy plans.  Pure operators, without state.                           *)
(*                                                                         *)
(* Abstractions.  The settings outside `schedules` are a set of paths with *)
(* their legal values; nesting plays no part in a merge that goes down to  *)
(* every leaf (a list, and a reference to a model, is one).  Cadences are  *)
(* values that are understood, do not parse (Bad), or are the empty string *)
(* (Blank), which JavaScript takes for none.                               *)
(***************************************************************************)
EXTENDS Naturals

CONSTANTS JobType,           \* the job types, numbered in the order they are planned
          Setting,           \* the paths of the other settings
          Legal,             \* for each of them the values its schema allows
          DefaultValue,      \* ... and its default, or Absent
          Infinite,          \* the legal values that are an infinite number, or hold one
          DefaultSchedules,  \* the entries of a document without `schedules`
          Gate,              \* for each job type the setting that enables it, or Absent
          Params,            \* ... and the settings that go into its payload
          Cadence, Blank, Bad,
          Absent, Null       \* undefined and null

Optional(S) == S \cup {Absent}
Value == UNION {Legal[s] : s \in Setting}

Entry == [enabled : Optional(BOOLEAN), cron : Optional(Cadence), every : Optional(Cadence)]
Schedules == [JobType -> Optional(Entry)]
Policies == [schedules : Schedules, settings : [Setting -> Optional(Value)]]

\* Complete policies: they lack no setting that has a default.
WholePolicies ==
  {p \in Policies : \A s \in Setting : p.settings[s] = Absent => DefaultValue[s] = Absent}

\* x ?? y
Or(x, y) == IF x = Absent THEN y ELSE x

-----------------------------------------------------------------------------
(* Parsing.                                                                 *)

\* A schedule entry needs a cadence unless it is disabled.
EntryIsValid(e) == e.enabled # FALSE => e.cron # Absent \/ e.every # Absent
ParseEntry(e) == IF e = Absent THEN Absent ELSE [e EXCEPT !.enabled = Or(@, TRUE)]

\* A document that gives any schedules gives all it has: the default ones are not
\* added to them.
ParseSchedules(s) == IF s = Absent THEN DefaultSchedules
                     ELSE [j \in JobType |-> ParseEntry(s[j])]
SchedulesAreValid(s) == s # Absent => \A j \in JobType : s[j] # Absent => EntryIsValid(s[j])

\* Mutant: the defaults are left out.
FillNothing(settings) == settings

\* Every section has a default, and every setting in it but two optional models.
Fill(settings) == [s \in Setting |-> Or(settings[s], DefaultValue[s])]
SettingsAreLegal(settings) == \A s \in Setting : settings[s] \in Optional(Legal[s])

IsValid(d) == SchedulesAreValid(d.schedules) /\ SettingsAreLegal(d.settings)
Parse(d) == [schedules |-> ParseSchedules(d.schedules), settings |-> Fill(d.settings)]

\* { tenant, memory_policy_version }
Minimal == [schedules |-> Absent, settings |-> [s \in Setting |-> Absent]]

\* JSON.stringify and jsonb: a number that is infinite, which z.number() accepts where
\* it is not bounded, is written as null.
ToJson(p) == [schedules |-> p.schedules,
              settings  |-> [s \in Setting |-> IF p.settings[s] \in Infinite THEN Null
                                               ELSE p.settings[s]]]

\* What a row of `policies` may hold.
Written == [schedules : Schedules, settings : [Setting -> Optional(Value) \cup {Null}]]

ASSUME AbsentAssumption ==
  /\ Absent \notin BOOLEAN /\ Absent \notin Cadence /\ Absent \notin Value
  /\ Absent \notin Entry /\ Absent \notin Schedules
  /\ {Blank, Bad} \subseteq Cadence
ASSUME DefaultsAssumption ==
  /\ DefaultSchedules \in Schedules /\ SchedulesAreValid(DefaultSchedules)
  /\ \A j \in JobType : DefaultSchedules[j] = Absent \/ DefaultSchedules[j].enabled # Absent
  /\ DefaultValue \in [Setting -> Optional(Value)]
  /\ \A s \in Setting : DefaultValue[s] \in Optional(Legal[s]) \ Infinite
ASSUME JsonAssumption == Infinite \subseteq Value /\ Null \notin Optional(Value)
ASSUME JobAssumption ==
  /\ JobType \subseteq Nat
  /\ Gate \in [JobType -> Optional(Setting)]
  /\ Params \in [JobType -> SUBSET Setting]

-----------------------------------------------------------------------------
(* Merging.                                                                 *)

MergeEntry(base, over) ==
  IF Absent \in {base, over} THEN Or(over, base)
  ELSE [enabled |-> Or(over.enabled, base.enabled),
        cron    |-> Or(over.cron, base.cron),
        every   |-> Or(over.every, base.every)]

\* deepMerge of a document onto a policy.
Merge(base, over) ==
  [schedules |-> IF over.schedules = Absent THEN base.schedules
                 ELSE [j \in JobType |-> MergeEntry(base.schedules[j], over.schedules[j])],
   settings  |-> [s \in Setting |-> Or(over.settings[s], base.settings[s])]]

\* The merged document is validated, and throws unless IsValid(Merge(base, over)).
Effective(base, over) == IF over = Absent THEN base ELSE Parse(Merge(base, over))

-----------------------------------------------------------------------------
(* Planning.                                                                *)

\* A cron expression goes before an interval.
Repeat(e) == IF e.cron \notin {Absent, Blank} THEN <<"cron", e.cron>>
             ELSE IF e.every \notin {Absent, Blank} THEN <<"every", e.every>>
             ELSE Absent

IsActive(e) == e # Absent /\ e.enabled # FALSE

\* The settings that enable the two scans, beside their schedule entries.
GateOpen(p, j) == Gate[j] = Absent \/ p.settings[Gate[j]] = TRUE

\* The payload is made of the policy's settings as they are now.
JobParams(p, j) == [s \in Params[j] |-> p.settings[s]]

IsPlanned(p, j) ==
  /\ IsActive(p.schedules[j])
  /\ GateOpen(p, j)
  /\ Repeat(p.schedules[j]) # Absent

\* planRepeatables throws, and plans nothing, if an interval does not parse.
PlanThrows(p) == \E j \in JobType : IsPlanned(p, j) /\ Repeat(p.schedules[j]) = <<"every", Bad>>

PlanRepeatables(p) ==
  {[job |-> j, repeat |-> Repeat(p.schedules[j]), params |-> JobParams(p, j)] :
   j \in {k \in JobType : IsPlanned(p, k)}}
=============================================================================
