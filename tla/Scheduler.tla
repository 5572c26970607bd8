----------------------------- MODULE Scheduler -------------------------------
(***************************************************************************)
(* Tenants and policies, as the API's routes keep them, and the repeatable *)
(* jobs that the worker registers for them in Redis when it starts.  Both  *)
(* processes start with migrate(), the module Migrations.                  *)
(*                                                                         *)
(* BullMQ is external: adding a repeatable of a name and cadence that      *)
(* exist keeps one of them, with the old payload (its next job may be      *)
(* there already) or the new one; a cron expression that does not parse    *)
(* is refused.                                                             *)
(*                                                                         *)
(* Abstractions.  Tenants are numbers, since they are listed by id; of a   *)
(* tenant's row only `enabled` is kept.  A request of a route is one step, *)
(* as it makes one statement.  One worker.                                 *)
(***************************************************************************)
EXTENDS Policy, Migrations

CONSTANTS Api, Worker,  \* the two processes
          Tenant,       \* ids of tenants
          Default,      \* the tenant name whose policy is the base of all
          Version,      \* memory_policy_version
          Document,     \* the documents that operators post
          MaxChanges    \* bound on the operators' requests

ASSUME ProcAssumption == Proc = {Api, Worker} /\ Api # Worker
ASSUME TenantAssumption == Tenant \subseteq Nat /\ IsFiniteSet(Tenant) /\ Default \notin Tenant
ASSUME VersionAssumption == IsFiniteSet(Version) /\ Version = 1..Cardinality(Version)
ASSUME DocumentAssumption ==
  /\ \A d \in Document : /\ d.schedules \in Optional(Schedules)
                         /\ DOMAIN d.settings = Setting
                         /\ DOMAIN d = {"schedules", "settings"}
  /\ MaxChanges \in Nat
  /\ Absent \notin Written

Owner == Tenant \cup {Default}

VARIABLES
  tenants,      \* Postgres: each tenant's row: none, enabled or disabled
  policies,     \* Postgres: each owner's document by version; as history, the one given
  repeatables,  \* Redis: the registered repeatables
  sched,        \* the worker's local variables in and after applySchedules
  changes,      \* requests so far
  quiet,        \* history: no request since the worker listed the tenants
  posted        \* history: the documents that were given for each owner

schedulerVars == <<tenants, policies, repeatables, sched, changes, quiet, posted>>
vars == <<migrationVars, schedulerVars>>

Off == [pc |-> "off", todo |-> {}, base |-> Absent, plan |-> {}]

Init ==
  /\ MigrationsInit
  /\ tenants = [t \in Tenant |-> "none"]
  /\ policies = [o \in Owner |-> [v \in Version |-> Absent]]
  /\ repeatables = {}
  /\ sched = Off
  /\ changes = 0
  /\ quiet = FALSE
  /\ posted = {}

-----------------------------------------------------------------------------
(* The routes.                                                              *)

Request ==
  /\ boot[Api].pc = "up"
  /\ changes < MaxChanges
  /\ changes' = changes + 1
  /\ quiet' = FALSE
  /\ UNCHANGED <<migrationVars, repeatables, sched>>

\* POST /v1/tenants inserts the row or replaces it: `enabled` left out enables.
UpsertTenant(t, enabled) ==
  /\ Request
  /\ tenants' = [tenants EXCEPT ![t] = IF Or(enabled, TRUE) THEN "enabled" ELSE "disabled"]
  /\ UNCHANGED <<policies, posted>>

\* POST /v1/tenants/:id/enable and /disable: the id need not exist.
SetTenantEnabled(t, enabled) ==
  /\ Request
  /\ tenants[t] # "none"
  /\ tenants' = [tenants EXCEPT ![t] = IF enabled THEN "enabled" ELSE "disabled"]
  /\ UNCHANGED <<policies, posted>>

\* What is stored is the parsed document, with every default filled in, as JSON; a version
\* that exists is overwritten.
InsertPolicy(o, v, d) ==
  policies' = [policies EXCEPT ![o][v] = [given |-> d, document |-> ToJson(Parse(d))]]

\* Mutant: the document is stored without validation.
PostUnvalidated(o, v, d) ==
  /\ Request
  /\ InsertPolicy(o, v, d)
  /\ posted' = posted \cup {<<o, d>>}
  /\ UNCHANGED tenants

\* POST /v1/policies
PostPolicy(o, v, d) ==
  /\ IsValid(d)
  /\ Request
  /\ InsertPolicy(o, v, d)
  /\ posted' = posted \cup {<<o, d>>}
  /\ UNCHANGED tenants

Routes ==
  \/ \E t \in Tenant, enabled \in Optional(BOOLEAN) : UpsertTenant(t, enabled)
  \/ \E t \in Tenant, enabled \in BOOLEAN : SetTenantEnabled(t, enabled)
  \/ \E o \in Owner, v \in Version, d \in Document : PostPolicy(o, v, d)

-----------------------------------------------------------------------------
(* The worker.                                                              *)

\* Mutant: the query lacks WHERE tenant = $1.
AnyRow(o) ==
  LET stored == {x \in Owner \X Version : policies[x[1]][x[2]] # Absent} IN
  IF stored = {} THEN Absent
  ELSE LET last == CHOOSE x \in stored : \A y \in stored : y[2] <= x[2] IN
       policies[last[1]][last[2]]

\* getLatestPolicy
LatestRow(o) ==
  LET stored == {v \in Version : policies[o][v] # Absent} IN
  IF stored = {} THEN Absent ELSE policies[o][CHOOSE v \in stored : \A u \in stored : u <= v]

Latest(o) == IF LatestRow(o) = Absent THEN Absent ELSE LatestRow(o).document
BaseDocument == Or(Latest(Default), Minimal)
BasePolicy == Parse(BaseDocument)

Enabled == {t \in Tenant : tenants[t] = "enabled"}

\* The top of the loop over tenants.
Loop(todo) == [Off EXCEPT !.pc = IF todo = {} THEN "running" ELSE "default", !.todo = todo]

\* main() creates the workers, and applySchedules lists the enabled tenants.
ListTenants ==
  /\ boot[Worker].pc = "up" /\ sched.pc = "off"
  /\ sched' = Loop(Enabled)
  /\ quiet' = TRUE
  /\ UNCHANGED <<migrationVars, tenants, policies, repeatables, changes, posted>>

\* A throw in applySchedules rejects main(), which ends the process.
Abort == sched' = Off /\ Boot(Worker, Down) /\ UNCHANGED <<schema, ids, crashes, applied>>

\* resolvePolicyForTenant reads the default policy and parses what it has read ...
ReadDefault ==
  /\ sched.pc = "default"
  /\ IF ~IsValid(BaseDocument)
     THEN Abort
     ELSE /\ sched' = [sched EXCEPT !.pc = "tenant", !.base = BasePolicy]
          /\ UNCHANGED migrationVars
  /\ UNCHANGED <<tenants, policies, repeatables, changes, quiet, posted>>

\* ... and, in a statement of its own, the tenant's; then the plan is made.
ReadTenant ==
  LET over   == Latest(First(sched.todo))
      policy == Effective(sched.base, over) IN
  /\ sched.pc = "tenant"
  /\ IF (over # Absent /\ ~IsValid(Merge(sched.base, over))) \/ PlanThrows(policy)
     THEN Abort
     ELSE /\ sched' = [sched EXCEPT !.pc = "adding", !.plan = PlanRepeatables(policy)]
          /\ UNCHANGED migrationVars
  /\ UNCHANGED <<tenants, policies, repeatables, changes, quiet, posted>>

\* The repeatables of the name (tenant and job type) and cadence of s.
Alike(t, s) == {r \in repeatables : r.tenant = t /\ r.job = s.job /\ r.repeat = s.repeat}

Upsert(t, s) ==
  \E params \in {s.params} \cup {r.params : r \in Alike(t, s)} :
    repeatables' = (repeatables \ Alike(t, s)) \cup
      {[tenant |-> t, job |-> s.job, repeat |-> s.repeat, params |-> params]}

\* queue.add of the next repeatable of the plan.
AddRepeatable ==
  \E spec \in sched.plan :
  /\ sched.pc = "adding"
  /\ \A other \in sched.plan : spec.job <= other.job
  /\ IF spec.repeat = <<"cron", Bad>>
     THEN Abort /\ UNCHANGED repeatables
     ELSE /\ Upsert(First(sched.todo), spec)
          /\ sched' = [sched EXCEPT !.plan = @ \ {spec}]
          /\ UNCHANGED migrationVars
  /\ UNCHANGED <<tenants, policies, changes, quiet, posted>>

\* Mutant: the loop ends with the first tenant.
FirstTenantOnly ==
  /\ sched.pc = "adding" /\ sched.plan = {}
  /\ sched' = Loop({})
  /\ UNCHANGED <<migrationVars, tenants, policies, repeatables, changes, quiet, posted>>

\* The plan is registered: on to the next tenant.
NextTenant ==
  /\ sched.pc = "adding" /\ sched.plan = {}
  /\ sched' = Loop(sched.todo \ {First(sched.todo)})
  /\ UNCHANGED <<migrationVars, tenants, policies, repeatables, changes, quiet, posted>>

ApplySchedules == ListTenants \/ ReadDefault \/ ReadTenant \/ AddRepeatable \/ NextTenant

-----------------------------------------------------------------------------

\* A worker whose process ends leaves applySchedules.
Leaving ==
  /\ sched' = IF boot'[Worker].pc = "up" THEN sched ELSE Off
  /\ UNCHANGED <<tenants, policies, repeatables, changes, quiet, posted>>

Starting(p) == Migrate(p) /\ Leaving
Failing(p) == (CommitLost(p) \/ Crash(p)) /\ Leaving

Next == Routes \/ ApplySchedules \/ \E p \in Proc : Starting(p) \/ Failing(p)

Spec == Init /\ [][Next]_vars

\* Started processes take their steps, ended ones are started again; nobody has to post.
BootSpec == Spec /\ \A p \in Proc : WF_vars(Starting(p))

\* ... and the worker goes on once it is up.
FairSpec == BootSpec /\ WF_vars(ApplySchedules)

-----------------------------------------------------------------------------
(* Properties.                                                              *)

Repeatable == [tenant : Tenant, job : JobType, repeat : {"cron", "every"} \X Cadence,
               params : UNION {[Params[j] -> Optional(Value)] : j \in JobType}]

\* The types of what the routes and the worker keep; the base that tenants' policies are
\* merged onto is complete, as merge.ts requires.
TypeOK ==
  /\ MigrationsTypeOK
  /\ tenants \in [Tenant -> {"none", "enabled", "disabled"}]
  /\ policies \in [Owner -> [Version -> Optional([given : Document, document : Written])]]
  /\ repeatables \subseteq Repeatable
  /\ sched.pc \in {"off", "default", "tenant", "adding", "running"}
  /\ sched.todo \subseteq Tenant
  /\ sched.base \in Optional(WholePolicies)
  /\ changes \in 0..MaxChanges
  /\ quiet \in BOOLEAN
  /\ posted \subseteq Owner \X Document

PolicyOf(t) == Effective(BasePolicy, Latest(t))

\* The repeatables that a tenant's policy asks for, by cadence.
Intended(t) == {[tenant |-> t, job |-> j, repeat |-> Repeat(PolicyOf(t).schedules[j])] :
                j \in {k \in JobType : IsPlanned(PolicyOf(t), k)}}
Registered == {[tenant |-> r.tenant, job |-> r.job, repeat |-> r.repeat] : r \in repeatables}

\* A start that no request falls into leaves every enabled tenant with every repeatable
\* that its policy, merged from the latest two rows, asks for.
QuietStartRegistersPlans ==
  sched.pc = "running" /\ quiet => \A t \in Enabled : Intended(t) \subseteq Registered

\* Reading back what the API accepted, for a tenant and for all, stops the worker in its
\* parser if and only if one of the two documents, each valid, gave an infinite number:
\* a document that leaves out or disables whatever it likes merges with every other.
Resolves(t) ==
  /\ IsValid(BaseDocument)
  /\ Latest(t) # Absent => IsValid(Merge(BasePolicy, Latest(t)))
IsFinite(d) == \A s \in Setting : d.settings[s] \notin Infinite
FinitePoliciesResolve ==
  \A t \in Tenant :
    Resolves(t) <=> \A o \in {t, Default} : LatestRow(o) # Absent => IsFinite(LatestRow(o).given)

GivenFor(t) == {d \in Document : \E o \in {t, Default} : <<o, d>> \in posted}
Offers(schedules, j) == IF schedules = Absent THEN {}
                        ELSE IF schedules[j] = Absent THEN {}
                        ELSE {<<"cron", schedules[j].cron>>, <<"every", schedules[j].every>>}

\* Whatever a repeatable was made of, its cadence and each setting frozen in its
\* payload, is a default or was given for its own tenant or for all: nothing of one
\* tenant's policy reaches another's, whatever changes while the worker starts.
PayloadsHaveAuthors ==
  \A r \in repeatables :
    /\ r.repeat \in Offers(DefaultSchedules, r.job)
                     \cup UNION {Offers(d.schedules, r.job) : d \in GivenFor(r.tenant)}
    /\ \A s \in Params[r.job] :
         r.params[s] \in {DefaultValue[s]} \cup {d.settings[s] : d \in GivenFor(r.tenant)}

\* As the documents have it: a tenant's policy is a sparse override, and a setting it
\* does not give is the default policy's.
OverrideIsSparse ==
  \A t \in Tenant : LatestRow(t) # Absent =>
    \A s \in Setting :
      LatestRow(t).given.settings[s] = Absent =>
        PolicyOf(t).settings[s] = BasePolicy.settings[s]

\* As the documents have it: a change of its policy re-syncs the repeatables of a
\* tenant that had them.  (Requests are bounded, so that changes come to an end.)
InSync(t) == {r \in Registered : r.tenant = t} = Intended(t)
ChangesResync ==
  \A t \in Tenant : [](t \in Enabled /\ Intended(t) # {} /\ InSync(t)
                        => <>[](t \in Enabled => InSync(t)))
=============================================================================
