---------------------------- MODULE MCScheduler -------------------------------
(* Instances of Scheduler for TLC.  Job type 1 is a sweep, 2 the contradiction scan;
   "auto" stands for contradictions.auto_resolve, which the scan's payload freezes, and
   "detect" for contradictions.detect, which enables it, "weight" for a number without
   bounds as priorities.scoring.staleness, and "low_priority" for models.low_priority, which
   has no default.  The documents are named for what an operator means by them. *)
EXTENDS Scheduler

CONSTANTS One, Infinity, LocalModel, Illegal   \* Illegal is a value that the schema refuses

MCSetting == {"detect", "auto", "weight", "low_priority"}
MCLegal == [s \in MCSetting |-> CASE s = "weight" -> {One, Infinity}
                               [] s = "low_priority" -> {LocalModel}
                               [] OTHER -> BOOLEAN]
MCDefaultValue == [detect |-> TRUE, auto |-> FALSE, weight |-> One, low_priority |-> Absent]
MCInfinite == {Infinity}
MCGate == <<Absent, "detect">>
MCParams == <<{}, {"auto"}>>

None == [enabled |-> Absent, cron |-> Absent, every |-> Absent]
MCDefaultSchedules == <<[None EXCEPT !.enabled = TRUE, !.cron = "hourly"],
                        [None EXCEPT !.enabled = FALSE]>>

With(d, s, x) == [d EXCEPT !.settings[s] = x]
Nothing == Minimal
AutoResolve == [With(Minimal, "auto", TRUE) EXCEPT !.schedules = <<Absent, [None EXCEPT !.every = "2h"]>>]
NoDetect == [With(Minimal, "detect", FALSE) EXCEPT !.schedules = AutoResolve.schedules]
Local == With(Minimal, "low_priority", LocalModel)
Every == [Minimal EXCEPT !.schedules = <<[None EXCEPT !.cron = "", !.every = "2h"], Absent>>]
Typo == [Minimal EXCEPT !.schedules = <<[None EXCEPT !.every = "typo", !.cron = ""], Absent>>]
CronTypo == [Minimal EXCEPT !.schedules = <<Absent, [None EXCEPT !.cron = "typo"]>>]
NoCadence == [Minimal EXCEPT !.schedules = <<Absent, [None EXCEPT !.enabled = TRUE]>>]
BadValue == With(Minimal, "detect", Illegal)
TooHeavy == With(Minimal, "weight", Infinity)

MCDocument == {AutoResolve, Typo, CronTypo, NoCadence, BadValue, TooHeavy}
GoodDocument == {Nothing, AutoResolve, NoDetect, Local, Every}
=============================================================================
