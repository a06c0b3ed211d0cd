------------------------------- MODULE Alarms -------------------------------
(* The system monitors (monitor.cc, monitor_manager.cc, monitor_*.cc), whose *)
(* alarms raise the log level, truncate the logs and remove the measurements *)
(* that dataFree has flagged (disk_usage_manager.cc).  EXTENDS SystemLog:    *)
(* an alarm logs, changes the level and flushes in the middle of its step.   *)
EXTENDS SystemLog

CONSTANTS
    MeasurementMax,     \* numberOfMeasurementsMax
    MeasurementKeep,    \* numberOfMeasurementsKeep
    LogKeep,            \* numberOfLogKeep
    MeasurementLimit,   \* bound: measurements
    TickLimit           \* bound: rounds of the monitors

ASSUME AlarmsConstants ==
    /\ {MeasurementMax, MeasurementKeep, LogKeep, MeasurementLimit, TickLimit} \subseteq Nat

VARIABLES
    al,         \* the monitors, the manager, the measurements and the log
    alTicks,
    alRest,     \* history: the level that was configured last without an alarm
    alLowered,  \* history: a level was configured during the alarms that are on
    alBroken    \* history: a removal threw in the last round

alOwn == <<al, alTicks, alRest, alLowered, alBroken>>

alVars == <<alOwn, lgWaiting, lgFailed>>

(***************************************************************************)
(* The directory of the measurements comes before the disk in the list of  *)
(* monitors.  Load, memory, network and uptime have no consequence but the *)
(* log level and behave like the disk without its handlers.                *)
(***************************************************************************)
AlarmMonitors == {"load", "directory", "disk"}

None == -1

Measured == 0..3
Appear == [m \in AlarmMonitors |-> IF m = "directory" THEN MeasurementMax ELSE 2]
Disappear == [m \in AlarmMonitors |-> IF m = "load" THEN 1 ELSE Appear[m]]

AlTypeOK ==
    /\ DOMAIN al = {"on", "counter", "origin", "present", "flagged", "log"}
    /\ al.on \subseteq AlarmMonitors /\ al.counter \in 0..Cardinality(AlarmMonitors)
    /\ al.origin \in {None} \cup Levels
    /\ al.flagged \subseteq al.present /\ al.present \subseteq 1..MeasurementLimit
    /\ LogState(al.log)
    /\ alTicks \in 0..TickLimit
    /\ alRest \in Levels /\ alLowered \in BOOLEAN /\ alBroken \in BOOLEAN

AlInit ==
    /\ al = [on |-> {}, counter |-> 0, origin |-> None, present |-> {}, flagged |-> {},
             log |-> Opened(DefaultSize, Warning)]
    /\ alTicks = 0 /\ alRest = Warning /\ alLowered = FALSE /\ alBroken = FALSE

(***************************************************************************)
(* remove_flagged_measurements goes through the directory in any order;    *)
(* the flagged ones are alike, so the order of their names stands for all. *)
(* A removal that throws ends it: its measurement stays, with or without   *)
(* the file that flags it.                                                 *)
(***************************************************************************)
Trouble == [after : 0..MeasurementLimit, unflags : BOOLEAN]

Oldest(a, n) == {e \in a.flagged : Cardinality({f \in a.flagged : f < e}) < n}

RemoveFlagged(a, t) ==
    LET excess == Oldest(a, Cardinality(a.present) - MeasurementKeep)
        gone == excess \cap Oldest(a, t.after)
        thrown == (excess \cap Oldest(a, t.after + 1)) \ gone
    IN [a EXCEPT !.present = @ \ gone, !.flagged = @ \ (gone \cup IF t.unflags THEN thrown ELSE {})]

LogsTruncate(a) == [a EXCEPT !.log = LogTruncate(@, LogKeep)]

\* slotAlarm logs a warning, raises or restores the level with another one,
\* and ends with an error and a flush of its own.
Says(a, level) == [a EXCEPT !.log = LogEntry(@, level)]

\* Mutant: The alarm is only counted while it is the first.
SlotAlarmUncounted(a, appears) ==
    LET warned == Says(a, Warning)
        counted == [warned EXCEPT !.counter = IF appears THEN @ + 1 ELSE @ - 1]
        levelled == IF appears
                    THEN Says([counted EXCEPT !.origin = counted.log.level, !.log.level = Debug], Warning)
                    ELSE IF counted.counter = 0
                    THEN Says([counted EXCEPT !.log.level = counted.origin], Warning)
                    ELSE counted
    IN [Says(levelled, Error) EXCEPT !.log = Flush(@)]

SlotAlarm(a, appears) ==
    LET warned == Says(a, Warning)
        counted == [warned EXCEPT !.counter = IF appears THEN @ + 1 ELSE @ - 1]
        levelled == IF appears /\ counted.counter = 1
                    THEN Says([counted EXCEPT !.origin = counted.log.level, !.log.level = Debug], Warning)
                    ELSE IF counted.counter = 0 /\ counted.origin # None
                    THEN Says([counted EXCEPT !.log.level = counted.origin], Warning)
                    ELSE counted
    IN [Says(levelled, Error) EXCEPT !.log = Flush(@)]

\* The subscribers of an alarm in the order of their connect.
Emit(a, m, appears, t) ==
    LET told == SlotAlarm(a, appears)
        freed == IF appears /\ m \in {"directory", "disk"} THEN RemoveFlagged(told, t) ELSE told
    IN IF appears /\ m = "disk" THEN LogsTruncate(freed) ELSE freed

\* evaluateAlarms and updateAlarmState, with two thresholds.
Evaluate(a, m, value, t) ==
    IF m \notin a.on /\ value > Appear[m] THEN [Emit(a, m, TRUE, t) EXCEPT !.on = @ \cup {m}]
    ELSE IF m \in a.on /\ value < Disappear[m] THEN [Emit(a, m, FALSE, t) EXCEPT !.on = @ \ {m}]
    ELSE a

\* updateValues of the monitor of the directory
UpdateValue(a) == Cardinality(a.present)

----------------------------------------------------------------------------
AlTick ==
    /\ alTicks < TickLimit /\ alTicks' = alTicks + 1
    /\ \E measured \in [{"load", "disk"} -> {1, 2, 3}], t \in Trouble :
          LET load == Evaluate(al, "load", measured["load"], t)
              directory == Evaluate(load, "directory", UpdateValue(load), t)
          IN /\ al' = Evaluate(directory, "disk", measured["disk"], t)
             /\ alBroken' = (t.after < MeasurementLimit)
    /\ alLowered' = (alLowered /\ al'.on # {})
    /\ UNCHANGED <<alRest, lgWaiting, lgFailed>>

AlMeasure ==
    /\ \E e \in 1..MeasurementLimit \ al.present : al' = [al EXCEPT !.present = @ \cup {e}]
    /\ UNCHANGED <<alTicks, alRest, alLowered, alBroken, lgWaiting, lgFailed>>

\* dataFree
AlFlag ==
    /\ \E e \in al.present \ al.flagged : al' = [al EXCEPT !.flagged = @ \cup {e}]
    /\ UNCHANGED <<alTicks, alRest, alLowered, alBroken, lgWaiting, lgFailed>>

\* A changed configuration sets the level of the log whatever alarm is on.
\* Bound: a change takes the place of a round; the size stays (LgConfigure).
AlConfigure ==
    /\ alTicks < TickLimit /\ alTicks' = alTicks + 1
    /\ \E level \in {Debug, Error} :
          /\ al' = [al EXCEPT !.log = OnLogConfigChanged(@, Size(@), level)]
          /\ IF al.on = {} THEN alRest' = level /\ UNCHANGED alLowered
             ELSE alLowered' = TRUE /\ UNCHANGED alRest
    /\ UNCHANGED <<alBroken, lgWaiting, lgFailed>>

AlNext == AlTick \/ AlMeasure \/ AlFlag \/ AlConfigure

AlSpec == AlInit /\ [][AlNext]_alOwn

----------------------------------------------------------------------------
(* The log level is raised while some alarm is on, until a level is          *)
(* configured, which lowers it at once (log_handler.cc:251-256); and when    *)
(* the last alarm of any monitor has gone it is back at the level from       *)
(* before the first (slotAlarm), so that what was configured during the      *)
(* alarms is undone.  The counter and the monitors never drift apart.        *)
LevelFollowsAlarms ==
    /\ al.counter = Cardinality(al.on)
    /\ al.on = {} => al.log.level = alRest
    /\ al.on # {} /\ ~alLowered => al.log.level = Debug

(* The log over everything that happens to it: its ring, its file, and its   *)
(* level under the alarms, which log themselves.                             *)
LogIsTrue == RingHoldsNewest /\ LoggedOnce /\ LevelFollowsAlarms

(* A round with one or two removals takes flagged measurements only, leaves  *)
(* as many as are to be kept, and stops above that number only when nothing  *)
(* flagged is left or a removal has thrown (remove_flagged_measurements).    *)
RemovesFlaggedOnly ==
    [][LET gone == al.present \ al'.present
       IN gone # {} => /\ gone \subseteq al.flagged
                       /\ Cardinality(al'.present) >= MeasurementKeep
                       /\ Cardinality(al'.present) > MeasurementKeep /\ ~alBroken' => al'.flagged = {}]_alVars
=============================================================================
