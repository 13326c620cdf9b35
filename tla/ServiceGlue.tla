---------------------------- MODULE ServiceGlue ----------------------------
(***************************************************************************)
(* service/service_glue.cpp: the four timers of the persistent library     *)
(* under thread_persistent (framework/CF_framework_module.h), and what     *)
(* flush, train, reload and rollover of ContentBased call when their turn  *)
(* comes.                                                                  *)
(*                                                                         *)
(* The unit of time is a tick; an hour has Hour ticks and a day Day.  The  *)
(* defaults are flush and reload at the end of the day, train and rollover *)
(* once an hour.  next(t) of a ChronoExpr is the first such moment after t.*)
(***************************************************************************)
EXTENDS Integers

CONSTANTS Hour, Day,    \* in ticks
          FlushAt, ReloadAt,       \* flush_timer and reload_timer in the day
          TrainAt, RolloverAt,     \* train_timer and rollover_timer in the hour
          Interval,     \* md_persistent_interval
          MaxGap,       \* a poll comes, and its work is done, this soon after the last
          MaxNow,       \* bound
          MaxRestarts,  \* bound
          MaxFailures     \* bound on failing operations

ASSUME TimersAssumption ==
  /\ Hour \in Nat \ {0} /\ Day \in Nat \ {0}
  /\ FlushAt \in 0..(Day - 1) /\ ReloadAt \in 0..(Day - 1)
  /\ TrainAt \in 0..(Hour - 1) /\ RolloverAt \in 0..(Hour - 1)
  /\ Interval \in Nat /\ MaxGap \in Nat
  /\ MaxNow \in Nat /\ MaxRestarts \in Nat /\ MaxFailures \in Nat

VARIABLES
  now,
  next,      \* next_flush_time_, next_train_time_, ...
  saved,     \* save_time_stamp
  flag,      \* the time stamp in md_persistent_flag, or NoStamp
  due,       \* the operations persistent_library still has to look at
  ctime,     \* its time(NULL)
  last,      \* history: when each part was last worked on
  started,   \* history: when this process started
  polled,    \* history: when thread_persistent last woke up
  restarts, failures

timersVars == <<now, next, saved, flag, due, ctime, last, started, polled, restarts, failures>>

NoStamp == 0 - Interval - 1
Timers == {"flush", "train", "reload", "rollover"}
Parts == {"user table", "item table", "news trends", "user interests",
          "long-term interests", "news log", "interests log"}

Period(x) == IF x \in {"flush", "reload"} THEN Day ELSE Hour
Offset(x) == CASE x = "flush" -> FlushAt [] x = "reload" -> ReloadAt
               [] x = "train" -> TrainAt [] x = "rollover" -> RolloverAt

(* ChronoExpr::next *)
chronoNext(x, t) ==
  CHOOSE n \in (t + 1)..(t + Period(x)) : n % Period(x) = Offset(x) % Period(x)

TimersInit == /\ now = 0
              /\ next = [x \in Timers |-> chronoNext(x, 0)]
              /\ saved = 0 - Interval /\ flag = 0 - Interval
              /\ due = "sleep" /\ ctime = 0
              /\ last = [p \in Parts |-> 0]
              /\ started = 0 /\ polled = 0
              /\ restarts = 0 /\ failures = 0

Tick == /\ now < MaxNow
        /\ now - polled < MaxGap
        /\ now' = now + 1
        /\ UNCHANGED <<next, saved, flag, due, ctime, last, started, polled,
                       restarts, failures>>

(* thread_persistent wakes up; persistent_library is called unless the last
   call is too recent.  The time stamp is unsigned: one in the future is long
   ago. *)
poll == /\ due = "sleep"
        /\ polled # now
        /\ polled' = now
        /\ IF saved <= now /\ now - saved < Interval
             THEN UNCHANGED <<due, ctime>>
             ELSE due' = "flush" /\ ctime' = now
        /\ UNCHANGED <<now, next, saved, flag, last, started, restarts, failures>>

Worked(parts) == last' = [p \in Parts |-> IF p \in parts THEN now ELSE last[p]]
After(x) == CASE x = "flush" -> "train" [] x = "train" -> "reload"
              [] x = "reload" -> "rollover" [] x = "rollover" -> "done"

notDue == /\ due \in Timers
          /\ ~(next[due] < ctime)
          /\ due' = After(due)
          /\ UNCHANGED <<now, next, saved, flag, ctime, last, started, polled,
                         restarts, failures>>

Turn(x) == /\ due = x
           /\ next[x] < ctime
           /\ due' = After(x)
           /\ UNCHANGED <<now, saved, flag, ctime, started, polled, restarts>>

(* ContentBased::flush: the item table is only reached when flushing the user
   table fails *)
flush == /\ Turn("flush")
         /\ \/ Worked({"user table"}) /\ UNCHANGED failures
            \/ /\ failures < MaxFailures
               /\ failures' = failures + 1
               /\ Worked({"item table"})
         /\ next' = [next EXCEPT !["flush"] = chronoNext("flush", next["flush"])]

(* the next training is counted from the next flush *)
train == /\ Turn("train")
         /\ Worked({"news trends", "user interests"})
         /\ next' = [next EXCEPT !["train"] = chronoNext("train", next["flush"])]
         /\ UNCHANGED failures

(* mutant: the next moment is counted in hours *)
reloadPlusHour == /\ Turn("reload")
                  /\ Worked({"long-term interests"})
                  /\ next' = [next EXCEPT !["reload"] = @ + Hour]
                  /\ UNCHANGED failures

reload == /\ Turn("reload")
          /\ Worked({"long-term interests"})
          /\ next' = [next EXCEPT !["reload"] = chronoNext("reload", next["reload"])]
          /\ UNCHANGED failures

(* mutant: one hour's rollover is lost *)
rolloverEveryOther ==
  /\ Turn("rollover")
  /\ Worked({"news log", "interests log"})
  /\ next' = [next EXCEPT !["rollover"] =
                 chronoNext("rollover", chronoNext("rollover", next["rollover"]))]
  /\ UNCHANGED failures

rollover == /\ Turn("rollover")
            /\ Worked({"news log", "interests log"})
            /\ next' = [next EXCEPT !["rollover"] = chronoNext("rollover", next["rollover"])]
            /\ UNCHANGED failures

(* fopen(md_persistent_flag, "w") empties the file, or fails *)
openFlag == /\ due = "done"
            /\ saved' = ctime
            /\ \/ due' = "flag" /\ flag' = NoStamp
               \/ due' = "sleep" /\ UNCHANGED flag
            /\ ctime' = 0
            /\ UNCHANGED <<now, next, last, started, polled, restarts, failures>>

writeFlag == /\ due = "flag"
             /\ flag' = saved
             /\ due' = "sleep"
             /\ UNCHANGED <<now, next, saved, ctime, last, started, polled, restarts,
                            failures>>

(* LOG(FATAL) ends the process when an operation fails; so may anything else.
   The next process computes its timers anew and reads the flag file; from an
   empty one it takes what its buffer happens to hold: a time long past, the
   present or the future. *)
Restart == /\ restarts < MaxRestarts
           /\ restarts' = restarts + 1
           /\ next' = [x \in Timers |-> chronoNext(x, now)]
           /\ IF flag = NoStamp THEN saved' \in {0 - Interval, now, MaxNow} ELSE saved' = flag
           /\ due' = "sleep" /\ ctime' = 0
           /\ started' = now /\ polled' = now
           /\ UNCHANGED <<now, flag, last, failures>>

TimersNext == \/ Tick \/ poll \/ notDue \/ flush \/ train \/ reload \/ rollover
              \/ openFlag \/ writeFlag \/ Restart

TimersSpec == TimersInit /\ [][TimersNext]_timersVars

-----------------------------------------------------------------------------
TimersTypeOK == /\ now \in 0..MaxNow /\ polled \in 0..now /\ started \in 0..now
                /\ next \in [Timers -> Nat \ {0}]
                /\ \A x \in Timers : next[x] % Period(x) = Offset(x)
                /\ saved \in -Interval..MaxNow /\ flag \in NoStamp..now
                /\ due \in Timers \cup {"sleep", "done", "flag"}
                /\ ctime \in 0..now
                /\ last \in [Parts -> 0..now]

(* How late the work of a moment can be: the poll that finds it is the first to
   come Interval after the last one that worked, which it does within MaxGap,
   and has MaxGap to do its work. *)
Slack == Interval + 2 * MaxGap

Since(p) == now - (IF last[p] > started THEN last[p] ELSE started)

(* A running process never leaves its logs unrolled for more than an hour
   ("default: 30/hour", model_options.h:38-39), its long-term interests unread
   or, if no flush has failed, its user table unflushed for more than a day,
   but for the polls' delay: however they fall, whatever work a call is still
   busy with, and whatever a process that died left in the flag file.  next()
   counts from the moment that was due (lines 112, 130 and 139), so a late call
   makes the following ones neither late nor lost.  Two parts keep no schedule.
   The trends and the current interests, due hourly (model_options.h:36-37), are
   trained once a day, since line 121 counts from the next flush; the item table
   is only flushed after the user table's flush has failed. *)
KeepsSchedule ==
  /\ \A p \in {"news log", "interests log"} : Since(p) <= Hour + Slack
  /\ Since("long-term interests") <= Day + Slack
  /\ failures = 0 => Since("user table") <= Day + Slack
=============================================================================
