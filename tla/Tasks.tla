------------------------------- MODULE Tasks -------------------------------
(***************************************************************************)
(* Commands answered IN_PROGRESS (GCS_MAVLINK_InProgress, GCS_Common.cpp): *)
(* airspeed calibration and formatting the SD card take a while, and       *)
(* check_tasks() tells the node that asked, on its link, how it ends.      *)
(***************************************************************************)
EXTENDS Integers, Sequences

CONSTANTS Askers,     \* nodes, each on its link
          NTasks,     \* in_progress_tasks[1]
          MaxAsks     \* bound: commands received

VARIABLES tasks,    \* the slots
          running,  \* external: calibration and format state
          told      \* history: what each command has been answered

taskVars == <<tasks, running, told>>

Jobs == {"airspeed", "format"}
NoTask == [job |-> "none", ask |-> 0]
TaskSlots == 1..NTasks
Finals == {"ACCEPTED", "FAILED", "TEMPORARILY_REJECTED"}

ASSUME TaskAssumption == NTasks \in Nat \ {0} /\ MaxAsks \in Nat

TasksInit ==
    /\ tasks = [i \in TaskSlots |-> NoTask]
    /\ running = [j \in Jobs |-> "NOT_STARTED"]
    /\ told = <<>>

Busy == {i \in TaskSlots : tasks[i] # NoTask}

Answered(asker, job, result) ==
    told' = Append(told, [asker |-> asker, job |-> job, results |-> <<result>>])

(* get_task() and the handlers of the two commands, with the COMMAND_ACK   *)
(* that handle_command_int() sends: a task of that node for that command   *)
(* is under way, or no slot is left.                                       *)
RejectTask(a, j) ==
    /\ \/ \E i \in Busy : tasks[i].job = j /\ told[tasks[i].ask].asker = a
       \/ Busy = TaskSlots
    /\ Answered(a, j, "TEMPORARILY_REJECTED")
    /\ UNCHANGED <<tasks, running>>

StartTask(a, j) ==
    /\ \A i \in Busy : tasks[i].job # j \/ told[tasks[i].ask].asker # a
    /\ \E i \in TaskSlots \ Busy :
         /\ \A k \in TaskSlots \ Busy : i <= k
         /\ tasks' = [tasks EXCEPT ![i] = [job |-> j, ask |-> Len(told) + 1]]
    /\ running' = [running EXCEPT ![j] = "IN_PROGRESS"]
    /\ Answered(a, j, "IN_PROGRESS")

\* format() refuses: the task is aborted.
AbortTask(a) ==
    /\ \A i \in Busy : tasks[i].job # "format" \/ told[tasks[i].ask].asker # a
    /\ Busy # TaskSlots
    /\ Answered(a, "format", "FAILED")
    /\ UNCHANGED <<tasks, running>>

JobEnds(j) ==
    /\ running[j] = "IN_PROGRESS"
    /\ \E r \in {"SUCCESS", "FAILED"} : running' = [running EXCEPT ![j] = r]
    /\ UNCHANGED <<tasks, told>>

Verdict(j) == CASE running[j] = "SUCCESS" -> "ACCEPTED"
                [] running[j] = "IN_PROGRESS" -> "IN_PROGRESS"
                [] OTHER -> "FAILED"

\* conclude() gives the slot up, if the COMMAND_ACK fits the link.
ConcludedAnyway(i, fits) == Verdict(tasks[i].job) # "IN_PROGRESS"
Concluded(i, fits) == fits /\ Verdict(tasks[i].job) # "IN_PROGRESS"

(* check_tasks(), for the links in `room` that have space.  An answer that *)
(* says IN_PROGRESS again is not kept.                                     *)
CheckTasks(room) ==
    /\ Busy # {}
    /\ LET fits(i) == told[tasks[i].ask].asker \in room IN
       /\ tasks' = [i \in TaskSlots |-> IF i \in Busy /\ Concluded(i, fits(i)) THEN NoTask
                                    ELSE tasks[i]]
       /\ told' = [n \in 1..Len(told) |->
            IF \E i \in Busy : /\ tasks[i].ask = n /\ fits(i)
                               /\ Verdict(tasks[i].job) # "IN_PROGRESS"
            THEN [told[n] EXCEPT !.results = Append(@, Verdict(told[n].job))]
            ELSE told[n]]
    /\ UNCHANGED running

TasksNext ==
    \/ /\ Len(told) < MaxAsks
       /\ \E a \in Askers :
            \/ AbortTask(a)
            \/ \E j \in Jobs : RejectTask(a, j) \/ StartTask(a, j)
    \/ \E j \in Jobs : JobEnds(j)
    \/ \E room \in SUBSET Askers : CheckTasks(room)

TasksSpec == TasksInit /\ [][TasksNext]_taskVars

(* Calibration and format end, update_send() goes on calling check_tasks() *)
(* and every link has room at last.                                        *)
TasksFairness ==
    /\ \A j \in Jobs : WF_taskVars(JobEnds(j))
    /\ WF_taskVars(CheckTasks(Askers))

TasksTypeOK ==
    /\ tasks \in [TaskSlots -> [job : Jobs, ask : 1..Len(told)] \cup {NoTask}]
    /\ running \in [Jobs -> {"NOT_STARTED", "IN_PROGRESS", "SUCCESS", "FAILED"}]

FinalsOf(n) == {k \in 1..Len(told[n].results) : told[n].results[k] \in Finals}

(* A command is told how it ended at most once and nothing after it,       *)
(* however late its link has room: another node's task cannot take its     *)
(* slot meanwhile (conclude(), get_task()).                                *)
EndToldOnce ==
    \A n \in 1..Len(told) : /\ \A k \in FinalsOf(n) : k = Len(told[n].results)
                            /\ Len(told[n].results) <= 2

(* And every command is told so in the end (check_tasks()).                *)
OneFinalAck ==
    /\ []EndToldOnce
    /\ <>[](\A n \in 1..Len(told) : FinalsOf(n) # {})
=============================================================================
