---------------------------- MODULE MC_Services ----------------------------
(***************************************************************************)
(* The services of a link, for TLC.  What a step of one does is decided by *)
(* that service's state alone, so a behaviour is one of one of them, the   *)
(* others at rest: `part` says which.  (The mission items, and what keeps  *)
(* keys, have runs of their own.)                                          *)
(***************************************************************************)
EXTENDS Ftp, ParamQueue, Routing, Streams, Tasks, Texts, PkBuffer, Passthru

CONSTANTS Parts   \* the parts a run looks at

VARIABLES part

vars == <<part, ftpVars, paramVars, routingVars, streamVars, taskVars, textVars,
          pkVars, passVars>>

Init ==
    /\ part \in Parts
    /\ FtpInit /\ ParamInit /\ RoutingInit /\ StreamInit /\ TasksInit /\ TextsInit
    /\ PkInit /\ PassInit
    \* the parts at rest in one state each
    /\ exists = IF part = "ftp" THEN Files \ FiveFiles ELSE {}
    /\ \A p \in Params : value[p] \/ (p = Enable /\ part = "params")
    /\ part # "pk" => /\ \A n \in PkLens : pkLen <= n
                      /\ \A n \in Mtus : mtu <= n

\* A step of one part only.
FtpOnly == part = "ftp" /\ UNCHANGED <<part, paramVars, routingVars, streamVars, taskVars,
                                   textVars, pkVars, passVars>>
ParamOnly == part = "params" /\ UNCHANGED <<part, ftpVars, routingVars, streamVars, taskVars,
                                        textVars, pkVars, passVars>>
RouterOnly == part = "routing" /\ UNCHANGED <<part, ftpVars, paramVars, streamVars, taskVars,
                                          textVars, pkVars, passVars>>
StreamOnly == part = "streams" /\ UNCHANGED <<part, ftpVars, paramVars, routingVars, taskVars,
                                          textVars, pkVars, passVars>>
TaskOnly == part = "tasks" /\ UNCHANGED <<part, ftpVars, paramVars, routingVars, streamVars,
                                      textVars, pkVars, passVars>>
TextOnly == part = "texts" /\ UNCHANGED <<part, ftpVars, paramVars, routingVars, streamVars,
                                      taskVars, pkVars, passVars>>
PkOnly == part = "pk" /\ UNCHANGED <<part, ftpVars, paramVars, routingVars, streamVars,
                                 taskVars, textVars, passVars>>
PassOnly == part = "passthru" /\ UNCHANGED <<part, ftpVars, paramVars, routingVars,
                                         streamVars, taskVars, textVars, pkVars>>

Next ==
    \/ FtpOnly /\ FtpNext
    \/ ParamOnly /\ ParamNext
    \/ RouterOnly /\ RoutingNext
    \/ StreamOnly /\ StreamNext
    \/ TaskOnly /\ TasksNext
    \/ TextOnly /\ TextsNext
    \/ PkOnly /\ PkNext
    \/ PassOnly /\ PassNext

(* Each part's fairness: the services wait for no one, and the steps of a  *)
(* part at rest are not asked for.                                         *)
Fairness ==
    /\ WF_vars(FtpOnly /\ Work) /\ WF_vars(FtpOnly /\ KillDead) /\ WF_vars(FtpOnly /\ FtpTick)
    /\ WF_vars(StreamOnly /\ SendOne) /\ WF_vars(StreamOnly /\ StreamTick)
    /\ \A j \in Jobs : WF_vars(TaskOnly /\ JobEnds(j))
    /\ WF_vars(TaskOnly /\ CheckTasks(Askers))

Spec == Init /\ [][Next]_vars /\ Fairness

(* Every variable of the eight parts holds a value of its kind, whatever   *)
(* the links send them: ids within the tables, clocks and ages within      *)
(* their limits, queues no longer than theirs.                             *)
ServicesTypeOK ==
    /\ FtpTypeOK /\ ParamTypeOK /\ RoutingTypeOK /\ StreamTypeOK
    /\ TasksTypeOK /\ TextsTypeOK /\ PkTypeOK /\ PassTypeOK

\* Values for the constants.
McNodes == {[sys |-> 1, comp |-> 0], [sys |-> 1, comp |-> 1], [sys |-> 1, comp |-> 2],
            [sys |-> 2, comp |-> 1], [sys |-> 255, comp |-> 3]}
McStreamed == <<<<"a", "b", "c">>>>
McSpecial == <<"heartbeat", "param">>
McFileLines == <<[id |-> "b", interval |-> 2], [id |-> "c", interval |-> 3]>>
=============================================================================
