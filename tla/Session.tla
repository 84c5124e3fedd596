------------------------------- MODULE Session -------------------------------
(***************************************************************************)
(* A running topology as gbuilder, gserver and gloader share it.  The      *)
(* window sends init, start and stop; the server starts a gloader process  *)
(* for each, and its task manager thread lists the screens of the devices  *)
(* every second, from which a timer of the server reports each device to   *)
(* the window.  The window learns that a topology has stopped from the     *)
(* empty status that follows the last dead device.                         *)
(*                                                                         *)
(* A slot or handler of the Qt event loops is one step; the task manager   *)
(* thread and the gloader processes run beside them.  The server may die   *)
(* and be started again; its gloader processes live on.                    *)
(***************************************************************************)
EXTENDS Naturals, Sequences, FiniteSets, Functions, SequencesExt

CONSTANTS
    Devices,      \* devices of the topology that have a screen
    Seen,         \* those whose process checkAlive looks for: routers, controllers
    MaxClicks,    \* bound on the user's clicks
    MaxFaults,    \* bound on what goes wrong: a device or the server dies
    Backlog,      \* bound on the statuses still unread when the timer fires
    NoReport      \* the status of a server before its first report

ASSUME SessionAssumption ==
    /\ IsFiniteSet(Devices) /\ Seen \subseteq Devices
    /\ MaxClicks \in Nat /\ MaxFaults \in Nat /\ Backlog \in Nat

Commands == {"init", "start", "stop"}
Statuses == {"up", "dead", ""}         \* attached and detached are up
Reports == UNION {[S -> Statuses] : S \in SUBSET Devices}
Jobs == [op : {"create", "destroy"}, at : {"begin", "work"}, todo : SUBSET Devices]

VARIABLES
    \* the window
    running, recovery,     \* of MainWindow
    refreshing, paused,    \* of the scene
    ticking,               \* the scene's timer is on
    light,                 \* status of each item, "none" before the first
    link,                  \* the client: "none", "live", or "broken" unnoticed
    \* the server
    up,                    \* the process is there
    detected,              \* its global "recovery"
    timer,                 \* its timer is on
    status,                \* what was last reported to it
    \* its task manager
    thread,                \* "off", "top" of the loop, or "listed"
    going,                 \* the flag "running" of the loop
    listed,                \* the attribute "devices"
    \* between them, and the machine
    toServer, toClient,    \* commands and statuses on their way
    alive,                 \* devices whose screen exists
    jobs,                  \* gloader processes
    setup,                 \* the setup file of gloader exists
    clicks, faults         \* so far

window == <<running, recovery, refreshing, paused, ticking, light>>
manager == <<thread, going, listed>>
server == <<up, detected, timer, status, thread, going, listed>>
machine == <<alive, jobs, setup>>
bounds == <<clicks, faults>>
vars == <<window, link, server, toServer, toClient, machine, bounds>>

TypeOK ==
    /\ running \in BOOLEAN /\ recovery \in BOOLEAN /\ refreshing \in BOOLEAN
    /\ paused \in BOOLEAN /\ ticking \in BOOLEAN /\ up \in BOOLEAN
    /\ detected \in BOOLEAN /\ timer \in BOOLEAN /\ going \in BOOLEAN /\ setup \in BOOLEAN
    /\ light \in [Devices -> Statuses \cup {"none"}]
    /\ link \in {"none", "live", "broken"}
    /\ link = "live" => up
    /\ status \in Reports \cup {NoReport} /\ listed \in Reports
    /\ thread \in {"off", "top", "listed"}
    /\ toServer \in Seq(Commands) /\ toClient \in Seq(Devices \X Statuses)
    /\ alive \subseteq Devices /\ jobs \in Seq(Jobs)
    /\ clicks \in 0..MaxClicks /\ faults \in 0..MaxFaults

Init ==
    /\ running = FALSE /\ recovery = FALSE /\ refreshing = FALSE /\ paused = FALSE
    /\ ticking = FALSE /\ light = [d \in Devices |-> "none"] /\ link = "none"
    /\ up = FALSE /\ detected = FALSE /\ timer = FALSE /\ status = NoReport
    /\ thread = "off" /\ going = FALSE /\ listed = <<>>
    /\ toServer = <<>> /\ toClient = <<>>
    /\ alive = {} /\ jobs = <<>> /\ setup = FALSE
    /\ clicks = 0 /\ faults = 0
-----------------------------------------------------------------------------
(***************************************************************************)
(* The window                                                              *)
(***************************************************************************)
Click == clicks < MaxClicks /\ clicks' = clicks + 1 /\ UNCHANGED faults
Fault == faults < MaxFaults /\ faults' = faults + 1 /\ UNCHANGED clicks

(* startClient when there is none.  What is sent to a server that is gone  *)
(* is lost.                                                                *)
Send(cmds) ==
    /\ link' = IF link = "none" THEN "live" ELSE link
    /\ toServer' = IF link' = "live" THEN toServer \o cmds ELSE toServer

(* startServer, with a new process: nothing of the old one is left.        *)
StartServer ==
    /\ Click /\ ~up
    /\ up' = TRUE
    /\ UNCHANGED <<window, link, detected, timer, status, manager, toServer, toClient, machine>>

(* Mutant: the window connects without a server.                           *)
StartClient_Unchecked ==
    /\ link = "none"
    /\ link' = "live"
    /\ UNCHANGED <<window, server, toServer, toClient, machine, bounds>>

StartClient ==
    /\ up /\ link = "none"
    /\ link' = "live"
    /\ UNCHANGED <<window, server, toServer, toClient, machine, bounds>>

(* Run: the file is sent, init, canvas and start.  In recovery nothing is  *)
(* compiled; otherwise the compilation is one that succeeds.               *)
Run ==
    /\ Click /\ up
    /\ running => recovery
    /\ Send(<<"init", "start">>)
    /\ recovery' = FALSE /\ running' = TRUE
    /\ refreshing' = TRUE /\ paused' = FALSE /\ ticking' = TRUE
    /\ UNCHANGED <<light, server, toClient, machine>>

(* stopped(): the attributes it sets.                                      *)
Stopped == running' = FALSE /\ refreshing' = FALSE /\ paused' = FALSE

Stop ==
    /\ Click /\ up /\ running
    /\ Send(<<"stop">>)
    /\ recovery' = FALSE
    /\ IF \A d \in Devices : light[d] \in {"none", ""}
       THEN Stopped /\ UNCHANGED ticking
       ELSE /\ UNCHANGED running
            /\ IF refreshing /\ ~paused
               THEN UNCHANGED <<refreshing, paused, ticking>>
               ELSE refreshing' = TRUE /\ paused' = FALSE /\ ticking' = TRUE
    /\ UNCHANGED <<light, server, toClient, machine>>

(* Scene.refresh when refreshing has ended.                                *)
Refresh ==
    /\ ticking /\ ~refreshing
    /\ ticking' = FALSE
    /\ Stopped
    /\ UNCHANGED <<recovery, light, link, server, toServer, toClient, machine, bounds>>

(* ReceiveDeviceStatusCommand and Node.setStatus.                          *)
Receive ==
    /\ toClient # <<>>
    /\ toClient' = Tail(toClient)
    /\ LET d == Head(toClient)[1] s == Head(toClient)[2]
           ends == s = "" /\ light[d] # ""
       IN /\ light' = [light EXCEPT ![d] = s]
          /\ refreshing' = (refreshing /\ ~ends)
          /\ paused' = (paused /\ ~ends)
    /\ UNCHANGED <<running, recovery, ticking, link, server, toServer, machine, bounds>>

(* displayError, once what had arrived is read.                            *)
DisplayError ==
    /\ link = "broken" /\ toClient = <<>>
    /\ link' = "none"
    /\ recovery' = (recovery \/ running)
    /\ paused' = (paused \/ running)
    /\ UNCHANGED <<running, refreshing, ticking, light, server, toServer, toClient, machine, bounds>>
-----------------------------------------------------------------------------
(***************************************************************************)
(* The server                                                              *)
(***************************************************************************)
Spawn(op) == jobs' = Append(jobs, [op |-> op, at |-> "begin", todo |-> Devices])

(* ReceiveInitStartCommand.                                                *)
HandleInit ==
    /\ Head(toServer) = "init"
    /\ detected' = (detected \/ Seen \cap alive # {})
    /\ UNCHANGED <<timer, manager, machine>>

HandleStart_KeepsRecovery ==
    /\ Head(toServer) = "start"
    /\ timer' = TRUE
    /\ IF thread = "off"
       THEN thread' = "top" /\ going' = TRUE /\ listed' = <<>>
       ELSE UNCHANGED manager
    /\ IF detected THEN UNCHANGED jobs ELSE Spawn("create")
    /\ UNCHANGED <<detected, alive, setup>>

(* ReceiveStartCommand.  Starting a thread that has not ended does nothing.*)
HandleStart ==
    /\ Head(toServer) = "start"
    /\ timer' = TRUE
    /\ IF thread = "off"
       THEN thread' = "top" /\ going' = TRUE /\ listed' = <<>>
       ELSE UNCHANGED manager
    /\ detected' = FALSE
    /\ IF detected THEN UNCHANGED jobs ELSE Spawn("create")
    /\ UNCHANGED <<alive, setup>>

(* ReceiveStopCommand.                                                     *)
HandleStop ==
    /\ Head(toServer) = "stop"
    /\ Spawn("destroy")
    /\ UNCHANGED <<detected, timer, manager, alive, setup>>

Handle ==
    /\ up /\ toServer # <<>>
    /\ toServer' = Tail(toServer)
    /\ HandleInit \/ HandleStart \/ HandleStop
    /\ UNCHANGED <<window, link, up, status, toClient, bounds>>

Report_NoFarewell ==
    /\ up /\ timer /\ status # NoReport /\ Len(toClient) <= Backlog
    /\ LET known == SetToSeq(DOMAIN status)
       IN toClient' = IF link = "live"
                      THEN toClient \o [k \in DOMAIN known |-> <<known[k], status[known[k]]>>]
                      ELSE toClient
    /\ going' = (going /\ Range(status) # {"dead"})
    /\ timer' = going'
    /\ UNCHANGED <<window, link, up, detected, status, thread, listed, toServer, machine, bounds>>

(* Server.refresh, on its timer.                                           *)
Report ==
    /\ up /\ timer /\ status # NoReport /\ Len(toClient) <= Backlog
    /\ LET known == SetToSeq(DOMAIN status)
           all == Range(status)
       IN /\ toClient' = IF link = "live"
                         THEN toClient \o [k \in DOMAIN known |-> <<known[k], status[known[k]]>>]
                         ELSE toClient
          /\ timer' = ("" \notin all)
          /\ IF all = {"dead"}
             THEN going' = FALSE /\ status' = [d \in DOMAIN status |-> ""]
             ELSE UNCHANGED <<going, status>>
    /\ UNCHANGED <<window, link, up, detected, thread, listed, toServer, machine, bounds>>

(* TaskManager.run: the list of the screens, and reportStatus.             *)
List ==
    /\ thread = "top"
    /\ IF going
       THEN /\ thread' = "listed"
            /\ listed' = [d \in DOMAIN listed \cup alive |-> IF d \in alive THEN "up" ELSE "dead"]
       ELSE thread' = "off" /\ UNCHANGED listed
    /\ UNCHANGED <<window, link, up, detected, timer, status, going, toServer, toClient, machine, bounds>>

ReportStatus ==
    /\ thread = "listed"
    /\ thread' = "top"
    /\ status' = listed
    /\ UNCHANGED <<window, link, up, detected, timer, going, listed, toServer, toClient, machine, bounds>>

(* The server's process ends: its terminal is closed, or ssh fails.        *)
Die ==
    /\ Fault /\ up
    /\ up' = FALSE
    /\ link' = IF link = "live" THEN "broken" ELSE link
    /\ toServer' = <<>>
    /\ detected' = FALSE /\ timer' = FALSE /\ status' = NoReport
    /\ thread' = "off" /\ going' = FALSE /\ listed' = <<>>
    /\ UNCHANGED <<window, toClient, machine>>
-----------------------------------------------------------------------------
(***************************************************************************)
(* gloader -c and gloader -d                                               *)
(***************************************************************************)

(* A creation is refused when it finds a router or controller alive, a     *)
(* destruction without the setup file.                                     *)
Refused(j) == IF j.op = "create" THEN Seen \cap alive # {} ELSE ~setup

Work(i) ==
    LET j == jobs[i] IN
    /\ \/ /\ j.at = "begin" /\ ~Refused(j)
          /\ jobs' = [jobs EXCEPT ![i].at = "work"]
          /\ UNCHANGED alive
       \/ /\ j.at = "work"
          /\ \E d \in j.todo :
               /\ jobs' = [jobs EXCEPT ![i].todo = @ \ {d}]
               /\ alive' = IF j.op = "create" THEN alive \cup {d} ELSE alive \ {d}
    /\ UNCHANGED <<window, link, server, toServer, toClient, setup, bounds>>

Finish(i) ==
    LET j == jobs[i] IN
    /\ \/ j.at = "begin" /\ Refused(j) /\ UNCHANGED setup
       \/ j.at = "work" /\ j.todo = {} /\ setup' = (setup \/ j.op = "create")
    /\ jobs' = RemoveAt(jobs, i)
    /\ UNCHANGED <<window, link, server, toServer, toClient, alive, bounds>>

(* A device ends by itself, or is terminated from its menu.                *)
DeviceDies(d) ==
    /\ Fault /\ d \in alive
    /\ alive' = alive \ {d}
    /\ UNCHANGED <<window, link, server, toServer, toClient, jobs, setup>>

GLoader == \E i \in DOMAIN jobs : Work(i) \/ Finish(i)
-----------------------------------------------------------------------------
User == StartServer \/ Run \/ Stop
Next ==
    \/ User
    \/ StartClient \/ Refresh \/ Receive \/ DisplayError
    \/ Handle \/ Report \/ List \/ ReportStatus \/ Die
    \/ GLoader
    \/ \E d \in Devices : DeviceDies(d)

Spec == Init /\ [][Next]_vars

(* Timers fire, event loops and threads go on, and processes come to their *)
(* end.  Nothing is asked of the user.                                     *)
FairSpec ==
    /\ Spec
    /\ WF_vars(Refresh) /\ WF_vars(Receive) /\ WF_vars(DisplayError)
    /\ WF_vars(Handle) /\ WF_vars(Report) /\ WF_vars(List \/ ReportStatus)
    /\ WF_vars(GLoader)
-----------------------------------------------------------------------------
(* That init found a running topology is used by the start that was sent   *)
(* with it (ReceiveInitStartCommand, ReceiveStartCommand): it never makes  *)
(* the server swallow a later start, whatever dies in between.             *)
RecoveryUsed == detected => "start" \in Range(toServer)

(* The topology is being taken down, all of it, and nothing puts it up.    *)
ComingDown ==
    /\ running /\ link = "live"
    /\ jobs # <<>> /\ "start" \notin Range(toServer)
    /\ \A i \in DOMAIN jobs : jobs[i].op = "destroy" /\ jobs[i].at = "work"
    /\ alive \subseteq UNION {jobs[i].todo : i \in DOMAIN jobs}

(* The server watches the topology: its timer is on, the task manager is   *)
(* to go on, has seen all that is alive, and has told the server.          *)
Watched == /\ timer /\ thread # "off" /\ going
           /\ status = listed /\ listed # <<>>
           /\ alive \subseteq {d \in DOMAIN listed : listed[d] = "up"}

(* The window learns that the topology has stopped, when the server has    *)
(* watched it: through the thread's lists, the report of the last dead     *)
(* device and the empty status after it (refresh, setStatus, stopped).     *)
StopEnds == ComingDown /\ Watched ~> ~running \/ link # "live"

(* The server was started again after the window had seen devices up.      *)
Restarted == ~timer /\ status = NoReport /\ "up" \in Range(light)

(* The log tells the user so after a lost connection (displayError): "You  *)
(* can then press run to resume the previous running topology, or stop to  *)
(* stop it."  Only start makes the new server watch the topology.          *)
StopEndsAfterLoss == ComingDown /\ Restarted ~> ~running \/ link # "live"
=============================================================================
