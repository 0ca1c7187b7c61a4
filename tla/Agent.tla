-------------------------------- MODULE Agent --------------------------------
(***************************************************************************)
(* main() and AeroAgent::run (src/aero-agent/src/main.rs): load the        *)
(* configuration, run SystemSetup::initialize (the Provisioner module,     *)
(* instantiated for one run), build the agent, spawn the three tasks       *)
(* (control channel, health monitoring, local HTTP server) and wait in     *)
(* tokio::select! for the first of them to finish; run() then returns     *)
(* Ok(()) and so does main.                                                *)
(*                                                                         *)
(* The control-channel task (connect_and_listen) and the health loop never *)
(* return: the spec has the channel reconnect for ever, and the health     *)
(* loop (lines 94-106) has no exit.  The HTTP task returns when the bind   *)
(* of 127.0.0.1:8080 or axum::serve fails.                                 *)
(***************************************************************************)
EXTENDS Naturals

Tasks == {"ws", "health", "http"}

VARIABLES
    phase,      \* "config", "setup", "running", "exited"
    tasks,      \* per task: "idle", "running", "finished"
    exitCode,   \* the process exit status once exited, 0 until then
    httpFailed, \* the HTTP task ended because bind or serve failed
    hung,       \* the external command initialize awaits never returns
    \* SystemSetup::initialize's state (module Provisioner)
    managersPresent, hasWhich, hasSystemctl, hasIface,
    nerdctl, cniConfig, cniTruncated, dhcpBin, unitActive, daemon,
    pc, pkg, run, result, effects, daemonDied

Setup == INSTANCE Provisioner WITH MaxRuns <- 1

agentVars == <<phase, tasks, exitCode, httpFailed, hung>>
setupVars == <<managersPresent, hasWhich, hasSystemctl, hasIface, nerdctl, cniTruncated,
               cniConfig, dhcpBin, unitActive, daemon, pc, pkg, run, result,
               effects, daemonDied>>
vars == <<agentVars, setupVars>>

-----------------------------------------------------------------------------

\* Lines 143-145: AgentConfig::from_file, else from_env; both failing
\* makes main return Err, which the Rust runtime turns into exit status 1.
LoadConfig ==
    /\ phase = "config"
    /\ \/ phase' = "setup" /\ UNCHANGED exitCode
       \/ phase' = "exited" /\ exitCode' = 1
    /\ UNCHANGED <<tasks, httpFailed, hung, setupVars>>

\* Lines 161-165: one step of initialize, once its command has returned.
SetupStep ==
    /\ phase = "setup"
    /\ ~hung
    /\ Setup!Initialize
    /\ UNCHANGED agentVars

\* Lines 162-169 and 57-80: once initialize has returned, its error is
\* only logged; AeroAgent::new cannot fail; run() spawns the three tasks.
StartAgent ==
    /\ phase = "setup"
    /\ pc = "done"
    /\ phase' = "running"
    /\ tasks' = [t \in Tasks |-> "running"]
    /\ UNCHANGED <<exitCode, httpFailed, hung, setupVars>>

\* Lines 74-80 and start_http_server (109-127): the bind or the server
\* fails, the error is logged and the task completes.
HttpServerFails ==
    /\ phase = "running"
    /\ tasks["http"] = "running"
    /\ tasks' = [tasks EXCEPT !["http"] = "finished"]
    /\ httpFailed' = TRUE
    /\ UNCHANGED <<phase, exitCode, hung, setupVars>>

\* Lines 82-88 and 169-171: select! completes with the first finished
\* task, run() returns Ok(()), main returns Ok(()): exit status 0.
SelectReturns ==
    /\ phase = "running"
    /\ \E t \in Tasks : tasks[t] = "finished"
    /\ phase' = "exited"
    /\ exitCode' = 0
    /\ UNCHANGED <<tasks, httpFailed, hung, setupVars>>

\* initialize runs its commands through run_command's blocking
\* Command::output() (system_setup.rs 292-293), with no timeout: apt-get,
\* dnf or pacman (61-68), the curl downloads of nerdctl and of the CNI
\* plugins (99-102, 282-285), systemctl start (252).
\* A mirror or registry that stops answering leaves the step blocked.
SetupCommandHangs ==
    /\ phase = "setup"
    /\ pc \in {"runtime", "dhcp", "systemd"}
    /\ ~hung
    /\ hung' = TRUE
    /\ UNCHANGED <<phase, tasks, exitCode, httpFailed, setupVars>>

\* The DHCP daemon goes on settling, exiting and being restarted by
\* systemd whatever the agent does.
HostEnvironment ==
    /\ Setup!Environment
    /\ UNCHANGED agentVars

-----------------------------------------------------------------------------

Init ==
    /\ phase = "config"
    /\ tasks = [t \in Tasks |-> "idle"]
    /\ exitCode = 0
    /\ httpFailed = FALSE
    /\ hung = FALSE
    /\ Setup!Init

AgentStep == LoadConfig \/ SetupStep \/ StartAgent \/ SelectReturns

Next == AgentStep \/ HttpServerFails \/ SetupCommandHangs \/ HostEnvironment

\* main is a single task awaiting each step in turn; it is never starved
\* while the command it awaits returns.  The HTTP server may run for ever,
\* so its failure gets no fairness, and neither does a hang.
Spec == Init /\ [][Next]_vars /\ WF_vars(AgentStep)

-----------------------------------------------------------------------------
(* Properties *)

\* Spec 4.B: provisioning failures are reported but not fatal, and spec
\* section 5 bounds every non-streaming subprocess by 30 s.  Once the
\* configuration has loaded, the agent always gets to run its tasks,
\* whatever initialize's commands do.
SetupNeverFatal ==
    (phase = "setup") ~> (phase = "running")

\* Spec section 6: exit code 2 on a bind failure of the local HTTP server.
\* When the agent exits because its HTTP task failed, it exits with 2.
HttpFailureExitsWith2 ==
    (phase = "exited" /\ httpFailed) => exitCode = 2

=============================================================================
