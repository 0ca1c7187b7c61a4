----------------------------- MODULE Provisioner -----------------------------
(***************************************************************************)
(* SystemSetup::initialize (src/aero-agent/src/system_setup.rs): the       *)
(* one-shot boot sequence main() runs before the agent starts.  Four steps *)
(* in order, each aborting the rest with `?` on error:                     *)
(*   detect_package_manager, ensure_container_runtime,                     *)
(*   setup_cni_networking, ensure_dhcp_daemon.                             *)
(* The host is the state: which binaries and files exist, and whether the  *)
(* CNI DHCP daemon process is alive.  Every external command (which,       *)
(* apt-get, curl | tar, systemctl, pgrep) is one nondeterministic outcome. *)
(* The agent may run initialize again on the same host (a restart): run    *)
(* counts the runs, and the per-run history records what each run did.    *)
(*                                                                         *)
(* The daemon is the only part of the host that changes on its own: a     *)
(* process that was just launched may settle or exit, and systemd          *)
(* relaunches an exited daemon whose unit it started (Restart=always).     *)
(***************************************************************************)
EXTENDS Naturals, FiniteSets, FiniteSetsExt, Sequences

CONSTANTS
    MaxRuns     \* how many times initialize runs on the same host

ASSUME MaxRuns \in Nat \ {0}

\* detect_package_manager probes these, first hit wins (lines 32-38).
Managers == <<"apt", "yum", "dnf", "pacman", "zypper">>
\* The families ensure_container_runtime has an install invocation for.
Installable == {"apt", "yum", "dnf", "pacman"}
NoManager == "none"

\* Effects a run can have on the host, one tag per kind of change.
EffectTags == {"runtime", "cni", "plugins", "unit", "spawn"}

\* The daemon process: absent, launched and not yet settled, or settled.
DaemonStates == {"down", "launched", "up"}

Steps == {"detect", "runtime", "cni", "dhcp", "systemd", "spawn", "wait", "done"}

VARIABLES
    \* Host facts the code probes and never changes.
    managersPresent, \* package-manager binaries `which` finds
    hasWhich,        \* `which` exists: Command::output()? fails without it
    hasSystemctl,    \* `which systemctl` succeeds
    hasIface,        \* detect_network_interface finds an interface
    \* Host state the code changes.
    nerdctl,         \* `which nerdctl` succeeds
    cniConfig,       \* /etc/cni/net.d/mc-lan.conflist exists
    cniTruncated,    \* ... but holds only part of what fs::write wrote
    dhcpBin,         \* /opt/cni/bin/dhcp exists
    unitActive,      \* systemd has started cni-dhcp.service
    daemon,          \* the `dhcp daemon` process
    \* initialize's control state.
    pc, pkg, run,
    \* History: the result and the effects of each run, and whether a
    \* launched daemon has ever exited.
    result, effects, daemonDied

hostFacts == <<managersPresent, hasWhich, hasSystemctl, hasIface>>
hostState == <<nerdctl, cniConfig, cniTruncated, dhcpBin, unitActive, daemon>>
vars == <<hostFacts, hostState, pc, pkg, run, result, effects, daemonDied>>

Runs == 1..MaxRuns

TypeOK ==
    /\ managersPresent \subseteq {Managers[i] : i \in DOMAIN Managers}
    /\ hasWhich \in BOOLEAN /\ hasSystemctl \in BOOLEAN /\ hasIface \in BOOLEAN
    /\ nerdctl \in BOOLEAN /\ cniConfig \in BOOLEAN /\ dhcpBin \in BOOLEAN
    /\ cniTruncated \in BOOLEAN
    /\ unitActive \in BOOLEAN
    /\ daemon \in DaemonStates
    /\ pc \in Steps
    /\ pkg \in {Managers[i] : i \in DOMAIN Managers} \cup {NoManager}
    /\ run \in Runs
    /\ result \in [Runs -> {"none", "ok", "err", "crash"}]
    /\ effects \in [Runs -> SUBSET EffectTags]
    /\ daemonDied \in BOOLEAN

-----------------------------------------------------------------------------
(* Helpers *)

\* is_dhcp_daemon_running: `pgrep -f "dhcp daemon"` matches any live
\* process with that command line, settled or not.
DaemonAlive(d) == d \in {"launched", "up"}

\* Launching a second daemon while one is alive changes nothing: the new
\* one cannot bind the plugin socket and exits.
Launch(d) == IF d = "down" THEN "launched" ELSE d

\* run_command (lines 292-302), and every other external command: it exits
\* 0 or it fails.
RunCommand == BOOLEAN

\* install_cni_plugins (lines 269-289): mkdir /opt/cni/bin, then
\* curl | tar of the plugin release through run_command.
InstallCniPlugins(ok) == dhcpBin' = ok

Goto(step) == pc' = step /\ UNCHANGED result
Finish(res) == pc' = "done" /\ result' = [result EXCEPT ![run] = res]
Effect(tag) == effects' = [effects EXCEPT ![run] = @ \cup {tag}]

\* detect_package_manager: the first of Managers that `which` finds.
FirstPresent(present) ==
    LET hits == {i \in DOMAIN Managers : Managers[i] \in present}
    IN  IF hits = {} THEN NoManager ELSE Managers[Min(hits)]

-----------------------------------------------------------------------------
(* initialize, one action per step it awaits *)

\* Variant: the probed binary's name, not its family, is returned.
DetectPackageManagerBinaryName ==
    /\ pc = "detect"
    /\ LET hits == {i \in DOMAIN Managers : Managers[i] \in managersPresent}
           binary == <<"apt-get", "yum", "dnf", "pacman", "zypper">>
       IN  \/ /\ hasWhich /\ hits # {}
              /\ pkg' = binary[Min(hits)]
              /\ Goto("runtime")
           \/ /\ ~hasWhich \/ hits = {}
              /\ Finish("err")
              /\ UNCHANGED pkg
    /\ UNCHANGED <<hostFacts, hostState, run, effects, daemonDied>>

\* Lines 13-15 and detect_package_manager (31-47).  `which` missing makes
\* the first Command::output()? fail, which aborts like no hit at all.
DetectPackageManager ==
    /\ pc = "detect"
    /\ LET found == FirstPresent(managersPresent)
       IN  \/ /\ hasWhich /\ found # NoManager
              /\ pkg' = found
              /\ Goto("runtime")
           \/ /\ ~hasWhich \/ found = NoManager
              /\ Finish("err")
              /\ UNCHANGED pkg
    /\ UNCHANGED <<hostFacts, hostState, run, effects, daemonDied>>

\* Variant: a failed install does not stop the sequence.
EnsureContainerRuntimeNoAbort ==
    /\ pc = "runtime"
    /\ \/ nerdctl /\ Goto("cni") /\ UNCHANGED <<nerdctl, effects>>
       \/ /\ ~nerdctl /\ pkg \in Installable
          /\ Effect("runtime")
          /\ \E installed \in BOOLEAN : nerdctl' = installed
          /\ Goto("cni")
       \/ ~nerdctl /\ pkg \notin Installable /\ Goto("cni") /\ UNCHANGED <<nerdctl, effects>>
    /\ UNCHANGED <<hostFacts, dhcpBin, cniConfig, cniTruncated, unitActive, daemon, pkg, run, daemonDied>>

\* Lines 17-18 and ensure_container_runtime (50-84) with install_nerdctl
\* (87-105) and run_command (292-302).  An installable family runs its
\* package install; when that leaves nerdctl missing, the release tarball
\* is fetched.  Either command failing aborts initialize.
EnsureContainerRuntime ==
    /\ pc = "runtime"
    /\ \/ /\ nerdctl
          /\ Goto("cni")
          /\ UNCHANGED <<nerdctl, effects>>
       \/ /\ ~nerdctl /\ pkg \notin Installable
          /\ Finish("err")
          /\ UNCHANGED <<nerdctl, effects>>
       \/ /\ ~nerdctl /\ pkg \in Installable
          /\ Effect("runtime")
          /\ \E pkgOk, bundled, fetchOk \in RunCommand :
               LET installed == pkgOk /\ (bundled \/ fetchOk)
               IN  /\ nerdctl' = installed
                   /\ IF installed THEN Goto("cni") ELSE Finish("err")
    /\ UNCHANGED <<hostFacts, dhcpBin, cniConfig, cniTruncated, unitActive, daemon, pkg, run, daemonDied>>

\* Variant: the config is written without checking whether it exists.
SetupCniNetworkingAlwaysWrite ==
    /\ pc = "cni"
    /\ \/ /\ hasIface
          /\ cniConfig' = TRUE /\ cniTruncated' = FALSE
          /\ Effect("cni")
          /\ Goto("dhcp")
       \/ ~hasIface /\ Finish("err") /\ UNCHANGED <<cniConfig, cniTruncated, effects>>
    /\ UNCHANGED <<hostFacts, nerdctl, dhcpBin, unitActive, daemon, pkg, run, daemonDied>>

\* Lines 20-21 and setup_cni_networking (108-145) with
\* detect_network_interface (148-176): an existing config is kept as is.
SetupCniNetworking ==
    /\ pc = "cni"
    /\ \/ cniConfig /\ Goto("dhcp") /\ UNCHANGED <<cniConfig, cniTruncated, effects>>
       \/ /\ ~cniConfig /\ hasIface
          /\ cniConfig' = TRUE /\ cniTruncated' = FALSE
          /\ Effect("cni")
          /\ Goto("dhcp")
       \/ ~cniConfig /\ ~hasIface /\ Finish("err") /\ UNCHANGED <<cniConfig, cniTruncated, effects>>
       \* create_dir_all? (113) fails: read-only or full file system.
       \/ Finish("err") /\ UNCHANGED <<cniConfig, cniTruncated, effects>>
       \* fs::write? (141) fails: on open (no file) or after truncating it.
       \/ /\ ~cniConfig /\ hasIface
          /\ \E partial \in BOOLEAN :
               /\ cniConfig' = partial /\ cniTruncated' = partial
               /\ effects' = IF partial THEN [effects EXCEPT ![run] = @ \cup {"cni"}]
                                       ELSE effects
          /\ Finish("err")
    /\ UNCHANGED <<hostFacts, nerdctl, dhcpBin, unitActive, daemon, pkg, run, daemonDied>>

\* Lines 23-24 and ensure_dhcp_daemon up to the systemd attempt (179-193)
\* with install_cni_plugins (269-289): a live daemon ends initialize with
\* success; otherwise a missing plugin binary is installed first.
EnsureDhcpDaemon ==
    /\ pc = "dhcp"
    /\ \/ DaemonAlive(daemon) /\ Finish("ok") /\ UNCHANGED <<dhcpBin, effects>>
       \/ /\ ~DaemonAlive(daemon) /\ dhcpBin
          /\ Goto("systemd")
          /\ UNCHANGED <<dhcpBin, effects>>
       \/ /\ ~DaemonAlive(daemon) /\ ~dhcpBin
          /\ Effect("plugins")
          /\ \E installOk \in RunCommand :
               /\ InstallCniPlugins(installOk)
               /\ IF installOk THEN Goto("systemd") ELSE Finish("err")
    /\ UNCHANGED <<hostFacts, nerdctl, cniConfig, cniTruncated, unitActive, daemon, pkg, run, daemonDied>>

\* Lines 194-198 and setup_dhcp_systemd_service (221-256): without
\* systemctl, or when the unit write, daemon-reload, enable or start
\* fails, the fallback spawn follows; when all succeed, initialize returns
\* success without probing the daemon.
SetupDhcpSystemdService ==
    /\ pc = "systemd"
    /\ \/ /\ ~hasSystemctl
          /\ Goto("spawn")
          /\ UNCHANGED <<unitActive, daemon, effects>>
       \/ /\ hasSystemctl
          /\ Effect("unit")
          /\ \E started \in RunCommand :
               IF started
               THEN /\ unitActive' = TRUE
                    /\ daemon' = Launch(daemon)
                    /\ Finish("ok")
               ELSE Goto("spawn") /\ UNCHANGED <<unitActive, daemon>>
    /\ UNCHANGED <<hostFacts, nerdctl, cniConfig, cniTruncated, dhcpBin, pkg, run, daemonDied>>

\* Lines 200-208: spawn `/opt/cni/bin/dhcp daemon` detached, then sleep
\* two seconds (the await the daemon races).  When exec fails,
\* spawn()? returns the error.
SpawnDhcpDaemon ==
    /\ pc = "spawn"
    /\ \/ /\ daemon' = Launch(daemon)
          /\ Effect("spawn")
          /\ Goto("wait")
       \* spawn()? (205) fails: the binary cannot be executed.
       \/ Finish("err") /\ UNCHANGED <<daemon, effects>>
    /\ UNCHANGED <<hostFacts, nerdctl, cniConfig, cniTruncated, dhcpBin, unitActive, pkg, run, daemonDied>>

\* Lines 210-217: after the sleep, one pgrep decides the result.
ProbeDhcpDaemon ==
    /\ pc = "wait"
    /\ Finish(IF DaemonAlive(daemon) THEN "ok" ELSE "err")
    /\ UNCHANGED <<hostFacts, hostState, pkg, run, effects, daemonDied>>

\* The agent process is killed (power loss, OOM, `systemctl restart`)
\* while initialize runs.  Every step is atomic on the host except the
\* fs::write of mc-lan.conflist (line 141), which truncates the file,
\* then writes it: a kill inside it leaves a partial file behind.
AgentKilled ==
    /\ pc # "done"
    /\ Finish("crash")
    /\ \/ UNCHANGED <<cniConfig, cniTruncated, effects>>
       \/ /\ pc = "cni" /\ ~cniConfig /\ hasIface
          /\ cniConfig' = TRUE /\ cniTruncated' = TRUE
          /\ Effect("cni")
    /\ UNCHANGED <<hostFacts, nerdctl, dhcpBin, unitActive, daemon, pkg, run, daemonDied>>

\* main() runs initialize once per agent start (lines 160-165); a restart
\* of the agent on the same host runs it again from the top.
Rerun ==
    /\ pc = "done"
    /\ run < MaxRuns
    /\ run' = run + 1
    /\ pc' = "detect"
    /\ pkg' = NoManager
    /\ UNCHANGED <<hostFacts, hostState, result, effects, daemonDied>>

-----------------------------------------------------------------------------
(* The daemon process, on its own *)

DaemonSettles ==
    /\ daemon = "launched"
    /\ daemon' = "up"
    /\ UNCHANGED <<hostFacts, nerdctl, cniConfig, cniTruncated, dhcpBin, unitActive>>
    /\ UNCHANGED <<pc, pkg, run, result, effects, daemonDied>>

DaemonExits ==
    /\ daemon = "launched"
    /\ daemon' = "down"
    /\ daemonDied' = TRUE
    /\ UNCHANGED <<hostFacts, nerdctl, cniConfig, cniTruncated, dhcpBin, unitActive>>
    /\ UNCHANGED <<pc, pkg, run, result, effects>>

\* The unit written at lines 227-242 has Restart=always.
SystemdRestartsDaemon ==
    /\ unitActive /\ daemon = "down"
    /\ daemon' = "launched"
    /\ UNCHANGED <<hostFacts, nerdctl, cniConfig, cniTruncated, dhcpBin, unitActive>>
    /\ UNCHANGED <<pc, pkg, run, result, effects, daemonDied>>

-----------------------------------------------------------------------------

\* Any host: any package managers, tools and files, a `dhcp daemon`
\* process running or not (pgrep -f matches it wherever its binary lives,
\* e.g. a distribution's /usr/lib/cni/dhcp), no unit started yet.
Init ==
    /\ managersPresent \in SUBSET {Managers[i] : i \in DOMAIN Managers}
    /\ hasWhich \in BOOLEAN /\ hasSystemctl \in BOOLEAN /\ hasIface \in BOOLEAN
    /\ nerdctl \in BOOLEAN /\ cniConfig \in BOOLEAN /\ dhcpBin \in BOOLEAN
    /\ cniTruncated = FALSE
    /\ daemon \in {"down", "up"}
    /\ unitActive = FALSE
    /\ pc = "detect" /\ pkg = NoManager /\ run = 1
    /\ result = [r \in Runs |-> "none"]
    /\ effects = [r \in Runs |-> {}]
    /\ daemonDied = FALSE

Initialize ==
    \/ DetectPackageManager
    \/ EnsureContainerRuntime
    \/ SetupCniNetworking
    \/ EnsureDhcpDaemon
    \/ SetupDhcpSystemdService
    \/ SpawnDhcpDaemon
    \/ ProbeDhcpDaemon

Environment ==
    \/ DaemonSettles
    \/ DaemonExits
    \/ SystemdRestartsDaemon

Next == Initialize \/ AgentKilled \/ Rerun \/ Environment

\* No fairness: initialize's commands are awaited with no timeout (the
\* Agent module's SetupCommandHangs), and only safety is checked here.
Spec == Init /\ [][Next]_vars

-----------------------------------------------------------------------------
(* Properties *)

\* A run of initialize reports success only in a step after which nerdctl
\* is installed, the CNI config exists and a DHCP daemon process is alive:
\* no failed step of ensure_container_runtime, setup_cni_networking or
\* ensure_dhcp_daemon is swallowed on the way to Ok(()).  (Spec 4.B step 5
\* checks the plugin binary only when no daemon runs, so it is not
\* required here.)
OkOnlyWhenProvisioned ==
    [][\A r \in Runs :
         (result'[r] = "ok" /\ result[r] # "ok")
            => nerdctl' /\ cniConfig' /\ DaemonAlive(daemon')]_vars

\* Spec section 8, restricted to hosts where nothing undid the first run's
\* work: when the first run of initialize succeeded and no launched daemon
\* has exited since, a second run on the same host installs, writes,
\* enables and spawns nothing.
RerunIsNoop ==
    \A r \in 2..run :
        (result[r - 1] = "ok" /\ ~daemonDied) => effects[r] = {}

\* Spec 4.B step 4: the run that reports success leaves a usable
\* macvlan+DHCP config behind.  setup_cni_networking trusts any existing
\* mc-lan.conflist (line 116), including one cut short by a kill inside
\* its own fs::write on an earlier boot.
ConfigIntactWhenOk ==
    [][\A r \in Runs :
         (result'[r] = "ok" /\ result[r] # "ok") => ~cniTruncated']_vars

=============================================================================
