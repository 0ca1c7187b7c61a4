# TLA+ models of the Aero agent

This directory holds TLA+ models of the Aero agent (`src/aero-agent/src`), the
per-host container orchestration agent described in `spec.md`, together with
the TLC configurations that check them. `PROJECT.json` lists the components,
the runs, the source lines behind every definition (`map`), the findings, and
the hazards the properties are aimed at.

## 1. Inventory

### Sources

The repository holds three of the agent's Rust files:

| file | lines | contents |
|---|---|---|
| `main.rs` | 173 | `main`, `AeroAgent::{new, run, start_health_monitoring, start_http_server}` |
| `runtime_manager.rs` | 488 | `ContainerdRuntime`, which wraps the `nerdctl` CLI |
| `system_setup.rs` | 302 | `SystemSetup::initialize`, the boot-time host provisioner |

`main.rs` declares modules that are not in the sources: `config`, `errors`,
`file_manager`, `firewall_manager` and `websocket_handler`. The last one holds
the control channel, the command dispatcher and the log multiplexer's registry.
Models of those parts can only come from the spec. They are marked
`spec_modelled` in the map.

### Components, their state and operations

**Host Provisioner** (`system_setup.rs`). It runs once, synchronously, before
the agent starts (`main.rs:160-165`), and its error is only logged. Its state
is the host: which package managers and tools exist, whether `nerdctl`, the
CNI config `/etc/cni/net.d/mc-lan.conflist` and the DHCP plugin
`/opt/cni/bin/dhcp` exist, whether systemd has started `cni-dhcp.service`, and
whether a `dhcp daemon` process is alive. Its steps run in order and each one
aborts the rest with `?`:

1. `detect_package_manager`: the first of apt-get, yum, dnf, pacman or zypper that `which` finds.
2. `ensure_container_runtime`: install containerd, then fetch nerdctl if it is still missing. zypper is unsupported.
3. `setup_cni_networking`: detect an interface and write the macvlan config, unless the file already exists.
4. `ensure_dhcp_daemon`: return if `pgrep` finds a daemon. Otherwise install the plugins if needed, then try the systemd unit (write, daemon-reload, enable, start). If that fails, spawn the daemon, sleep 2 s and probe once.

The hard parts are partial failure, idempotence across restarts, and a daemon
whose start races a fixed sleep.

**Runtime Adapter** (`runtime_manager.rs`). It keeps no state of its own; the
source of truth is nerdctl's container table. Its operations are create (`run
-d`, then inspect the IP, then `FirewallManager::allow_port`, whose failure is
swallowed), start, stop, kill, remove (`rm -f`), logs, list, stats, exec,
get_container_ip and container_exists. There are two log operations.
`stream_logs` spawns `nerdctl logs -f` and pumps both pipes through a
`select!` loop into a callback. `spawn_log_stream` only returns the child. The
hard parts are concurrent requests on the same container, with one task per
request (spec 4.G). Create is three steps, so other requests can interleave
with it. The log pump has to end at end of file without losing lines.

**Agent supervision** (`main.rs`). `main` loads the config (exit 1 on
failure), then runs the provisioner. `run` spawns three tasks: the control
channel, the health loop (every 30 s it sends a health report, then the
resource stats) and a local HTTP server on 127.0.0.1:8080. It then waits in
`select!` for the first task to finish. When any task finishes, the process
exits with status 0.

**Control Channel, Command Dispatcher, Log Multiplexer registry, Telemetry
publishing and Firewall Gate.** These live in the absent files. The spec
describes them as follows:

- The channel's state machine is Disconnected → Connecting → Handshaking → Connected → Closing. It reconnects with exponential backoff (base 1 s, cap 60 s) and sends a heartbeat every 20 s. It closes after 3 missed heartbeats.
- The dispatcher runs one task per request and must send exactly one reply per correlation id, unless the channel resets.
- The multiplexer keeps at most one follower per container. After `log.stop` has been acknowledged, no `log.line` for that container may follow.
- Samples taken while the channel is disconnected are dropped.

### How the components interact

The provisioner finishes before the agent is built. The control channel feeds
the dispatcher. The dispatcher calls the Runtime Adapter and the multiplexer,
and create calls the Firewall Gate. The health loop calls the runtime (list,
stats) and publishes through the channel, and so do the followers. The agent
process lives only as long as all three tasks do.

### What makes each component correct

- **Provisioner**: it reports success only when everything is in place. A run after a successful run changes nothing. One failing step leaves a host that a later run can still complete.
- **Runtime Adapter**: a create replies success exactly when its `nerdctl run` succeeded, and every request is answered. Every firewall rule belongs to a container that was really created, at its own address. The log pump ends once its child exits and loses no line.
- **Agent**: provisioning comes first and is never fatal. A failing collaborator must not end the agent with the wrong status.
- **Channel and dispatcher**: each request gets exactly one reply. The backoff never decreases within an epoch and resets after a handshake. Closing the channel cancels the request tasks and the followers.
- **Multiplexer**: at most one follower per container, and no line after a stop.

The hazards behind these properties are listed, each at its line, under
`hazards` in `PROJECT.json`.

## 2. Plan

The order follows the share of the real source each part covers and how much
of the system depends on it.

1. **Provisioner**: done. It has the most real code and the most partial-failure paths.
2. **LogStream**: done. This is `stream_logs`, the only concurrent code in the sources.
3. **Agent**: done. It covers `main` and `run` and composes `Provisioner` through `INSTANCE ... WITH MaxRuns <- 1`.
4. **RuntimeAdapter**: done. Every operation a request reaches runs as a concurrent request task against nerdctl's container table and the firewall rules, and containerd may stall. A safety property checks that a create's reply follows its `nerdctl run` whatever other requests do in between, and a liveness property checks that every request is answered once containerd keeps answering.
5. **Provisioner crash**: done. The agent may be killed at any step of `initialize`, including inside the CNI config's `fs::write`.
6. **Telemetry**: done for the health loop of `main.rs`: the interval's burst catch-up, and the coupling of health reports to the resource-stats round.
7. **Not planned: ControlChannel, Dispatcher and LogMultiplexer.** Their code (`websocket_handler.rs`) is absent from the repository. A model of them could only restate the spec and check it against itself (section 4). The dispatcher appears only where the real code needs a caller: `Dispatch(t)` spawns the request tasks of RuntimeAdapter.
8. **Left open**: spawning several log streams for one container (`spawn_log_stream`), which only matters together with the absent follower registry; and the host-network path of create, where inspect prints no address. Firewall rules that outlive their containers (`remove_container`, line 206) have no property. The spec's Firewall Gate has no close operation, so no stated promise can be checked against the code.

## 3. Modules and runs

### Provisioner (`Provisioner.tla`, `MCProvisioner.tla`)

**State.** The host facts are `managersPresent`, `hasWhich`, `hasSystemctl`
and `hasIface`; they never change. The host state is `nerdctl`, `cniConfig`,
`cniTruncated` (the config exists but holds only part of what `fs::write` wrote),
`dhcpBin`, `unitActive` and `daemon`. The daemon is `down`, `launched` (alive
but may still exit) or `up`. `pc`, `pkg` and `run` are `initialize`'s control
state. The history variables are `result` and `effects` per run, and
`daemonDied`.

**Actions.** There is one action per step of `initialize`, split where the
code waits on the outside world:

- `DetectPackageManager`
- `EnsureContainerRuntime`, which also covers `install_nerdctl`
- `SetupCniNetworking`
- `EnsureDhcpDaemon`
- `SetupDhcpSystemdService`
- `SpawnDhcpDaemon` (spawn, then the 2 s sleep)
- `ProbeDhcpDaemon`

The I/O errors propagated with `?` are disjuncts that end the run with
`err`: `create_dir_all` (line 113), `fs::write` (line 141, which may fail
after truncating the file) and `spawn()` (line 205). Init does not tie a
running daemon to the plugin binary: `pgrep -f` matches a dhcp daemon
wherever it was installed, and `ensure_dhcp_daemon` then returns at once.

Every external command is an `\E ok \in RunCommand`. `AgentKilled` is the
agent process killed at any step. The run ends with result `crash`. If the
kill lands inside the `fs::write` of `mc-lan.conflist` (line 141), a
truncated config is left behind. `Rerun` is an agent restart on the same host. The daemon also acts on its own: `DaemonSettles`,
`DaemonExits`, and `SystemdRestartsDaemon`, which models the unit's
`Restart=always`.

**Run `provisioner`.** `MaxRuns = 2` over every host profile (about 302,000
distinct states). It checks three properties:

- `TypeOK`.
- `OkOnlyWhenProvisioned` (an action property): the step that makes a run report success leaves nerdctl, the config and a live daemon in place. The plugin binary is not required: spec 4.B step 5 checks it only when no daemon runs.
- `RerunIsNoop`: after a successful run, the next run has no effect on the host unless a launched daemon died in between.

Two runs are enough: the host state only grows, except for the daemon.

**Run `provisioner_crash`** (violation): `ConfigIntactWhenOk`. Run 1 is killed
inside the config write. Run 2 finds the file, keeps it (line 116) and reports
success with a truncated config.

**Fairness.** None. `initialize` awaits its commands through the blocking
`Command::output()` (line 293) with no timeout, so no step is guaranteed to
return, and only safety is checked here; the Agent module models the hang.
`CHECK_DEADLOCK FALSE` is set because the last run ends.

### LogStream (`LogStream.tla`, `MCLogStream.tla`)

**State.** `child` (the `nerdctl logs -f` process), `pipe` (the unread lines
per stream), `pump` (where `stream_logs` is), `delivered` (the lines handed to
the callback) and `count`. A line is its global write position and whether
it is valid UTF-8.

**Actions.** `Spawn`, `ReadLine(s)` and `ReadEof(s)` are the `select!`
branches, in any order, because `select!` picks among ready branches at
random. The environment has `ChildWrites(s)` and `ChildExits`. There are
three lines at most, so both pipes can hold data when the child exits.

**Fairness.** Weak fairness on the pump, because the task is polled whenever a
branch is ready. The child gets none: a follower may run forever.

**Runs.**

- `log_stream` (pass): `PumpEndsAfterChildExits`, which says that once the child exits, `stream_logs` returns.
- `log_stream_loss` (violation): `NoLineLost`. The loop `break`s on the first end of file (line 284), so lines still buffered on the other pipe are dropped.
- `log_stream_bad_line` (violation): `PumpEndsWithFollower`. A line that is not valid UTF-8 makes `line?` (line 282) return from `stream_logs` while `nerdctl logs -f` keeps running, so every later line is lost.

`select!` delivers stdout and stderr lines in either order. Nothing reading two pipes can tell their relative order, so no property asks for it. Within one pipe the order is kept, because `next_line` is cancel safe.

### Agent (`Agent.tla`, `MCAgent.tla`)

**State.** `phase`, `tasks`, `exitCode`, `httpFailed` and `hung` (the
command `initialize` awaits never returns), plus the
Provisioner's variables through `Setup == INSTANCE Provisioner WITH MaxRuns <- 1`.

**Actions.**

- `LoadConfig` (exit 1 on failure)
- `SetupStep` (one Provisioner step)
- `StartAgent` (initialize has returned; its result is ignored; the three tasks are spawned)
- `HttpServerFails`
- `SetupCommandHangs` (a package manager, curl download or `systemctl start` that never returns; `run_command` has no timeout)
- `SelectReturns` (exit 0)
- `HostEnvironment` (the daemon's own actions)

The control channel task and the health loop never finish. The spec has the
channel reconnect forever, and the health loop has no exit.

**Fairness.** Weak fairness on `main`'s own steps: it is never starved while
the command it awaits returns. The HTTP failure and a hang get none.

**Runs.**

- `agent_setup_hang` (violation): `SetupNeverFatal` (`setup ~> running`). Spec 4.B says provisioning failures are not fatal and spec 5 gives external commands 30 s; `run_command` awaits `Command::output()` with no timeout, so a mirror that stops answering keeps the agent from ever starting its tasks.
- `agent_exit_code` (violation): `HttpFailureExitsWith2`. The spec's exit code 2 for a bind failure is never produced; the agent exits 0 (main.rs 82-88, 169-171).

### RuntimeAdapter (`RuntimeAdapter.tla`, `MCRuntimeAdapter.tla`)

**State.**

- `table` is nerdctl's container table. A container is `absent`, `created`, `running` or `exited`.
- `rules` is the firewall's rule set. A rule is a pair: a container and the address its port is opened for. The address is the container's own, `none` (inspect printed nothing) or `0.0.0.0`.
- `req` holds one record per request task: its operation, its target, where it is, whether its `nerdctl run` succeeded, the address inspect gave, and its reply.
- `stalled` says containerd is not answering.

**Actions.** One nerdctl invocation is one atomic step on the table. Its possible results are `RunOutcomes` and `CommandOutcomes`. `run` fails on a taken name; otherwise it may fail before creating the container, fail after creating it, or succeed.

- `Dispatch(t)` is the dispatcher spawning a task. It comes from the spec, because its source is absent.
- `create_container` is three steps, with an await between each: `CreateRun`, `CreateInspect` and `CreateFirewall`.
- `Command(t)` covers every other operation: start, stop, kill, remove, get_logs, list, stats, exec, send_input and container_exists. Each operation's effect on one container is its own operator (`CommandOutcomes`, `GetLogs`, `ListContainers`, `GetStats`, `Exec`, `SendInput`, `ContainerExists`). An exec'd command may stop the container. Output parsing is abstracted to success or failure: `list` fails on a non-zero exit or on a line that does not decode, and `stats` may fail on a container that exists.
- The environment has `RuntimeStalls` and `RuntimeRecovers`. While containerd stalls, every step that awaits nerdctl is blocked.

**Bounds.** There is one container name, so every request races every other. There are three request tasks, so a create can be overtaken by a remove and by another request at once. The tasks are symmetric. Only `runtime_adapter_wildcard` uses that symmetry. The `runtime_adapter` run checks a liveness property, and symmetry is not sound for liveness, so that run explores all 66,200 states.

**Fairness.** Each spawned task gets weak fairness, because tokio polls it once its child exits. Arrivals and containerd get none. `AnsweredOnceResponsive` assumes that containerd eventually keeps answering, and it states that assumption as the premise of an implication, not as fairness.

**Runs.**

- `runtime_adapter` (pass, about 66,200 states) checks two properties:
  - `CreateReplyFollowsRun`: spec 3 (iii) and 4.C say a create replies success exactly when `nerdctl run` succeeded, whatever inspect and `allow_port` did, and whatever other requests did to the container in between.
  - `AnsweredOnceResponsive`: if containerd eventually keeps answering, every request that was dispatched gets its reply. No create step waits for a state that another request can take away. Compare `runtime_adapter_timeout`, where containerd never answers again.
- `runtime_adapter_wildcard` (violation): `NoWildcardRule`. Suppose a remove runs between create's `run` and its `inspect`. Then inspect fails, and line 111 opens the port for `0.0.0.0`.
- `runtime_adapter_timeout` (violation): `EveryRequestAnswered`. The nerdctl calls have no timeout, so a request that is waiting while containerd stalls never gets a reply. The spec gives such calls 30 s.

### Telemetry (`Telemetry.tla`, `MCTelemetry.tla`)

**State.**

- `now` counts 30 s periods.
- `deadline` is the interval's next tick.
- `pc` is where the loop is.
- `rounds` counts the sampling rounds started.
- `lastHealth` is when the last health report went out.

**Actions.** `Tick`, `HealthReport` and `ResourceStats` are the loop's three awaits (lines 92-106). `Clock` advances time only while the task is blocked, either on its tick or inside `send_resource_stats`. Under tokio's default `MissedTickBehavior::Burst`, a tick advances the deadline by one period from the previous deadline, so missed ticks complete at once.

**Bounds.** Six periods. That is enough for a stats round to overrun two periods, and for the burst after it to catch up before the clock stops. At that bound the task waits for a tick that never comes, so the violation run sets `CHECK_DEADLOCK FALSE`.

**Fairness.** Weak fairness on `Tick` and `HealthReport`: tokio polls the task once its tick is due. Weak fairness on the clock: time passes. The stats round gets none, because its nerdctl calls have no timeout.

**Runs.**

- `telemetry_health` (violation): `HealthEveryPeriod`. The health report waits behind the previous round's nerdctl calls, which have no timeout. Spec 4.D describes two independent periodic tasks.

### Mutants

Every property of a passing run has a mutant in `PROJECT.json`. It is an
operator placed just before the action it replaces, with a comment that
starts "Variant:", and it models a plausible slip in that code:

- a dropped `?` in `ensure_container_runtime`
- a CNI write without its existence check
- the binary name returned instead of the family
- a loop that skips end of file
- a firewall error propagated with `?` in create
- inspect waiting for the container to be running

## 4. Not modelled, and why

- **Absent files.** Config parsing, logging setup, `FileManager` and the HTTP routes are either absent from the sources or return constant strings, and no property depends on them.
- **Control channel, dispatcher, log multiplexer, telemetry publishing.** Their code (`websocket_handler.rs`, `FirewallManager`) is not in the repository. A model of them would be the spec's own design checked against itself, so these components stay `not_modelled`. Where real code needs a caller or a callee, the model takes the spec's word for it and marks the definition `spec_modelled`: the request tasks the dispatcher spawns, and `allow_port` as a call that adds one rule or fails.
- **What is left of the sources.**
  - The unmapped lines are imports, struct and field declarations, `clone_refs`, logging setup and `spawn_log_stream`.
  - `spawn_log_stream` only hands a child process to the absent follower registry.
  - The host-network branch of create differs only in its command-line flags. Its inspect address is the same "no address" case that a stopped container already produces.
  - Rules that `remove_container` leaves in the firewall (line 206) are listed as a hazard without a property. The spec's Firewall Gate promises no close operation.
  - Modelling any of these further would check the spec against itself, or formatting the properties do not depend on.
- **Formatting.** Command-line assembly, JSON decoding and message wording are left out. A nerdctl call's output counts only as success or failure.
- **Time.** It is abstracted to the order of events. The 2 s sleep is the interleaving point between spawn and probe. In Telemetry, time is a count of 30 s periods.
