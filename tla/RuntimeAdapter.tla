---------------------------- MODULE RuntimeAdapter ----------------------------
(***************************************************************************)
(* ContainerdRuntime's lifecycle operations (src/aero-agent/src/           *)
(* runtime_manager.rs) run by concurrent request tasks, against nerdctl's  *)
(* container table and the host firewall.                                 *)
(*                                                                         *)
(* The dispatcher (websocket_handler.rs, not in the sources; spec 4.G)    *)
(* spawns one task per inbound request, so requests on the same container *)
(* interleave.  Each nerdctl invocation is atomic on the table; the agent  *)
(* awaits between them.  create_container is three awaited steps:          *)
(* `nerdctl run -d`, `nerdctl inspect` for the IP, then                    *)
(* FirewallManager::allow_port, whose failure is only logged.              *)
(*                                                                         *)
(* Addresses are abstracted to what the firewall rule is opened for: the   *)
(* container's own address, "" (inspect found no network address) or      *)
(* 0.0.0.0 (the fallback when inspect fails).                              *)
(***************************************************************************)
EXTENDS Naturals, FiniteSets

CONSTANTS
    Ids,        \* container names the backend uses
    Reqs        \* request tasks the dispatcher spawns over a run

ASSUME Ids # {} /\ Reqs # {}

Lifecycle == {"create", "start", "stop", "kill", "remove"}
\* Requests that only read the container (send_input does nothing yet).
Queries == {"logs", "list", "stats", "exec", "input", "exists"}
Ops == Lifecycle \cup Queries

\* nerdctl's view of a container.
States == {"absent", "created", "running", "exited"}

\* What a firewall rule is opened for.
Own == "own"
NoAddr == "none"
AnyAddr == "0.0.0.0"
Addrs == {Own, NoAddr, AnyAddr}

Steps == {"idle", "run", "inspect", "firewall", "done"}

VARIABLES
    table,      \* nerdctl's container table: Ids -> States
    rules,      \* firewall rules: pairs <<container, address>>
    req,        \* per request task: op, target, step, outcomes, reply
    stalled     \* containerd has stopped answering nerdctl

vars == <<table, rules, req, stalled>>

Request == [op : Ops, id : Ids, pc : Steps, runOk : BOOLEAN,
            addr : Addrs, reply : {"none", "ok", "err"}]

TypeOK ==
    /\ table \in [Ids -> States]
    /\ rules \subseteq Ids \X Addrs
    /\ req \in [Reqs -> Request]
    /\ stalled \in BOOLEAN

-----------------------------------------------------------------------------
(* nerdctl, one invocation at a time *)

\* `nerdctl run -d --name <id>`: a taken name fails; otherwise the image
\* pull may fail (nothing created), the start may fail after the container
\* is created, or the container runs.
RunOutcomes(s) ==
    IF s # "absent" THEN {[ok |-> FALSE, state |-> s]}
    ELSE {[ok |-> FALSE, state |-> "absent"],
          [ok |-> FALSE, state |-> "created"],
          [ok |-> TRUE,  state |-> "running"]}

\* `nerdctl start|stop -t|kill -s|rm -f <id>` on a container in state s.
CommandOutcomes(op, s) ==
    IF s = "absent" THEN {[ok |-> FALSE, state |-> s]}
    ELSE CASE op = "start"  -> {[ok |-> TRUE, state |-> "running"],
                                [ok |-> FALSE, state |-> s]}
           [] op = "stop"   -> {[ok |-> TRUE,
                                 state |-> IF s = "running" THEN "exited" ELSE s]}
           [] op = "kill"   -> IF s = "running"
                               THEN {[ok |-> TRUE, state |-> "exited"]}
                               ELSE {[ok |-> FALSE, state |-> s]}
           [] op = "remove" -> {[ok |-> TRUE, state |-> "absent"]}

\* get_logs (lines 223-247): `nerdctl logs [--tail n]` needs the container.
GetLogs(s) == {[ok |-> s # "absent", state |-> s]}

\* list_containers (lines 299-330): `nerdctl ps -a` names no container;
\* a non-zero exit (311-315) or a line that does not decode (325) fails.
ListContainers(s) == {[ok |-> b, state |-> s] : b \in BOOLEAN}

\* get_stats (lines 332-359): `nerdctl stats --no-stream` fails for a
\* missing container; otherwise it prints a sample, or nothing (353-355),
\* or a line that does not decode (357).
GetStats(s) ==
    IF s = "absent" THEN {[ok |-> FALSE, state |-> s]}
    ELSE {[ok |-> b, state |-> s] : b \in BOOLEAN}

\* exec (lines 361-388): `nerdctl exec` needs a running container; the
\* command's exit status is the reply, and the command may end the
\* container's main process.
Exec(s) ==
    IF s = "running"
    THEN {[ok |-> b, state |-> st] : b \in BOOLEAN, st \in {"running", "exited"}}
    ELSE {[ok |-> FALSE, state |-> s]}

\* send_input (lines 390-396): a placeholder that returns Ok.
SendInput(s) == {[ok |-> TRUE, state |-> s]}

\* container_exists (lines 420-434): inspect's exit status, never an
\* error; "ok" stands for true.
ContainerExists(s) == {[ok |-> s # "absent", state |-> s]}

\* The nerdctl call behind each request other than create.
Outcomes(op, s) ==
    CASE op = "logs"   -> GetLogs(s)
      [] op = "list"   -> ListContainers(s)
      [] op = "stats"  -> GetStats(s)
      [] op = "exec"   -> Exec(s)
      [] op = "input"  -> SendInput(s)
      [] op = "exists" -> ContainerExists(s)
      [] OTHER         -> CommandOutcomes(op, s)

\* get_container_ip (lines 399-418) and its use at lines 110-111: the
\* range over NetworkSettings.Networks prints the running container's
\* address and nothing for one without a network; a failed inspect (no
\* such container) becomes "0.0.0.0".
InspectAddr(s) ==
    CASE s = "absent"  -> AnyAddr
      [] s = "running" -> Own
      [] OTHER         -> NoAddr

-----------------------------------------------------------------------------
(* Request tasks *)

Set(t, f) == req' = [req EXCEPT ![t] = f]

\* The dispatcher decodes a request and spawns its task (spec 4.G).
Dispatch(t) ==
    /\ req[t].pc = "idle"
    /\ \E op \in Ops, c \in Ids :
         Set(t, [req[t] EXCEPT !.op = op, !.id = c, !.pc = "run"])
    /\ UNCHANGED <<table, rules, stalled>>

\* create_container lines 44-101: build and await `nerdctl run`; a
\* non-zero exit returns ContainerError.
CreateRun(t) ==
    LET c == req[t].id IN
    /\ req[t].pc = "run" /\ req[t].op = "create"
    /\ ~stalled
    /\ \E o \in RunOutcomes(table[c]) :
         /\ table' = [table EXCEPT ![c] = o.state]
         /\ IF o.ok
            THEN Set(t, [req[t] EXCEPT !.runOk = TRUE, !.pc = "inspect"])
            ELSE Set(t, [req[t] EXCEPT !.pc = "done", !.reply = "err"])
    /\ UNCHANGED <<rules, stalled>>

\* Variant: inspect waits for the container to be running before it asks
\* for its address.
CreateInspectWhenRunning(t) ==
    /\ req[t].pc = "inspect"
    /\ ~stalled
    /\ table[req[t].id] = "running"
    /\ Set(t, [req[t] EXCEPT !.addr = InspectAddr(table[req[t].id]),
                             !.pc = "firewall"])
    /\ UNCHANGED <<table, rules, stalled>>

\* create_container lines 103-111: trim the id, then inspect for the IP.
CreateInspect(t) ==
    /\ req[t].pc = "inspect"
    /\ ~stalled
    /\ Set(t, [req[t] EXCEPT !.addr = InspectAddr(table[req[t].id]),
                             !.pc = "firewall"])
    /\ UNCHANGED <<table, rules, stalled>>

\* Variant: the firewall error is propagated with `?`.
CreateFirewallFatal(t) ==
    /\ req[t].pc = "firewall"
    /\ \E allowed \in BOOLEAN :
         /\ rules' = IF allowed THEN rules \cup {<<req[t].id, req[t].addr>>}
                                ELSE rules
         /\ Set(t, [req[t] EXCEPT !.pc = "done",
                                  !.reply = IF allowed THEN "ok" ELSE "err"])
    /\ UNCHANGED <<table, stalled>>

\* create_container lines 113-123: allow_port(port, ip) may fail; the
\* error is logged and create returns the container id.
CreateFirewall(t) ==
    /\ req[t].pc = "firewall"
    /\ \E allowed \in BOOLEAN :
         rules' = IF allowed THEN rules \cup {<<req[t].id, req[t].addr>>}
                  ELSE rules
    /\ Set(t, [req[t] EXCEPT !.pc = "done", !.reply = "ok"])
    /\ UNCHANGED <<table, stalled>>

\* Every operation but create (lines 127-247, 299-396, 420-434): one
\* nerdctl invocation, its exit status is the reply.
Command(t) ==
    LET c == req[t].id IN
    /\ req[t].pc = "run" /\ req[t].op # "create"
    /\ ~stalled
    /\ \E o \in Outcomes(req[t].op, table[c]) :
         /\ table' = [table EXCEPT ![c] = o.state]
         /\ Set(t, [req[t] EXCEPT !.pc = "done",
                                  !.reply = IF o.ok THEN "ok" ELSE "err"])
    /\ UNCHANGED <<rules, stalled>>

-----------------------------------------------------------------------------
(* containerd *)

\* containerd stops answering: every nerdctl invocation blocks in output()
\* until it answers again.
RuntimeStalls ==
    /\ ~stalled
    /\ stalled' = TRUE
    /\ UNCHANGED <<table, rules, req>>

RuntimeRecovers ==
    /\ stalled
    /\ stalled' = FALSE
    /\ UNCHANGED <<table, rules, req>>

-----------------------------------------------------------------------------

Init ==
    /\ table = [c \in Ids |-> "absent"]
    /\ rules = {}
    /\ req = [t \in Reqs |-> [op |-> "create", id |-> CHOOSE c \in Ids : TRUE,
                              pc |-> "idle", runOk |-> FALSE, addr |-> NoAddr,
                              reply |-> "none"]]
    /\ stalled = FALSE

Task(t) == Dispatch(t) \/ CreateRun(t) \/ CreateInspect(t)
             \/ CreateFirewall(t) \/ Command(t)

Next == (\E t \in Reqs : Task(t)) \/ RuntimeStalls \/ RuntimeRecovers

\* Each spawned task is polled by the multi-threaded tokio runtime whenever
\* the child it awaits has exited; none is starved.  Requests arrive when
\* the backend sends them, and containerd answers when it does: neither
\* gets fairness.
Spec == Init /\ [][Next]_vars
             /\ \A t \in Reqs : WF_vars(Task(t) /\ req[t].pc # "idle")

-----------------------------------------------------------------------------
(* Properties *)

\* Spec 3 (iii) and 4.C: a firewall failure never rolls back or fails a
\* create.  A create replies success exactly when its `nerdctl run`
\* succeeded, whatever inspect and allow_port did afterwards.
CreateReplyFollowsRun ==
    \A t \in Reqs :
        (req[t].op = "create" /\ req[t].pc = "done")
            => (req[t].reply = "ok" <=> req[t].runOk)

\* Spec section 5: non-streaming subprocess commands time out after 30 s.
\* Every dispatched request is eventually answered, even by a timeout
\* error, whatever containerd does; the nerdctl calls (output().await at
\* lines 90-93, 130-136, 153-161, 178-186, 203-210, 400-408) are awaited
\* with no timeout.
EveryRequestAnswered ==
    \A t \in Reqs : (req[t].pc = "run") ~> (req[t].pc = "done")

\* Spec 3 (ii): every request is answered.  Provided containerd in the
\* end keeps answering, every dispatched request task gets its reply: no
\* step of create waits on a state another request may have taken away,
\* and no task waits on another.
AnsweredOnceResponsive ==
    (<>[]~stalled) =>
        \A t \in Reqs : (req[t].pc # "idle") ~> (req[t].pc = "done")

\* Lines 109-115: the firewall is configured for the created container's
\* IP.  No rule opens a container's port to every address.
NoWildcardRule ==
    \A r \in rules : r[2] # AnyAddr

=============================================================================
