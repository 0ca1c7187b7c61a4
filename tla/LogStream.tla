------------------------------ MODULE LogStream ------------------------------
(***************************************************************************)
(* ContainerdRuntime::stream_logs (src/aero-agent/src/runtime_manager.rs,  *)
(* lines 250-297): spawn `nerdctl logs -f <id>` with both pipes captured,  *)
(* wrap each in a line reader, then loop on tokio::select! over the two    *)
(* next_line() futures, handing every line to the callback.               *)
(*                                                                         *)
(* select! polls the ready branches in random order, so a step of the     *)
(* pump is any ready branch: a buffered line, end of file on a pipe the    *)
(* child has closed, or a read error.  Lines::next_line is cancel safe:    *)
(* losing the race loses no data.  A line is a number (its place in what   *)
(* the child wrote) and whether it is valid UTF-8; next_line returns an    *)
(* error for a line that is not.                                           *)
(***************************************************************************)
EXTENDS Naturals, Sequences

CONSTANTS
    MaxLines    \* lines the child writes over the whole run

ASSUME MaxLines \in Nat \ {0}

Streams == {"stdout", "stderr"}
Line == [n : 1..MaxLines, utf8 : BOOLEAN]

VARIABLES
    child,      \* the `nerdctl logs -f` process: "none", "running", "exited"
    pipe,       \* per stream, the lines written and not yet read
    pump,       \* stream_logs: "spawning", "reading", "ok" or "err"
    delivered,  \* lines handed to the callback, in order
    count       \* lines the child has written to either pipe

vars == <<child, pipe, pump, delivered, count>>

TypeOK ==
    /\ child \in {"none", "running", "exited"}
    /\ pipe \in [Streams -> Seq(Line)]
    /\ pump \in {"spawning", "reading", "ok", "err"}
    /\ delivered \in Seq(Line)
    /\ count \in 0..MaxLines

\* A pipe is at end of file once the child has exited and the buffered
\* lines are read.
AtEof(s) == child = "exited" /\ pipe[s] = <<>>

-----------------------------------------------------------------------------

\* Lines 256-277: Command::spawn()? either starts the child with both pipes
\* or returns the error.
Spawn ==
    /\ pump = "spawning"
    /\ \/ child' = "running" /\ pump' = "reading"
       \/ pump' = "err" /\ UNCHANGED child
    /\ UNCHANGED <<pipe, delivered, count>>

\* One select! branch yielding a line (lines 281-285, 287-291): a valid
\* line goes to the callback and the loop continues; `line?` returns the
\* decoding error from stream_logs.
ReadLine(s) ==
    /\ pump = "reading"
    /\ pipe[s] # <<>>
    /\ pipe' = [pipe EXCEPT ![s] = Tail(@)]
    /\ IF Head(pipe[s]).utf8
       THEN delivered' = Append(delivered, Head(pipe[s])) /\ UNCHANGED pump
       ELSE pump' = "err" /\ UNCHANGED delivered
    /\ UNCHANGED <<child, count>>

\* Variant: end of file on one pipe is skipped instead of ending the loop.
ReadEofSkip(s) ==
    /\ pump = "reading"
    /\ AtEof(s)
    /\ UNCHANGED vars

\* One select! branch yielding None (lines 284, 290): `break` ends the
\* loop at the first end of file, whatever the other pipe still holds,
\* and stream_logs returns Ok (line 296).
ReadEof(s) ==
    /\ pump = "reading"
    /\ AtEof(s)
    /\ pump' = "ok"
    /\ UNCHANGED <<child, pipe, delivered, count>>

-----------------------------------------------------------------------------
(* The child *)

\* The container prints a line, which `nerdctl logs -f` copies to the
\* matching pipe.
ChildWrites(s) ==
    /\ child = "running"
    /\ count < MaxLines
    /\ count' = count + 1
    /\ \E ok \in BOOLEAN :
         pipe' = [pipe EXCEPT ![s] = Append(@, [n |-> count + 1, utf8 |-> ok])]
    /\ UNCHANGED <<child, pump, delivered>>

\* The container stops and `nerdctl logs -f` exits, closing both pipes.
ChildExits ==
    /\ child = "running"
    /\ child' = "exited"
    /\ UNCHANGED <<pipe, pump, delivered, count>>

-----------------------------------------------------------------------------

Init ==
    /\ child = "none"
    /\ pipe = [s \in Streams |-> <<>>]
    /\ pump = "spawning"
    /\ delivered = <<>>
    /\ count = 0

Pump == Spawn \/ \E s \in Streams : ReadLine(s) \/ ReadEof(s)

Child == \E s \in Streams : ChildWrites(s) \/ ChildExits

Next == Pump \/ Child

\* The pump task is polled whenever one of its futures is ready: weak
\* fairness.  The child may run for ever, so it gets none.
Spec == Init /\ [][Next]_vars /\ WF_vars(Pump)

-----------------------------------------------------------------------------
(* Properties *)

\* Once `nerdctl logs -f` has exited, stream_logs eventually returns: the
\* select! loop ends at end of file and does not spin on a closed pipe.
PumpEndsAfterChildExits ==
    (child = "exited") ~> (pump \in {"ok", "err"})

\* Spec 4.E: the pump emits one line per line the follower prints.  When
\* stream_logs returns Ok, every line the child wrote to either pipe has
\* been handed to the callback.
NoLineLost ==
    pump = "ok" => pipe["stdout"] = <<>> /\ pipe["stderr"] = <<>>

\* Spec 4.E: a follower's pump ends when the follower does (child exit,
\* log.stop or teardown), and emits one log.line per line meanwhile.
\* stream_logs never returns while `nerdctl logs -f` is still running.
PumpEndsWithFollower ==
    pump \in {"ok", "err"} => child # "running"

=============================================================================
