------------------------------ MODULE Launcher ------------------------------
(***************************************************************************)
(* LocalAppLauncher.run (src/app/local/launcher.py, src/app/cli.py): the   *)
(* backend and the frontend are spawned, each leading a process group of   *)
(* its own, probed until both are ready, watched, and stopped as one unit. *)
(* A group is its leader, which the launcher polls and waits for, and its  *)
(* worker (npm starts the frontend server as a child).  A signal to the    *)
(* launcher raises KeyboardInterrupt wherever run is.                      *)
(***************************************************************************)
EXTENDS Naturals, Sequences, FiniteSets, SequencesExt

CONSTANTS
    StartupTimeout, \* bound: rounds before the start times out
    MaxSignals,     \* bound: Ctrl+C or SIGTERM, so many times
    None

LauncherAssumption ==
    /\ StartupTimeout \in Nat \ {0} /\ MaxSignals \in Nat
    /\ None \notin {"backend", "frontend", "interrupted", "escaped"}

Order == <<"backend", "frontend">>
Children == ToSet(Order)
Group == {"leader", "worker"}

VARIABLES
    pc,         \* where run is
    processes,  \* the local list of run
    at,         \* which process the loop of _stop_processes is at
    running,    \* the local list of _stop_processes
    outcome,    \* what run returns or raises
    now,        \* rounds since the start of _wait_until_ready
    backendOk,  \* answer of the last backend probe
    opened,     \* how often the browser was opened
    signals,    \* signals received so far
    alive,      \* processes of each group
    serving,    \* children that answer
    exited,     \* children whose leader ended by itself
    asked,      \* children sent SIGTERM
    foreign,    \* ports another program listens on
    calm        \* no signal arrives between spawn and append, nor while the
                \* processes are stopped, and leaders end with their workers

launcher == <<pc, processes, at, running, outcome, now, backendOk, opened,
              signals>>
setting == <<foreign, calm>>
world == <<alive, serving, exited, asked, setting>>
vars == <<launcher, world>>

Init ==
    /\ pc = "environment" /\ processes = <<>> /\ at = 1 /\ running = <<>>
    /\ outcome = None /\ now = 0 /\ backendOk = FALSE /\ opened = 0
    /\ signals = 0
    /\ alive = [c \in Children |-> {}] /\ serving = {} /\ exited = {}
    /\ asked = {} /\ foreign \in SUBSET Children
    /\ calm \in BOOLEAN

Alive(c) == "leader" \in alive[c]      \* poll() is None

-----------------------------------------------------------------------------
(* Start                                                                   *)

\* check_environment and ensure_local_directory, before the try block.
CheckEnvironment ==
    /\ pc = "environment"
    /\ \/ pc' = "backend" /\ UNCHANGED outcome
       \/ pc' = "done" /\ outcome' = "launch_error"
    /\ UNCHANGED <<processes, at, running, now, backendOk, opened, signals,
                   world>>

\* The exception or the result leads to _stop_processes in finally.
Finish(o) ==
    /\ outcome' = o /\ pc' = "stop"
    /\ at' = Len(processes) /\ running' = <<>>

\* _start_backend, _start_frontend: spawned, and not yet in processes.
Spawn(c) ==
    /\ pc = c
    /\ alive' = [alive EXCEPT ![c] = Group]
    /\ pc' = "append"
    /\ UNCHANGED <<processes, at, running, outcome, now, backendOk, opened,
                   signals, serving, exited, asked, setting>>

SpawnFails(c) ==
    /\ pc = c /\ Finish("launch_error")
    /\ UNCHANGED <<processes, now, backendOk, opened, signals, world>>

Appended ==
    /\ pc = "append"
    /\ processes' = Append(processes, Order[Len(processes) + 1])
    /\ pc' = IF processes = <<>> THEN "frontend" ELSE "poll"
    /\ UNCHANGED <<at, running, outcome, now, backendOk, opened, signals,
                   world>>

\* The first of processes, in order, that has exited.
FirstExited == SelectInSeq(processes, LAMBDA c : ~Alive(c))

\* _raise_if_exited
Poll ==
    /\ pc = "poll"
    /\ IF FirstExited # 0 THEN Finish(processes[FirstExited])
       ELSE pc' = "probe" /\ UNCHANGED <<outcome, at, running>>
    /\ UNCHANGED <<processes, now, backendOk, opened, signals, world>>

Answers(c) == c \in serving \cup foreign

\* _backend_ready; what listens there may not speak HTTP, which raises.
ProbeBackend ==
    /\ pc = "probe"
    /\ \/ /\ backendOk' = Answers("backend") /\ pc' = "probe_frontend"
          /\ UNCHANGED <<outcome, at, running>>
       \/ /\ "backend" \in foreign /\ Finish("raised") /\ UNCHANGED backendOk
    /\ UNCHANGED <<processes, now, opened, signals, world>>

\* Faulty variant: one answer is enough.
FaultyProbeEither ==
    /\ pc = "probe_frontend"
    /\ IF backendOk \/ Answers("frontend")
       THEN pc' = "open" /\ UNCHANGED <<now, outcome, at, running>>
       ELSE IF now >= StartupTimeout
       THEN Finish("launch_error") /\ UNCHANGED now
       ELSE pc' = "poll" /\ now' = now + 1 /\ UNCHANGED <<outcome, at, running>>
    /\ UNCHANGED <<processes, backendOk, opened, signals, world>>

\* Faulty variant: every round has a deadline of its own.
FaultyProbeAnew ==
    /\ pc = "probe_frontend"
    /\ IF backendOk /\ Answers("frontend") THEN pc' = "open" ELSE pc' = "poll"
    /\ UNCHANGED <<processes, backendOk, opened, signals, now, outcome, at,
                   running, world>>

\* _frontend_ready and the end of a round: ready, too late or once more.
ProbeFrontend ==
    /\ pc = "probe_frontend"
    /\ IF backendOk /\ Answers("frontend")
       THEN pc' = "open" /\ UNCHANGED <<now, outcome, at, running>>
       ELSE IF now >= StartupTimeout
       THEN Finish("launch_error") /\ UNCHANGED now
       ELSE pc' = "poll" /\ now' = now + 1 /\ UNCHANGED <<outcome, at, running>>
    /\ UNCHANGED <<processes, backendOk, opened, signals, world>>

\* The browser, unless --no-open; an OSError of it is taken for the backend's.
Open ==
    /\ pc = "open"
    /\ \/ /\ opened' \in {opened, opened + 1} /\ pc' = "monitor"
          /\ UNCHANGED <<outcome, at, running>>
       \/ Finish("launch_error") /\ UNCHANGED opened
    /\ UNCHANGED <<processes, now, backendOk, signals, world>>

\* Faulty variant: the exit code of the backend, whoever ended.
FaultyMonitor ==
    /\ pc = "monitor" /\ FirstExited # 0
    /\ Finish("backend")
    /\ UNCHANGED <<processes, now, backendOk, opened, signals, world>>

\* Faulty variant: only the backend is watched.
FaultyMonitorBackend ==
    /\ pc = "monitor" /\ FirstExited = 1
    /\ Finish(processes[FirstExited])
    /\ UNCHANGED <<processes, now, backendOk, opened, signals, world>>

\* _monitor
Monitor ==
    /\ pc = "monitor" /\ FirstExited # 0
    /\ Finish(processes[FirstExited])
    /\ UNCHANGED <<processes, now, backendOk, opened, signals, world>>

-----------------------------------------------------------------------------
(* Stop                                                                    *)

\* Faulty variant: in the order of the start, and only the first.
FaultyTerminate ==
    /\ pc = "stop"
    /\ IF at = 0 THEN pc' = "wait" /\ UNCHANGED <<at, running, asked>>
       ELSE /\ at' = 0 /\ pc' = pc
            /\ running' = Append(running, processes[at])
            /\ asked' = asked \cup {processes[at]}
    /\ UNCHANGED <<processes, outcome, now, backendOk, opened, signals, alive,
                   serving, exited, setting>>

\* Faulty variant: killed at once, without a request to end.
FaultyTerminateKills ==
    /\ pc = "stop"
    /\ IF at = 0 THEN pc' = "wait" /\ UNCHANGED <<at, running, alive>>
       ELSE LET c == processes[at]
            IN  /\ at' = at - 1 /\ pc' = pc
                /\ running' = Append(running, c)
                /\ alive' = [alive EXCEPT ![c] = {}]
    /\ UNCHANGED <<processes, outcome, now, backendOk, opened, signals,
                   serving, exited, asked, setting>>

\* SIGTERM to the group of every process that is still there, last first.
Terminate ==
    /\ pc = "stop"
    /\ IF at = 0 THEN pc' = "wait" /\ UNCHANGED <<at, running, asked>>
       ELSE LET c == processes[at]
            IN  /\ at' = at - 1 /\ pc' = pc
                /\ running' = IF Alive(c) THEN Append(running, c) ELSE running
                /\ asked' = IF Alive(c) THEN asked \cup {c} ELSE asked
    /\ UNCHANGED <<processes, outcome, now, backendOk, opened, signals, alive,
                   serving, exited, setting>>

\* wait(timeout) of the first of running: it has ended.
Waited ==
    /\ pc = "wait" /\ running # <<>> /\ ~Alive(Head(running))
    /\ running' = Tail(running)
    /\ UNCHANGED <<pc, processes, at, outcome, now, backendOk, opened, signals,
                   world>>

\* Or it has not: SIGKILL to its group, and wait.
Kill ==
    /\ pc = "wait" /\ running # <<>> /\ Alive(Head(running))
    /\ alive' = [alive EXCEPT ![Head(running)] = {}]
    /\ serving' = serving \ {Head(running)}
    /\ running' = Tail(running)
    /\ UNCHANGED <<pc, processes, at, outcome, now, backendOk, opened, signals,
                   exited, asked, setting>>

Done ==
    /\ pc = "wait" /\ running = <<>> /\ pc' = "done"
    /\ UNCHANGED <<processes, at, running, outcome, now, backendOk, opened,
                   signals, world>>

\* SIGINT, or SIGTERM through the handler.  While the processes are stopped
\* nothing catches the KeyboardInterrupt.
Signal ==
    /\ signals < MaxSignals /\ pc \notin {"environment", "done"}
    /\ calm => pc \notin {"append", "stop", "wait"}
    /\ signals' = signals + 1
    /\ IF pc \in {"stop", "wait"}
       THEN pc' = "done" /\ outcome' = "escaped" /\ UNCHANGED <<at, running>>
       ELSE Finish("interrupted")
    /\ UNCHANGED <<processes, now, backendOk, opened, world>>

-----------------------------------------------------------------------------
(* The children                                                            *)

Serve(c) ==
    /\ "worker" \in alive[c] /\ c \notin foreign
    /\ c \notin serving /\ serving' = serving \cup {c}
    /\ UNCHANGED <<launcher, alive, exited, asked, setting>>

\* A leader ends, by itself or when it was asked, alone or with its worker.
Exit(c) ==
    /\ Alive(c)
    /\ \/ /\ alive' = [alive EXCEPT ![c] = {}]
          /\ serving' = serving \ {c}
       \/ /\ ~calm /\ alive' = [alive EXCEPT ![c] = @ \ {"leader"}]
          /\ UNCHANGED serving
    /\ exited' = IF c \in asked THEN exited ELSE exited \cup {c}
    /\ UNCHANGED <<launcher, asked, setting>>

Step ==
    \/ CheckEnvironment \/ Appended \/ Poll \/ ProbeBackend \/ ProbeFrontend
    \/ Open \/ Monitor \/ Terminate \/ Waited \/ Kill \/ Done
    \/ \E c \in Children : Spawn(c) \/ SpawnFails(c)

Next == Step \/ Signal \/ \E c \in Children : Serve(c) \/ Exit(c)

Spec == Init /\ [][Next]_vars
-----------------------------------------------------------------------------
(* Properties                                                              *)

TypeOK ==
    /\ pc \in {"environment", "backend", "frontend", "append", "poll", "probe",
               "probe_frontend", "open", "monitor", "stop", "wait", "done"}
    /\ IsPrefix(processes, Order) /\ at \in 0 .. 2
    /\ ToSet(running) \subseteq Children
    /\ outcome \in Children \cup {None, "launch_error", "raised",
                                  "interrupted", "escaped"}
    /\ now \in 0 .. StartupTimeout /\ backendOk \in BOOLEAN
    /\ opened \in 0 .. 1 /\ signals \in 0 .. MaxSignals
    /\ alive \in [Children -> SUBSET Group]
    /\ serving \subseteq Children /\ exited \subseteq Children
    /\ asked \subseteq Children /\ foreign \subseteq Children
    /\ calm \in BOOLEAN

\* The two processes are stopped as one unit (docs/superpowers/specs/
\* 2026-08-04-local-delivery-phase6-design.md:28): however run ends, neither of
\* those it spawned is left, unless a signal arrives in one of its two gaps.
StoppedAsOne == calm /\ pc = "done" => \A c \in Children : ~Alive(c)

\* A process is killed (the step that takes it from running ends its group)
\* only when every process has been asked to end or ended by itself.
AskedFirst ==
    alive' # alive /\ running' # running =>
        ToSet(processes) \subseteq asked \cup exited

\* The run ends with the exit of a child only if that child ended by itself;
\* an interrupt is told only when there was a signal.  When a child that was
\* ready ended and nobody interrupted, the run does not end as a success.
ExitTold ==
    /\ outcome \in Children => outcome \in exited
    /\ outcome \in {"interrupted", "escaped"} => signals > 0
    /\ pc = "done" /\ exited # {} /\ signals = 0
         => outcome \in Children \cup {"launch_error", "raised"}

\* The browser is opened when both services answer; a child that has ended
\* meanwhile, or a foreign program on its port, is why it may not be ours.
OpenedReady ==
    opened' > opened =>
        \A c \in Children : c \in foreign \/ c \in serving \/ c \in exited

=============================================================================
