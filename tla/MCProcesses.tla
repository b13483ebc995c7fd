---------------------------- MODULE MCProcesses ----------------------------
(* The processes for TLC: the backend from its start to its end, and the   *)
(* launcher with the two children it starts, watches and stops. They share *)
(* no state: the first state says which of them runs.                      *)
EXTENDS ApplicationLifecycle, TLC

CONSTANTS StartupTimeout, MaxSignals

Off == "off"

VARIABLES
    part,           \* the component that runs
    processes, running, outcome, now, backendOk, opened, signals, alive,
    exited, asked, foreign, calm

\* What does not belong to the component has no value.
outsideApplication == <<processes, running, outcome, now, backendOk, opened,
                        signals, alive, exited, asked, foreign,
                        calm>>
outsideLauncher == <<configured, stage, owned, registered, pending, routing,
                     contexts, cached, conn, closings, credentials, served,
                     cut, cause, error>>

OnlyApplication ==
    /\ processes = Off /\ running = Off /\ outcome = Off /\ now = Off
    /\ backendOk = Off /\ opened = Off /\ signals = Off /\ alive = Off
    /\ exited = Off /\ asked = Off /\ foreign = Off
    /\ calm = Off
OnlyLauncher ==
    /\ configured = Off /\ stage = Off /\ owned = Off /\ registered = Off
    /\ pending = Off /\ routing = Off /\ contexts = Off /\ cached = Off
    /\ conn = Off /\ closings = Off /\ credentials = Off /\ served = Off
    /\ cut = Off /\ cause = Off /\ error = Off

Launch == INSTANCE Launcher

MCInit ==
    \/ part = "application" /\ Init /\ OnlyApplication
    \/ part = "launch" /\ Launch!Init /\ OnlyLauncher

MCNext ==
    \/ /\ part = "application" /\ Next
       /\ UNCHANGED <<part, outsideApplication>>
    \/ /\ part = "launch" /\ Launch!Next
       /\ UNCHANGED <<part, outsideLauncher>>

mcVars == <<part, configured, pc, stage, at, owned, registered, pending,
                  routing, contexts, cached, conn, closings, credentials,
                  serving, served, cut, cause, error, processes, running, outcome,
                  now, backendOk, opened, signals, alive, exited, asked,
                  foreign, calm>>
\* What the threads of the two programs do by themselves.
Starts ==
    \/ /\ part = "application" /\ Starting
       /\ UNCHANGED <<part, outsideApplication>>
    \/ /\ part = "launch" /\ Launch!Step
       /\ UNCHANGED <<part, outsideLauncher>>
Stops == /\ part = "application" /\ Ending
         /\ UNCHANGED <<part, outsideApplication>>

MCSpec ==
    MCInit /\ [][MCNext]_mcVars /\ WF_mcVars(Starts) /\ WF_mcVars(Stops)

-----------------------------------------------------------------------------
(* The values of each component are of the declared kinds.                 *)
MCTypeOK ==
    /\ part = "application" => TypeOK
    /\ part = "launch" => Launch!TypeOK

(* However the backend ends, wherever it is interrupted and although       *)
(* closes fail: close was called at most once on a connector, the last one *)
(* first; each step of the closing that no interrupt kept from its end     *)
(* closed all that was its; the error told is the first failure, with its  *)
(* stage, or the interrupt that came after it; requests find the services  *)
(* only while all is open; and a credential is left only by an interrupt   *)
(* of the last step, of the lifespan or of the cleanup of a failed start   *)
(* (ApplicationBootstrap.build, _close_application_resources, lifespan).   *)
ClosedInOrder ==
    part = "application" =>
        /\ AllClosed /\ ReverseOrder /\ FailureTold
        /\ ServedOpen /\ CredentialsGone

(* What run does to its two children and tells of them: neither is left    *)
(* when it ends, as long as no signal arrives in its two gaps; with        *)
(* signals at any moment it kills only after every child was asked to end, *)
(* it opens the browser only when both answered, and the end it reports is *)
(* true (LocalAppLauncher.run).                                            *)
RunTold ==
    /\ [](part = "launch" => Launch!StoppedAsOne /\ Launch!ExitTold)
    /\ [][part = "launch" =>
             Launch!AskedFirst /\ Launch!OpenedReady]_mcVars

(* The backend and the launcher have started or have given up at some      *)
(* time; what is closed or stopped has ended at some time, and an exit or  *)
(* a signal ends the launcher.                                             *)
Up ==
    \/ part = "application" /\ pc \in {"up"} \cup Finished
    \/ part = "launch" /\ pc \in {"monitor", "done"}
Closes ==
    \/ part = "application" /\ pc \in Closing
    \/ part = "launch" /\ (signals > 0 \/ exited # {})
Down ==
    \/ part = "application" /\ pc \in Finished
    \/ part = "launch" /\ pc = "done"
Ends == <>Up /\ (Closes ~> Down)

ASSUME MCAssumption ==
    LifecycleAssumption /\ Launch!LauncherAssumption

=============================================================================
