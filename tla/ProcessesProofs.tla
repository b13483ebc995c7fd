--------------------------- MODULE ProcessesProofs ---------------------------
(***************************************************************************)
(* The two processes of the local application, proved of MCProcesses for   *)
(* every StartupTimeout, MaxSignals, MaxSources and every set of ids,      *)
(* profiles and configurations: what the launcher does to its two children *)
(* (src/app/local/launcher.py), and in which order the backend closes what *)
(* its bootstrap opened (bootstrap.py, application.py in src/app/api).     *)
(*                                                                         *)
(* Launcher.  RunInv is inductive: RunTyped is its type; Placed says which *)
(* children are in the list at each line of run; Told what became of them, *)
(* of which the child that was started and not yet put in the list counts  *)
(* as one (Ours); Probed what the last probe saw; Stopped, which holds     *)
(* while no signal came in one of the two gaps, that whoever lives is      *)
(* still to be stopped.                                                    *)
(*                                                                         *)
(* Backend.  LifeInv is inductive: Sized says that each of the lists of    *)
(* the build has the first datasources in order, and how many; Kept what   *)
(* is open; StepsDone what each step of the closing has done, unless an    *)
(* interrupt kept it from its end; Turned that the connectors of the       *)
(* configuration are closed from the last one down, so that those closed   *)
(* so far are k + 1 .. n; Caused which failure is told.                    *)
(***************************************************************************)
EXTENDS MCProcesses, SequenceTheorems, TLAPS

(***************************************************************************)
(* The launcher                                                            *)
(***************************************************************************)
Both == {"backend", "frontend"}

Stopping == {"stop", "wait", "done"}
Lives(c) == "leader" \in alive[c]
Listed == ToSet(processes)
(* Also the child that was spawned and is not yet in the list.             *)
Ours ==
    IF pc # "append" THEN Listed
    ELSE Listed \cup {IF processes = <<>> THEN "backend" ELSE "frontend"}

(* TypeOK, said of the two children.                                       *)
RunTyped ==
    /\ pc \in {"environment", "backend", "frontend", "append", "poll",
               "probe", "probe_frontend", "open", "monitor", "stop", "wait",
               "done"}
    /\ processes \in {<<>>, <<"backend">>, <<"backend", "frontend">>}
    /\ at \in 0 .. 2 /\ running \in Seq(Both)
    /\ outcome \in Both \cup {None, "launch_error", "raised", "interrupted",
                             "escaped"}
    /\ now \in 0 .. StartupTimeout /\ backendOk \in BOOLEAN
    /\ opened \in 0 .. 1 /\ signals \in 0 .. MaxSignals
    /\ alive \in [Both -> SUBSET {"leader", "worker"}]
    /\ serving \subseteq Both /\ exited \subseteq Both /\ asked \subseteq Both
    /\ foreign \subseteq Both /\ calm \in BOOLEAN

(* Which children run knows of, by where it is.                            *)
Placed ==
    /\ pc \in {"environment", "backend"} => processes = <<>>
    /\ pc = "frontend" => processes = <<"backend">>
    /\ pc = "append" => processes # <<"backend", "frontend">>
    /\ pc \in {"poll", "probe", "probe_frontend", "open", "monitor"} =>
           processes = <<"backend", "frontend">>
    /\ pc \notin {"monitor"} \cup Stopping => opened = 0
    /\ pc \in {"stop", "wait"} => at <= Len(processes)

(* What became of them, and what is told of it.                            *)
Told ==
    /\ pc \notin Stopping => asked = {} /\ outcome = None
    /\ pc \in Stopping => outcome \in Both \cup {"launch_error", "raised",
                                              "interrupted", "escaped"}
    /\ outcome \in Both => outcome \in exited
    /\ outcome \in {"interrupted", "escaped"} => signals > 0
    /\ ToSet(running) \subseteq asked
    /\ \A c \in Ours : Lives(c) \/ c \in exited \cup asked
    /\ pc = "stop" => \A i \in at + 1 .. Len(processes) :
           processes[i] \in asked \cup exited
    /\ pc = "wait" => Listed \subseteq asked \cup exited

Reached(c) == c \in foreign \/ c \in serving \/ c \in exited
Probed ==
    /\ pc = "probe_frontend" /\ backendOk => Reached("backend")
    /\ pc = "open" => \A c \in Both : Reached(c)

(* When it is calm, whoever lives is still to be stopped.                  *)
Stopped == calm =>
    /\ \A c \in Both : Lives(c) => c \in Ours
    /\ pc = "stop" => \A i \in at + 1 .. Len(processes) :
           Lives(processes[i]) => processes[i] \in ToSet(running)
    /\ pc = "wait" => \A c \in Both : Lives(c) => c \in ToSet(running)
    /\ pc = "done" => \A c \in Both : ~Lives(c)

RunInv == RunTyped /\ Placed /\ Told /\ Probed /\ Stopped

LEMMA BothAre == Launch!Children = Both
  BY DEF Launch!Children, Launch!Order, Launch!ToSet, Both

LEMMA SetsAre == \A s : Launch!ToSet(s) = ToSet(s)
  BY DEF Launch!ToSet, ToSet

LEMMA ListsAre ==
    /\ ToSet(<<>>) = {} /\ ToSet(<<"backend">>) = {"backend"}
    /\ ToSet(<<"backend", "frontend">>) = Both
  BY DEF ToSet, Both

LEMMA TailIs ==
    ASSUME NEW S, NEW s \in Seq(S), s # <<>>
    PROVE  /\ Tail(s) \in Seq(S) /\ Head(s) \in S
           /\ ToSet(s) = {Head(s)} \cup ToSet(Tail(s))
<1>1. Tail(s) \in Seq(S) /\ Head(s) \in S /\ Len(s) \in Nat \ {0}
      /\ Len(Tail(s)) = Len(s) - 1
  OBVIOUS
<1>2. \A i \in 1 .. Len(s) - 1 : Tail(s)[i] = s[i + 1]
  OBVIOUS
<1>3. Head(s) = s[1] /\ DOMAIN s = 1 .. Len(s)
      /\ DOMAIN Tail(s) = 1 .. Len(s) - 1
  BY <1>1
<1>4. ASSUME NEW i \in 1 .. Len(s), i # 1
      PROVE  \E j \in 1 .. Len(s) - 1 : s[i] = Tail(s)[j]
  <2>1. i - 1 \in 1 .. Len(s) - 1 /\ (i - 1) + 1 = i
    BY <1>1, <1>4
  <2> QED
    BY <2>1, <1>2
<1>5. ASSUME NEW i \in 1 .. Len(s) - 1
      PROVE  i + 1 \in 1 .. Len(s) /\ Tail(s)[i] = s[i + 1]
  BY <1>1, <1>2
<1>6. ToSet(s) \subseteq {Head(s)} \cup ToSet(Tail(s))
  <2> SUFFICES ASSUME NEW x \in ToSet(s), x # Head(s)
               PROVE  x \in ToSet(Tail(s))
    OBVIOUS
  <2>1. PICK i \in 1 .. Len(s) : x = s[i]
    BY <1>3 DEF ToSet
  <2>2. \E j \in 1 .. Len(s) - 1 : x = Tail(s)[j]
    BY <2>1, <1>3, <1>4
  <2> QED
    BY <2>2, <1>3 DEF ToSet
<1>7. ToSet(Tail(s)) \subseteq ToSet(s)
  BY <1>3, <1>5 DEF ToSet
<1>8. Head(s) \in ToSet(s)
  BY <1>1, <1>3 DEF ToSet
<1> QED
  BY <1>1, <1>6, <1>7, <1>8

LEMMA AppendIs ==
    ASSUME NEW S, NEW s \in Seq(S), NEW x \in S
    PROVE  /\ Append(s, x) \in Seq(S)
           /\ ToSet(Append(s, x)) = ToSet(s) \cup {x}
<1>1. /\ Append(s, x) \in Seq(S) /\ Len(s) \in Nat
      /\ Len(Append(s, x)) = Len(s) + 1
      /\ Append(s, x)[Len(s) + 1] = x
      /\ \A i \in 1 .. Len(s) : Append(s, x)[i] = s[i]
  OBVIOUS
<1>2. DOMAIN s = 1 .. Len(s) /\ DOMAIN Append(s, x) = 1 .. Len(s) + 1
  BY <1>1
<1>3. \A i \in 1 .. Len(s) + 1 : i = Len(s) + 1 \/ i \in 1 .. Len(s)
  BY <1>1
<1>4. Len(s) + 1 \in 1 .. Len(s) + 1
      /\ \A i \in 1 .. Len(s) : i \in 1 .. Len(s) + 1
  BY <1>1
<1> QED
  BY <1>1, <1>2, <1>3, <1>4 DEF ToSet

LEMMA FirstIs ==
    ASSUME processes \in {<<>>, <<"backend">>,
                                   <<"backend", "frontend">>},
           Launch!FirstExited # 0
    PROVE  /\ Launch!FirstExited \in 1 .. Len(processes)
           /\ processes[Launch!FirstExited] \in Listed
           /\ ~Lives(processes[Launch!FirstExited])
<1> DEFINE I == {i \in 1 .. Len(processes) : ~Launch!Alive(processes[i])}
<1>1. Launch!FirstExited = IF I # {} THEN Launch!Min(I) ELSE 0
  BY DEF Launch!FirstExited, Launch!SelectInSeq
<1>2. I # {} /\ I \subseteq 1 .. 2
  BY <1>1
<1>3. \E x \in I : \A y \in I : x =< y
  <2>1. CASE 1 \in I
    BY <2>1, <1>2
  <2>2. CASE 1 \notin I
    <3>1. I = {2}
      BY <2>2, <1>2
    <3> QED
      BY <3>1
  <2> QED
    BY <2>1, <2>2
<1>4. Launch!Min(I) \in I
  BY <1>3 DEF Launch!Min
<1>5. DOMAIN processes = 1 .. Len(processes)
  OBVIOUS
<1>6. Launch!FirstExited \in I
  BY <1>1, <1>2, <1>4
<1> QED
  BY <1>5, <1>6 DEF Listed, ToSet, Launch!Alive, Lives

LEMMA RunTypedIs == RunTyped => Launch!TypeOK
<1> SUFFICES ASSUME RunTyped PROVE Launch!TypeOK
  OBVIOUS
<1>1. Launch!IsPrefix(processes, Launch!Order)
  <2>1. CASE processes = <<>>
    BY <2>1 DEF Launch!IsPrefix, Launch!Order
  <2>2. CASE processes = <<"backend">>
    BY <2>2 DEF Launch!IsPrefix, Launch!Order
  <2>3. CASE processes = <<"backend", "frontend">>
    BY <2>3 DEF Launch!IsPrefix, Launch!Order
  <2> QED
    BY <2>1, <2>2, <2>3 DEF RunTyped
<1>2. Launch!ToSet(running) \subseteq Both
  BY SetsAre DEF RunTyped, ToSet
<1> QED
  BY <1>1, <1>2, BothAre DEF RunTyped, Launch!TypeOK, Launch!Group

LEMMA AppendedIs ==
    ASSUME RunTyped, Placed, Launch!Appended
    PROVE  processes' = IF processes = <<>> THEN <<"backend">>
                        ELSE <<"backend", "frontend">>
<1>1. CASE processes = <<>>
  <2>1. processes' = Append(<<>>, Launch!Order[1])
    BY <1>1 DEF Launch!Appended
  <2> QED
    BY <2>1, <1>1 DEF Launch!Order
<1>2. CASE processes = <<"backend">>
  <2>1. processes' = Append(<<"backend">>, Launch!Order[2])
    BY <1>2 DEF Launch!Appended
  <2>2. Launch!Order[2] = "frontend"
    BY DEF Launch!Order
  <2>3. Append(<<"backend">>, "frontend") = <<"backend", "frontend">>
    <3> DEFINE s == Append(<<"backend">>, "frontend")
               t == <<"backend", "frontend">>
    <3>1. s \in Seq(Both) /\ t \in Seq(Both)
      BY AppendIs DEF Both
    <3>2. Len(s) = 2 /\ Len(t) = 2
      OBVIOUS
    <3>3. s[1] = t[1] /\ s[2] = t[2]
      OBVIOUS
    <3> HIDE DEF s, t
    <3>4. \A i \in 1 .. Len(s) : i = 1 \/ i = 2
      BY <3>2
    <3>5. s = t
      BY <3>1, <3>2, <3>3, <3>4, SeqEqual
    <3> QED
      BY <3>5 DEF s, t
  <2> QED
    BY <2>1, <2>2, <2>3, <1>2
<1> QED
  BY <1>1, <1>2 DEF RunTyped, Placed, Launch!Appended

(* The lists there are.                                                    *)
LEMMA ListIs ==
    ASSUME RunTyped
    PROVE  /\ Len(processes) \in 0 .. 2 /\ Listed \subseteq Both
           /\ \A i \in 1 .. Len(processes) : processes[i] \in Listed
           /\ \A c \in Listed : \E i \in 1 .. Len(processes) :
                  c = processes[i]
           /\ processes = <<>> <=> Len(processes) = 0
           /\ processes = <<>> => Listed = {}
           /\ processes = <<"backend">> => Listed = {"backend"}
           /\ processes = <<"backend", "frontend">> => Listed = Both
           /\ <<>> \in Seq(Both)
<1>1. CASE processes = <<>>
  BY <1>1 DEF Listed, ToSet, Both
<1>2. CASE processes = <<"backend">>
  BY <1>2 DEF Listed, ToSet, Both
<1>3. CASE processes = <<"backend", "frontend">>
  BY <1>3 DEF Listed, ToSet, Both
<1> QED
  BY <1>1, <1>2, <1>3 DEF RunTyped

(* Whatever ends the run, the stop begins with the last of the list.       *)
LEMMA FinishIs ==
    ASSUME RunTyped
    PROVE  \A o : Launch!Finish(o) =>
               /\ outcome' = o /\ pc' = "stop" /\ at' = Len(processes)
               /\ at' \in 0 .. 2 /\ running' = <<>>
               /\ running' \in Seq(Both) /\ ToSet(running') = {}
  BY ListIs, ListsAre DEF Launch!Finish

LEMMA RunTypes ==
    ASSUME Launch!LauncherAssumption, RunInv, Launch!Next
    PROVE  RunTyped'
<1>a. RunTyped /\ Placed
  BY DEF RunInv
<1>b. Launch!Children = Both /\ <<>> \in Seq(Both)
  BY <1>a, BothAre, ListIs
<1>c. \A o : Launch!Finish(o) =>
          /\ outcome' = o /\ pc' = "stop" /\ at' = Len(processes)
          /\ at' \in 0 .. 2 /\ running' = <<>> /\ running' \in Seq(Both)
  BY <1>a, FinishIs
<1> USE <1>a, <1>c DEF RunTyped, Placed, Both, Stopping,
        Launch!LauncherAssumption, Launch!launcher, Launch!world,
        Launch!setting, Launch!Group
<1>1. CASE Launch!CheckEnvironment
  BY <1>1 DEF Launch!CheckEnvironment
<1>2. CASE Launch!Appended
  BY <1>2, AppendedIs DEF Launch!Appended
<1>3. CASE Launch!Poll
  <2>1. CASE Launch!FirstExited # 0
    <3>1. processes[Launch!FirstExited] \in Both
      BY <2>1, FirstIs, ListIs
    <3> QED
      BY <1>3, <2>1, <3>1 DEF Launch!Poll
  <2>2. CASE Launch!FirstExited = 0
    BY <1>3, <2>2 DEF Launch!Poll
  <2> QED
    BY <2>1, <2>2
<1>4. CASE Launch!ProbeBackend
  <2>1. Launch!Answers("backend") \in BOOLEAN
    BY DEF Launch!Answers
  <2> QED
    BY <1>4, <2>1 DEF Launch!ProbeBackend
<1>5. CASE Launch!ProbeFrontend
  BY <1>5 DEF Launch!ProbeFrontend
<1>6. CASE Launch!Open
  BY <1>6 DEF Launch!Open
<1>7. CASE Launch!Monitor
  <2>1. processes[Launch!FirstExited] \in Both
    BY <1>7, FirstIs, ListIs DEF Launch!Monitor
  <2> QED
    BY <1>7, <2>1 DEF Launch!Monitor
<1>8. CASE Launch!Terminate
  <2>1. CASE at = 0
    BY <1>8, <2>1 DEF Launch!Terminate
  <2>2. CASE at # 0
    <3>1. at \in 1 .. Len(processes) /\ at - 1 \in 0 .. 2
      BY <1>8, <2>2, ListIs DEF Launch!Terminate
    <3>2. processes[at] \in Both
      BY <3>1, ListIs
    <3>3. Append(running, processes[at]) \in Seq(Both)
      BY <3>2, AppendIs
    <3> QED
      BY <1>8, <2>2, <3>1, <3>2, <3>3 DEF Launch!Terminate
  <2> QED
    BY <2>1, <2>2
<1>9. CASE Launch!Waited
  BY <1>9, TailIs DEF Launch!Waited
<1>10. CASE Launch!Kill
  BY <1>10, TailIs DEF Launch!Kill
<1>11. CASE Launch!Done
  BY <1>11 DEF Launch!Done
<1>12. CASE Launch!Signal
  BY <1>12 DEF Launch!Signal
<1>13. ASSUME NEW c \in Both, Launch!Spawn(c) PROVE RunTyped'
  BY <1>13 DEF Launch!Spawn
<1>14. ASSUME NEW c \in Both, Launch!SpawnFails(c) PROVE RunTyped'
  BY <1>14 DEF Launch!SpawnFails
<1>15. ASSUME NEW c \in Both, Launch!Serve(c) PROVE RunTyped'
  BY <1>15 DEF Launch!Serve
<1>16. ASSUME NEW c \in Both, Launch!Exit(c) PROVE RunTyped'
  <2>1. alive' \in [Both -> SUBSET {"leader", "worker"}]
    BY <1>16 DEF Launch!Exit
  <2>2. serving' \subseteq Both /\ exited' \subseteq Both
    BY <1>16 DEF Launch!Exit
  <2>3. UNCHANGED <<Launch!launcher, asked, foreign, calm>>
    BY <1>16 DEF Launch!Exit
  <2> QED
    BY <2>1, <2>2, <2>3
<1> HIDE DEF RunTyped, Placed
<1>17. \A c \in Launch!Children :
           Launch!Spawn(c) \/ Launch!SpawnFails(c) \/ Launch!Serve(c)
               \/ Launch!Exit(c) => RunTyped'
  BY <1>b, <1>13, <1>14, <1>15, <1>16
<1> QED
  BY <1>1, <1>2, <1>3, <1>4, <1>5, <1>6, <1>7, <1>8, <1>9, <1>10, <1>11,
     <1>12, <1>17 DEF Launch!Next, Launch!Step

(* Once both children are there a step changes where run is, or ends it.   *)
LEMMA PlacedStays ==
    ASSUME RunTyped, Placed, processes' = processes, opened' = opened,
           pc \in {"poll", "probe", "probe_frontend"},
           \/ pc' \in {"poll", "probe", "probe_frontend", "open", "monitor"}
           \/ pc' = "stop" /\ at' = Len(processes)
    PROVE  Placed'
<1>1. processes = <<"backend", "frontend">> /\ opened = 0
  BY DEF Placed, Stopping
<1>2. Len(processes) = 2
  BY <1>1
<1>3. CASE pc' \in {"poll", "probe", "probe_frontend", "open", "monitor"}
  BY <1>1, <1>3 DEF Placed, Stopping
<1>4. CASE pc' = "stop" /\ at' = Len(processes)
  BY <1>1, <1>2, <1>4 DEF Placed, Stopping
<1> QED
  BY <1>3, <1>4

(* The stop begins with the last of the list.                              *)
LEMMA PlacedStops ==
    ASSUME pc' = "stop", at' = Len(processes), processes' = processes,
           Len(processes) \in 0 .. 2
    PROVE  Placed'
  BY DEF Placed, Stopping

LEMMA RunPlaces ==
    ASSUME Launch!LauncherAssumption, RunInv, Launch!Next
    PROVE  Placed'
<1>a. RunTyped /\ Placed /\ Told /\ Probed /\ Stopped
  BY DEF RunInv
<1>b. Launch!Children = Both /\ ToSet(<<>>) = {}
  BY BothAre, ListsAre
<1>c. \A o : Launch!Finish(o) =>
          /\ outcome' = o /\ pc' = "stop" /\ at' = Len(processes)
          /\ running' = <<>>
  BY DEF Launch!Finish
<1>d. Len(processes) \in 0 .. 2 /\ Listed \subseteq Both
  BY <1>a, ListIs
<1> USE <1>a, <1>b, <1>c, <1>d
    DEF Placed, RunTyped, Both, Stopping, Launch!launcher, Launch!world,
            Launch!setting
<1>1. CASE Launch!CheckEnvironment
  BY <1>1 DEF Launch!CheckEnvironment
<1>2. CASE Launch!Appended
  BY <1>2, AppendedIs DEF Launch!Appended
<1>3. CASE Launch!Poll
  BY <1>3 DEF Launch!Poll
<1>4. CASE Launch!ProbeBackend
  <2>1. pc = "probe" /\ UNCHANGED <<processes, opened>>
    BY <1>4 DEF Launch!ProbeBackend
  <2>2. pc' = "probe_frontend" \/ Launch!Finish("raised")
    BY <1>4 DEF Launch!ProbeBackend
  <2> HIDE DEF Placed, RunTyped, Both, Stopping
  <2> QED
    BY <2>1, <2>2, PlacedStays
<1>5. CASE Launch!ProbeFrontend
  <2>1. pc' \in {"open", "poll"} \/ Launch!Finish("launch_error")
    BY <1>5 DEF Launch!ProbeFrontend
  <2>2. UNCHANGED <<processes, opened>> /\ pc = "probe_frontend"
    BY <1>5 DEF Launch!ProbeFrontend
  <2> HIDE DEF Placed, RunTyped, Both, Stopping
  <2> QED
    BY <2>1, <2>2, PlacedStays
<1>6. CASE Launch!Open
  BY <1>6 DEF Launch!Open
<1>7. CASE Launch!Monitor
  <2>1. Launch!Finish(processes[Launch!FirstExited])
    BY <1>7 DEF Launch!Monitor
  <2>2. processes' = processes
    BY <1>7 DEF Launch!Monitor
  <2> HIDE DEF Placed, RunTyped, Both, Stopping
  <2> QED
    BY <2>1, <2>2, PlacedStops
<1>8. CASE Launch!Terminate
  <2>1. CASE at = 0
    BY <1>8, <2>1 DEF Launch!Terminate
  <2>2. CASE at # 0
    BY <1>8, <2>2 DEF Launch!Terminate
  <2> QED
    BY <2>1, <2>2
<1>9. CASE Launch!Waited
  BY <1>9 DEF Launch!Waited
<1>10. CASE Launch!Kill
  BY <1>10 DEF Launch!Kill
<1>11. CASE Launch!Done
  BY <1>11 DEF Launch!Done
<1>12. CASE Launch!Signal
  BY <1>12 DEF Launch!Signal
<1>13. ASSUME NEW c \in Both, Launch!Spawn(c)
       PROVE  Placed'
  <2>1. pc = c /\ pc' = "append" /\ UNCHANGED <<processes, opened>>
    BY <1>13 DEF Launch!Spawn
  <2>2. processes # <<"backend", "frontend">> /\ opened = 0
    BY <2>1
  <2> QED
    BY <2>1, <2>2
<1>14. ASSUME NEW c \in Both, Launch!SpawnFails(c)
       PROVE  Placed'
  BY <1>14 DEF Launch!SpawnFails
<1>15. ASSUME NEW c \in Both, Launch!Serve(c)
       PROVE  Placed'
  BY <1>15 DEF Launch!Serve
<1>16. ASSUME NEW c \in Both, Launch!Exit(c)
       PROVE  Placed'
  BY <1>16 DEF Launch!Exit
<1> HIDE DEF RunTyped, Placed, Told, Probed, Stopped
<1>17. \A c \in Launch!Children :
           Launch!Spawn(c) \/ Launch!SpawnFails(c) \/ Launch!Serve(c)
               \/ Launch!Exit(c) => Placed'
  BY <1>13, <1>14, <1>15, <1>16
<1> QED
  BY <1>1, <1>2, <1>3, <1>4, <1>5, <1>6, <1>7, <1>8, <1>9, <1>10, <1>11,
     <1>12, <1>17 DEF Launch!Next, Launch!Step

LEMMA RunProbes ==
    ASSUME Launch!LauncherAssumption, RunInv, Launch!Next
    PROVE  Probed'
<1>a. RunTyped /\ Placed /\ Told /\ Probed /\ Stopped
  BY DEF RunInv
<1>b. Launch!Children = Both /\ ToSet(<<>>) = {}
  BY BothAre, ListsAre
<1>c. \A o : Launch!Finish(o) =>
          /\ outcome' = o /\ pc' = "stop" /\ at' = Len(processes)
          /\ running' = <<>>
  BY DEF Launch!Finish
<1>d. Len(processes) \in 0 .. 2 /\ Listed \subseteq Both
  BY <1>a, ListIs
<1> USE <1>a, <1>b, <1>c, <1>d
    DEF Probed, Told, Placed, RunTyped, Both, Stopping, Reached,
            Launch!Answers, Launch!launcher, Launch!world, Launch!setting
<1>1. CASE Launch!CheckEnvironment
  BY <1>1 DEF Launch!CheckEnvironment
<1>2. CASE Launch!Appended
  BY <1>2 DEF Launch!Appended
<1>3. CASE Launch!Poll
  BY <1>3 DEF Launch!Poll
<1>4. CASE Launch!ProbeBackend
  <2>1. \/ pc' = "probe_frontend" /\ backendOk' = Launch!Answers("backend")
        \/ Launch!Finish("raised")
    BY <1>4 DEF Launch!ProbeBackend
  <2>2. UNCHANGED <<foreign, serving, exited>>
    BY <1>4 DEF Launch!ProbeBackend
  <2>3. backendOk' /\ pc' = "probe_frontend" => Reached("backend")
    BY <2>1
  <2> QED
    BY <2>2, <2>3, <2>1
<1>5. CASE Launch!ProbeFrontend
  BY <1>5 DEF Launch!ProbeFrontend
<1>6. CASE Launch!Open
  BY <1>6 DEF Launch!Open
<1>7. CASE Launch!Monitor
  BY <1>7 DEF Launch!Monitor
<1>8. CASE Launch!Terminate
  BY <1>8 DEF Launch!Terminate
<1>9. CASE Launch!Waited
  BY <1>9 DEF Launch!Waited
<1>10. CASE Launch!Kill
  BY <1>10 DEF Launch!Kill
<1>11. CASE Launch!Done
  BY <1>11 DEF Launch!Done
<1>12. CASE Launch!Signal
  BY <1>12 DEF Launch!Signal
<1>13. ASSUME NEW c \in Both, Launch!Spawn(c)
       PROVE  Probed'
  BY <1>13 DEF Launch!Spawn
<1>14. ASSUME NEW c \in Both, Launch!SpawnFails(c)
       PROVE  Probed'
  BY <1>14 DEF Launch!SpawnFails
<1>15. ASSUME NEW c \in Both, Launch!Serve(c)
       PROVE  Probed'
  BY <1>15 DEF Launch!Serve
<1>16. ASSUME NEW c \in Both, Launch!Exit(c)
       PROVE  Probed'
  BY <1>16 DEF Launch!Exit
<1> HIDE DEF RunTyped, Placed, Told, Probed, Stopped
<1>17. \A c \in Launch!Children :
           Launch!Spawn(c) \/ Launch!SpawnFails(c) \/ Launch!Serve(c)
               \/ Launch!Exit(c) => Probed'
  BY <1>13, <1>14, <1>15, <1>16
<1> QED
  BY <1>1, <1>2, <1>3, <1>4, <1>5, <1>6, <1>7, <1>8, <1>9, <1>10, <1>11,
     <1>12, <1>17 DEF Launch!Next, Launch!Step
-----------------------------------------------------------------------------
(* A step that only moves run on, before it ends.                          *)
GoesOn ==
    /\ pc \notin Stopping /\ pc' \notin Stopping /\ Ours' = Ours
    /\ UNCHANGED <<alive, exited, asked, signals, outcome, running, calm>>

(* A step with which the stop begins, and why.                             *)
Ended(o) ==
    /\ pc \notin Stopping /\ pc' = "stop" /\ outcome' = o
    /\ at' = Len(processes) /\ ToSet(running') = {}
    /\ Listed' = Listed /\ Ours' = Listed /\ Listed \subseteq Ours
    /\ calm => Ours = Listed
    /\ \/ o \in exited \cup {"launch_error", "raised"} /\ UNCHANGED signals
       \/ o = "interrupted" /\ signals' > 0
    /\ UNCHANGED <<processes, alive, exited, asked, calm>>

(* A signal while the processes are stopped.                               *)
Escapes ==
    /\ ~calm /\ pc' = "done" /\ outcome' = "escaped" /\ signals' > 0
    /\ UNCHANGED <<processes, running, alive, exited, asked, calm>>

LEMMA AppendGoes == RunTyped /\ Placed /\ Launch!Appended => GoesOn
<1> SUFFICES ASSUME RunTyped, Placed, Launch!Appended PROVE GoesOn
  OBVIOUS
<1>1. CASE processes = <<>>
  BY <1>1, AppendedIs, ListsAre DEF Launch!Appended, Launch!world,
     Launch!setting, Ours, Listed, Both, GoesOn, Stopping
<1>2. CASE processes = <<"backend">>
  BY <1>2, AppendedIs, ListsAre DEF Launch!Appended, Launch!world,
     Launch!setting, Ours, Listed, Both, GoesOn, Stopping
<1> QED
  BY <1>1, <1>2 DEF Launch!Appended, RunTyped, Placed

LEMMA FinishEnds ==
    ASSUME RunTyped, NEW o, Launch!Finish(o), pc \notin Stopping,
           calm => pc # "append",
           \/ o \in exited \cup {"launch_error", "raised"} /\ UNCHANGED signals
           \/ o = "interrupted" /\ signals' > 0,
           UNCHANGED <<processes, alive, exited, asked, calm>>
    PROVE  Ended(o)
<1>1. /\ pc' = "stop" /\ at' = Len(processes) /\ outcome' = o
      /\ ToSet(running') = {}
  BY FinishIs
<1>2. Listed' = Listed /\ Ours' = Listed /\ Listed \subseteq Ours
  BY <1>1 DEF Ours, Listed
<1>3. calm => Ours = Listed
  BY DEF Ours
<1> QED
  BY <1>1, <1>2, <1>3 DEF Ended

LEMMA StaysGoes ==
    ASSUME pc \notin Stopping \cup {"append"},
           pc' \notin Stopping \cup {"append"},
           UNCHANGED <<processes, alive, exited, asked, signals, outcome,
                       running, calm>>
    PROVE  GoesOn
  BY DEF GoesOn, Ours, Listed

(* Who is found to have exited has, as nobody was asked to yet.            *)
LEMMA FirstExits ==
    ASSUME RunInv, pc \notin Stopping \cup {"append"}, Launch!FirstExited # 0
    PROVE  processes[Launch!FirstExited] \in exited
<1>1. RunTyped /\ Told
  BY DEF RunInv
<1>2. /\ processes[Launch!FirstExited] \in Ours
      /\ ~Lives(processes[Launch!FirstExited])
  BY <1>1, FirstIs DEF RunTyped, Ours
<1> QED
  BY <1>1, <1>2 DEF Told

LEMMA StepIs ==
    ASSUME RunInv, Launch!LauncherAssumption, Launch!Next
    PROVE  \/ GoesOn \/ Launch!CheckEnvironment \/ Launch!Terminate
           \/ Launch!Waited \/ Launch!Kill \/ Launch!Done \/ Escapes
           \/ \E o : Ended(o)
           \/ \E c \in Both :
                  Launch!Spawn(c) \/ Launch!Serve(c) \/ Launch!Exit(c)
<1>a. RunTyped /\ Placed /\ Told
  BY DEF RunInv
<1>b. Launch!Children = Both
  BY BothAre
<1> USE <1>a DEF Launch!world, Launch!setting
<1>1. CASE Launch!Appended
  BY <1>1, AppendGoes
<1>2. ASSUME Launch!Poll \/ Launch!Monitor
      PROVE  GoesOn \/ \E o : Ended(o)
  <2>1. /\ pc \in {"poll", "monitor"}
        /\ UNCHANGED <<processes, signals, Launch!world>>
    BY <1>2 DEF Launch!Poll, Launch!Monitor
  <2>2. CASE Launch!FirstExited # 0
    <3>1. Launch!Finish(processes[Launch!FirstExited])
      BY <1>2, <2>2 DEF Launch!Poll, Launch!Monitor
    <3>2. processes[Launch!FirstExited] \in exited
      BY <2>1, <2>2, FirstExits DEF Stopping
    <3> QED
      BY <2>1, <3>1, <3>2, FinishEnds DEF Stopping
  <2>3. CASE Launch!FirstExited = 0
    <3>1. pc' = "probe" /\ UNCHANGED <<outcome, running>>
      BY <1>2, <2>3 DEF Launch!Poll, Launch!Monitor
    <3> QED
      BY <2>1, <3>1, StaysGoes DEF Stopping
  <2> QED
    BY <2>2, <2>3
<1>3. ASSUME Launch!ProbeBackend \/ Launch!ProbeFrontend \/ Launch!Open
      PROVE  GoesOn \/ \E o : Ended(o)
  <2>1. /\ pc \in {"probe", "probe_frontend", "open"}
        /\ UNCHANGED <<processes, signals, Launch!world>>
    BY <1>3 DEF Launch!ProbeBackend, Launch!ProbeFrontend, Launch!Open
  <2>2. \/ Launch!Finish("raised") \/ Launch!Finish("launch_error")
        \/ /\ pc' \in {"probe_frontend", "poll", "open", "monitor"}
           /\ UNCHANGED <<outcome, running>>
    BY <1>3 DEF Launch!ProbeBackend, Launch!ProbeFrontend, Launch!Open
  <2>3. ASSUME NEW o \in {"raised", "launch_error"}, Launch!Finish(o)
        PROVE  Ended(o)
    BY <2>1, <2>3, FinishEnds DEF Stopping
  <2>4. CASE /\ pc' \in {"probe_frontend", "poll", "open", "monitor"}
             /\ UNCHANGED <<outcome, running>>
    BY <2>1, <2>4, StaysGoes DEF Stopping
  <2> QED
    BY <2>2, <2>3, <2>4
<1>4. ASSUME Launch!Signal
      PROVE  Escapes \/ \E o : Ended(o)
  <2>1. /\ signals' > 0 /\ UNCHANGED <<processes, Launch!world>>
        /\ pc # "done"
        /\ calm => pc \notin {"append", "stop", "wait"}
    BY <1>4 DEF Launch!Signal, RunTyped
  <2>2. CASE pc \in {"stop", "wait"}
    BY <1>4, <2>1, <2>2 DEF Launch!Signal, Escapes
  <2>3. CASE pc \notin {"stop", "wait"}
    <3>1. Launch!Finish("interrupted")
      BY <1>4, <2>3 DEF Launch!Signal
    <3> QED
      BY <2>1, <2>3, <3>1, FinishEnds DEF Stopping
  <2> QED
    BY <2>2, <2>3
<1>5. ASSUME NEW c \in Both, Launch!SpawnFails(c)
      PROVE  Ended("launch_error")
  <2>1. pc \in Both /\ Launch!Finish("launch_error")
        /\ UNCHANGED <<processes, signals, Launch!world>>
    BY <1>5 DEF Launch!SpawnFails
  <2> QED
    BY <2>1, FinishEnds DEF Both, Stopping
<1> QED
  BY <1>1, <1>2, <1>3, <1>4, <1>5, <1>b DEF Launch!Next, Launch!Step

LEMMA RunTells ==
    ASSUME Launch!LauncherAssumption, RunInv, Launch!Next
    PROVE  Told'
<1>a. RunTyped /\ Placed /\ Told /\ Stopped /\ RunTyped'
  BY RunTypes DEF RunInv
<1>b. /\ Len(processes) \in 0 .. 2 /\ Listed \subseteq Both
      /\ \A i \in 1 .. Len(processes) : processes[i] \in Listed
      /\ \A c \in Listed : \E i \in 1 .. Len(processes) : c = processes[i]
  BY <1>a, ListIs
<1> DEFINE Outcomes == Both \cup {"launch_error", "raised", "interrupted",
                                  "escaped"}
<1>c. None \notin Both \cup {"interrupted", "escaped"}
  BY DEF Launch!LauncherAssumption, Both
<1>1. CASE GoesOn
  BY <1>a, <1>1, <1>c DEF GoesOn, Told, Lives, Stopping
<1>2. CASE Launch!CheckEnvironment
  <2>1. Listed' = Listed /\ Ours = {} /\ Ours' = {} /\ Listed = {}
    BY <1>a, <1>2, ListIs DEF Launch!CheckEnvironment, Ours, Placed, Listed
  <2> QED
    BY <1>a, <1>2, <1>c, <2>1 DEF Launch!CheckEnvironment, Told, Lives,
       Stopping, Launch!world, Both
<1>3. CASE Launch!Terminate
  <2>1. pc = "stop" /\ Ours = Listed /\ Ours' = Listed /\ Listed' = Listed
        /\ UNCHANGED <<processes, outcome, alive, exited, signals>>
        /\ pc' \in {"stop", "wait"} /\ asked \subseteq asked'
    BY <1>3 DEF Launch!Terminate, Ours, Listed, Launch!Alive
  <2>2. ToSet(running') \subseteq asked'
    <3>1. CASE at = 0 \/ ~Launch!Alive(processes[at])
      BY <1>a, <1>3, <3>1 DEF Launch!Terminate, Told
    <3>2. CASE at # 0 /\ Launch!Alive(processes[at])
      <4>1. processes[at] \in Both
        BY <1>a, <1>b, <3>2, <2>1 DEF Placed, RunTyped
      <4>2. /\ running' = Append(running, processes[at])
            /\ asked' = asked \cup {processes[at]}
        BY <1>3, <3>2 DEF Launch!Terminate
      <4>3. running \in Seq(Both) /\ ToSet(running) \subseteq asked
        BY <1>a DEF RunTyped, Told
      <4>4. ToSet(running') = ToSet(running) \cup {processes[at]}
        BY <4>1, <4>2, <4>3, AppendIs
      <4> QED
        BY <4>2, <4>3, <4>4
    <3> QED
      BY <3>1, <3>2
  <2>3. pc' = "stop" => \A i \in at' + 1 .. Len(processes) :
            processes[i] \in asked' \cup exited
    <3> SUFFICES ASSUME pc' = "stop", NEW i \in at' + 1 .. Len(processes)
                 PROVE  processes[i] \in asked' \cup exited
      OBVIOUS
    <3>1. at # 0 /\ at' = at - 1 /\ at \in 1 .. Len(processes)
      BY <1>a, <1>3, <2>1 DEF Launch!Terminate, Placed, RunTyped
    <3>2. CASE i = at
      <4>1. processes[at] \in Ours
        BY <1>b, <2>1, <3>1
      <4> QED
        BY <1>a, <1>3, <3>1, <3>2, <4>1
           DEF Launch!Terminate, Launch!Alive, Told, Lives
    <3>3. CASE i # at
      <4>1. i \in at + 1 .. Len(processes)
        BY <1>b, <3>1, <3>3
      <4> QED
        BY <1>a, <2>1, <4>1 DEF Told
    <3> QED
      BY <3>2, <3>3
  <2>4. pc' = "wait" => Listed \subseteq asked' \cup exited
    <3> SUFFICES ASSUME pc' = "wait", NEW c \in Listed
                 PROVE  c \in asked' \cup exited
      OBVIOUS
    <3>1. at = 0
      BY <1>3, <2>1 DEF Launch!Terminate
    <3>2. PICK i \in 1 .. Len(processes) : c = processes[i]
      BY <1>b
    <3> QED
      BY <1>a, <2>1, <3>1, <3>2 DEF Told
  <2> QED
    BY <1>a, <2>1, <2>2, <2>3, <2>4 DEF Told, Lives, Stopping
<1>4. CASE Launch!Waited \/ Launch!Kill
  <2>1. /\ pc = "wait" /\ pc' = "wait" /\ running # <<>>
        /\ running' = Tail(running)
        /\ UNCHANGED <<processes, outcome, exited, asked, signals>>
    BY <1>4 DEF Launch!Waited, Launch!Kill, Launch!world
  <2>2. ToSet(running') \subseteq ToSet(running)
    BY <1>a, <2>1, TailIs DEF RunTyped
  <2>3. Ours' = Listed /\ Ours = Listed /\ Listed' = Listed
    BY <2>1 DEF Ours, Listed
  <2> QED
    BY <1>a, <2>1, <2>2, <2>3 DEF Told, Stopping
<1>5. CASE Launch!Done
  <2>1. Ours' = Listed /\ Ours = Listed /\ Listed' = Listed
        /\ UNCHANGED <<processes, running, outcome, exited, asked, signals,
                       alive>> /\ pc = "wait" /\ pc' = "done"
    BY <1>5 DEF Launch!Done, Ours, Listed, Launch!world
  <2> QED
    BY <1>a, <2>1 DEF Told, Stopping, Lives
<1>6. CASE Escapes
  <2>1. Ours' = Listed /\ Listed \subseteq Ours
    BY <1>6 DEF Escapes, Ours, Listed
  <2> QED
    BY <1>a, <1>6, <2>1 DEF Escapes, Told, Stopping, Lives, Both
<1>7. ASSUME NEW o, Ended(o) PROVE Told'
  <2>1. o \in Outcomes
    BY <1>a, <1>7 DEF Ended, RunTyped
  <2>2. o \in Both => o \in exited
    BY <1>7 DEF Ended, Both
  <2>3. o \in {"interrupted", "escaped"} => signals' > 0
    BY <1>a, <1>7 DEF Ended, RunTyped, Both
  <2>4. \A i \in at' + 1 .. Len(processes) : FALSE
    BY <1>7, <1>b DEF Ended
  <2> QED
    BY <1>a, <1>7, <2>1, <2>2, <2>3, <2>4 DEF Ended, Told, Stopping, Lives
<1>8. ASSUME NEW c \in Both, Launch!Spawn(c) PROVE Told'
  <2>1. pc = c /\ pc' = "append" /\ Ours = Listed /\ Listed' = Listed
        /\ alive' = [alive EXCEPT ![c] = Launch!Group]
        /\ UNCHANGED <<processes, outcome, exited, asked, signals, running>>
    BY <1>8 DEF Launch!Spawn, Ours, Listed, Both
  <2>2. Ours' = Listed \cup {c}
    BY <1>a, <2>1 DEF Ours, Listed, Placed, Both
  <2>3. \A d \in Both : Lives(d)' <=> Lives(d) \/ d = c
    BY <1>a, <2>1 DEF Lives, RunTyped, Launch!Group
  <2> QED
    BY <1>a, <1>b, <2>1, <2>2, <2>3 DEF Told, Stopping, Both
<1>9. ASSUME NEW c \in Both, Launch!Serve(c) PROVE Told'
  BY <1>a, <1>9 DEF Launch!Serve, Launch!launcher, Told, Lives, Ours, Listed
<1>10. ASSUME NEW c \in Both, Launch!Exit(c) PROVE Told'
  <2>1. /\ UNCHANGED <<pc, processes, at, running, outcome, signals, asked>>
        /\ exited' = IF c \in asked THEN exited ELSE exited \cup {c}
        /\ \A d \in Both \ {c} : Lives(d)' <=> Lives(d)
    BY <1>a, <1>10
       DEF Launch!Exit, Launch!launcher, RunTyped, Lives, Both
  <2>2. Ours' = Ours /\ Listed' = Listed /\ Ours \subseteq Both
    BY <1>b, <2>1 DEF Ours, Listed, Both
  <2> QED
    BY <1>a, <2>1, <2>2 DEF Told
<1> HIDE DEF Outcomes
<1> QED
  BY <1>1, <1>2, <1>3, <1>4, <1>5, <1>6, <1>7, <1>8, <1>9, <1>10, StepIs

LEMMA RunStops ==
    ASSUME Launch!LauncherAssumption, RunInv, Launch!Next
    PROVE  Stopped'
<1> SUFFICES ASSUME calm' PROVE Stopped'
  BY DEF Stopped
<1>a. RunTyped /\ Placed /\ Told /\ Stopped /\ RunTyped'
  BY RunTypes DEF RunInv
<1>b. /\ Len(processes) \in 0 .. 2 /\ Listed \subseteq Both
      /\ \A i \in 1 .. Len(processes) : processes[i] \in Listed
      /\ \A c \in Listed : \E i \in 1 .. Len(processes) : c = processes[i]
  BY <1>a, ListIs
<1>1. CASE GoesOn
  BY <1>a, <1>1 DEF GoesOn, Stopped, Lives, Stopping
<1>2. CASE Launch!CheckEnvironment
  <2>1. Ours = {} /\ Ours' = {}
    BY <1>a, <1>2, ListIs DEF Launch!CheckEnvironment, Ours, Placed, Listed
  <2> QED
    BY <1>a, <1>2, <2>1 DEF Launch!CheckEnvironment, Stopped, Lives,
       Launch!world, Launch!setting
<1>3. CASE Launch!Terminate
  <2>1. pc = "stop" /\ Ours = Listed /\ Ours' = Listed
        /\ UNCHANGED <<processes, alive>> /\ pc' \in {"stop", "wait"} /\ calm
        /\ at \in 0 .. Len(processes)
    BY <1>a, <1>3 DEF Launch!Terminate, Ours, Listed, Launch!Alive,
       Launch!setting, Placed, RunTyped
  <2>2. CASE at = 0
    <3>1. pc' = "wait" /\ running' = running
      BY <1>3, <2>2 DEF Launch!Terminate
    <3>2. \A c \in Both : Lives(c) => c \in ToSet(running)
      <4> SUFFICES ASSUME NEW c \in Both, Lives(c) PROVE c \in ToSet(running)
        OBVIOUS
      <4>1. PICK i \in 1 .. Len(processes) : c = processes[i]
        BY <1>a, <1>b, <2>1 DEF Stopped
      <4> QED
        BY <1>a, <2>1, <2>2, <4>1 DEF Stopped
    <3> QED
      BY <1>a, <2>1, <3>1, <3>2 DEF Stopped, Lives
  <2>3. CASE at # 0
    <3> DEFINE c == processes[at]
    <3>1. c \in Both /\ pc' = "stop" /\ at' = at - 1
          /\ running' = IF Lives(c) THEN Append(running, c) ELSE running
      BY <1>b, <1>3, <2>1, <2>3 DEF Launch!Terminate, Launch!Alive, Lives
    <3>2. /\ ToSet(running) \subseteq ToSet(running')
          /\ Lives(c) => c \in ToSet(running')
      <4>1. CASE Lives(c)
        BY <1>a, <3>1, <4>1, AppendIs DEF RunTyped
      <4>2. CASE ~Lives(c)
        BY <3>1, <4>2
      <4> QED
        BY <4>1, <4>2
    <3>3. \A i \in at' + 1 .. Len(processes) :
              i = at \/ i \in at + 1 .. Len(processes)
      BY <1>b, <2>1, <2>3, <3>1
    <3> QED
      BY <1>a, <2>1, <3>1, <3>2, <3>3 DEF Stopped, Lives
  <2> QED
    BY <2>2, <2>3
<1>4. CASE Launch!Waited \/ Launch!Kill
  <2>1. /\ pc = "wait" /\ pc' = "wait" /\ running # <<>>
        /\ running' = Tail(running) /\ processes' = processes /\ calm
    BY <1>4 DEF Launch!Waited, Launch!Kill, Launch!world, Launch!setting
  <2>2. PICK h \in Both : /\ h = Head(running)
                          /\ ToSet(running) = {h} \cup ToSet(running')
    BY <1>a, <2>1, TailIs DEF RunTyped
  <2>3. /\ "leader" \notin alive'[h]
        /\ \A c \in Both : "leader" \in alive'[c] => Lives(c)
    <3>1. CASE Launch!Waited
      BY <2>2, <3>1 DEF Launch!Waited, Launch!world, Launch!Alive, Lives
    <3>2. CASE Launch!Kill
      BY <1>a, <2>2, <3>2 DEF Launch!Kill, Lives, RunTyped
    <3> QED
      BY <1>4, <3>1, <3>2
  <2>4. Ours' = Ours
    BY <2>1 DEF Ours, Listed
  <2> QED
    BY <1>a, <2>1, <2>2, <2>3, <2>4 DEF Stopped, Lives
<1>5. CASE Launch!Done
  <2>1. /\ pc = "wait" /\ pc' = "done" /\ running = <<>> /\ calm
        /\ UNCHANGED <<processes, alive>> /\ ToSet(running) = {}
    BY <1>5, ListsAre DEF Launch!Done, Launch!world, Launch!setting
  <2> QED
    BY <1>a, <2>1 DEF Stopped, Lives
<1>6. CASE Escapes
  BY <1>6 DEF Escapes
<1>7. ASSUME NEW o, Ended(o) PROVE Stopped'
  <2>1. \A i \in at' + 1 .. Len(processes) : FALSE
    BY <1>7, <1>b DEF Ended
  <2> QED
    BY <1>a, <1>7, <2>1 DEF Ended, Stopped, Lives
<1>8. ASSUME NEW c \in Both, Launch!Spawn(c) PROVE Stopped'
  <2>1. pc = c /\ pc' = "append" /\ Ours = Listed /\ calm
        /\ alive' = [alive EXCEPT ![c] = Launch!Group]
        /\ processes' = processes
    BY <1>8 DEF Launch!Spawn, Ours, Both, Launch!setting
  <2>2. Ours' = Listed \cup {c}
    BY <1>a, <2>1 DEF Ours, Listed, Placed, Both
  <2>3. \A d \in Both : Lives(d)' => Lives(d) \/ d = c
    BY <1>a, <2>1 DEF Lives, RunTyped, Launch!Group
  <2> QED
    BY <1>a, <2>1, <2>2, <2>3 DEF Stopped
<1>9. ASSUME NEW c \in Both, Launch!Serve(c) PROVE Stopped'
  BY <1>a, <1>9 DEF Launch!Serve, Launch!launcher, Launch!setting, Stopped,
     Lives, Ours, Listed
<1>10. ASSUME NEW c \in Both, Launch!Exit(c) PROVE Stopped'
  <2>1. /\ UNCHANGED <<pc, processes, at, running, calm>>
        /\ \A d \in Both : "leader" \in alive'[d] => "leader" \in alive[d]
    BY <1>a, <1>10
       DEF Launch!Exit, Launch!launcher, Launch!setting, RunTyped, Both
  <2>2. Ours' = Ours
    BY <2>1 DEF Ours, Listed
  <2>3. \A i \in at + 1 .. Len(processes) : processes[i] \in Both
    BY <1>a, <1>b DEF RunTyped
  <2> QED
    BY <1>a, <2>1, <2>2, <2>3 DEF Stopped, Lives
<1> QED
  BY <1>1, <1>2, <1>3, <1>4, <1>5, <1>6, <1>7, <1>8, <1>9, <1>10, StepIs

LEMMA RunKeeps ==
    ASSUME Launch!LauncherAssumption, RunInv, Launch!Next
    PROVE  RunInv'
  BY RunTypes, RunPlaces, RunTells, RunProbes, RunStops DEF RunInv

LEMMA RunStarts == Launch!LauncherAssumption /\ Launch!Init => RunInv
<1> SUFFICES ASSUME Launch!LauncherAssumption, Launch!Init PROVE RunInv
  OBVIOUS
<1>1. Launch!Children = Both /\ <<>> \in Seq(Both) /\ Listed = {} /\ Ours = {}
      /\ ToSet(running) = {}
  BY BothAre, ListsAre DEF Launch!Init, Listed, Ours
<1>2. RunTyped
  <2>1. alive \in [Both -> SUBSET {"leader", "worker"}]
    BY <1>1 DEF Launch!Init
  <2>2. now \in 0 .. StartupTimeout /\ signals \in 0 .. MaxSignals
        /\ opened \in 0 .. 1 /\ at \in 0 .. 2
    BY DEF Launch!Init, Launch!LauncherAssumption
  <2>3. backendOk \in BOOLEAN /\ calm \in BOOLEAN
    BY DEF Launch!Init
  <2>4. processes = <<>> /\ running \in Seq(Both) /\ pc = "environment"
        /\ outcome = None /\ serving = {} /\ exited = {} /\ asked = {}
        /\ foreign \subseteq Both
    BY <1>1 DEF Launch!Init
  <2> QED
    BY <2>1, <2>2, <2>3, <2>4 DEF RunTyped
<1>3. Placed /\ Told /\ Probed
  BY <1>1 DEF Launch!Init, Launch!LauncherAssumption, Placed, Told, Probed,
     Stopping, Both
<1>4. Stopped
  BY <1>1 DEF Launch!Init, Stopped, Lives
<1> QED
  BY <1>2, <1>3, <1>4 DEF RunInv

LEMMA RunStaysIf ==
    RunInv /\ UNCHANGED Launch!vars => RunInv'
<1> SUFFICES ASSUME RunInv, UNCHANGED Launch!vars PROVE RunInv'
  OBVIOUS
<1> USE DEF Launch!vars, Launch!launcher, Launch!world, Launch!setting, RunInv
<1>1. Listed' = Listed /\ Ours' = Ours /\ \A c : Lives(c)' = Lives(c)
  BY DEF Listed, Ours, Lives
<1>2. RunTyped' /\ Placed'
  BY DEF RunTyped, Placed
<1>3. Told'
  BY <1>1 DEF Told
<1>4. Probed'
  BY DEF Probed, Reached
<1>5. Stopped'
  BY <1>1 DEF Stopped
<1> QED
  BY <1>2, <1>3, <1>4, <1>5

LEMMA RunIs == RunInv => Launch!StoppedAsOne /\ Launch!ExitTold
<1> SUFFICES ASSUME RunInv PROVE Launch!StoppedAsOne /\ Launch!ExitTold
  OBVIOUS
<1>1. Launch!Children = Both
  BY BothAre
<1>2. Launch!StoppedAsOne
  BY <1>1 DEF RunInv, Stopped, Launch!StoppedAsOne, Launch!Alive, Lives
<1>3. signals \in Nat
  BY DEF RunInv, RunTyped
<1>4. Launch!ExitTold
  BY <1>1, <1>3 DEF RunInv, Told, Launch!ExitTold, Stopping
<1> QED
  BY <1>2, <1>4

(* Only a kill takes one from running and ends its group: then everyone    *)
(* has been asked.                                                         *)
LEMMA AsksFirst == RunInv /\ Launch!Next => Launch!AskedFirst
<1> SUFFICES ASSUME RunInv, Launch!Next, alive' # alive, running' # running
             PROVE  Launch!ToSet(processes) \subseteq asked \cup exited
  BY DEF Launch!AskedFirst
<1>1. Launch!Kill \/ pc = "wait"
  BY DEF Launch!Next, Launch!Step, Launch!CheckEnvironment, Launch!Appended,
     Launch!Poll, Launch!ProbeBackend, Launch!ProbeFrontend, Launch!Open,
     Launch!Monitor, Launch!Terminate, Launch!Waited, Launch!Done,
     Launch!Signal, Launch!Spawn, Launch!SpawnFails, Launch!Serve,
     Launch!Exit, Launch!launcher, Launch!world
<1>2. pc = "wait"
  BY <1>1 DEF Launch!Kill
<1> QED
  BY <1>2, SetsAre DEF RunInv, Told, Listed

LEMMA OpensReady == RunInv /\ Launch!Next => Launch!OpenedReady
<1> SUFFICES ASSUME RunInv, Launch!Next, opened' > opened
             PROVE  \A c \in Both :
                        c \in foreign \/ c \in serving \/ c \in exited
  BY BothAre DEF Launch!OpenedReady
<1>1. opened' # opened
  BY DEF RunInv, RunTyped
<1>2. pc = "open"
  BY <1>1 DEF Launch!Next, Launch!Step, Launch!CheckEnvironment,
     Launch!Appended, Launch!Poll, Launch!ProbeBackend, Launch!ProbeFrontend,
     Launch!Open, Launch!Monitor, Launch!Terminate, Launch!Waited,
     Launch!Kill, Launch!Done, Launch!Signal, Launch!Spawn,
     Launch!SpawnFails, Launch!Serve, Launch!Exit, Launch!launcher
<1> QED
  BY <1>2 DEF RunInv, Probed, Reached

RunInvariant == part = "launch" => RunInv

LEMMA RunSteps == RunInvariant /\ [MCNext]_mcVars => RunInvariant'
<1> SUFFICES ASSUME RunInvariant, [MCNext]_mcVars, part' = "launch"
             PROVE  RunInv'
  BY DEF RunInvariant
<1>1. Launch!LauncherAssumption
  BY MCAssumption
<1>2. part = "launch"
  BY DEF MCNext, mcVars
<1>3. RunInv
  BY <1>2 DEF RunInvariant
<1>4. CASE MCNext
  <2>1. Launch!Next
    BY <1>2, <1>4 DEF MCNext
  <2> QED
    BY <1>1, <1>3, <2>1, RunKeeps
<1>5. CASE UNCHANGED mcVars
  <2>1. UNCHANGED Launch!vars
    BY <1>5 DEF mcVars, Launch!vars, Launch!launcher, Launch!world,
       Launch!setting
  <2> QED
    BY <1>3, <2>1, RunStaysIf
<1> QED
  BY <1>4, <1>5

LEMMA RunActs ==
    RunInvariant /\ [MCNext]_mcVars =>
        [part = "launch" =>
            Launch!AskedFirst /\ Launch!OpenedReady]_mcVars
<1> SUFFICES ASSUME RunInvariant, MCNext, part = "launch"
             PROVE  Launch!AskedFirst /\ Launch!OpenedReady
  OBVIOUS
<1>1. RunInv /\ Launch!Next
  BY DEF RunInvariant, MCNext
<1> QED
  BY <1>1, AsksFirst, OpensReady

LEMMA RunHolds == MCSpec => []RunInvariant
<1>1. MCInit => RunInvariant
  <2>1. Launch!LauncherAssumption
    BY MCAssumption
  <2> QED
    BY <2>1, RunStarts DEF MCInit, RunInvariant
<1>2. RunInvariant /\ [MCNext]_mcVars => RunInvariant'
  BY RunSteps
<1> QED
  BY <1>1, <1>2, PTL DEF MCSpec

(* Whatever the children do and whenever a signal comes: run kills a child *)
(* only after both were asked to end, opens the browser only when both     *)
(* answered, returns the exit it saw, and leaves no child behind unless a  *)
(* signal came in one of its two gaps (LocalAppLauncher.run).              *)
THEOREM LauncherTold == MCSpec => RunTold
<1>1. RunInvariant =>
          (part = "launch" => Launch!StoppedAsOne /\ Launch!ExitTold)
  BY RunIs DEF RunInvariant
<1>2. RunInvariant /\ [MCNext]_mcVars =>
          [part = "launch" =>
              Launch!AskedFirst /\ Launch!OpenedReady]_mcVars
  BY RunActs
<1> QED
  BY <1>1, <1>2, RunHolds, PTL DEF MCSpec, RunTold

(***************************************************************************)
(* The life of the backend                                                 *)
(***************************************************************************)
Shut == {"closed", "close_failed"}
Afterwards == {"credentials"} \cup Finished
InLoop == {"create", "register", "open", "semantics", "pend"}
After == {"model", "embedding", "context", "runner", "services"}
Before == {"profiles", "configuration", "datasource"}
Building == Before \cup InLoop \cup After

(* TypeOK, but for the lists that Sized tells.                             *)
LifeTyped ==
    /\ configured \in Configurations
    /\ pc \in Building \cup {"up"} \cup Closing \cup Finished
    /\ at \in 1 .. MaxSources + 1
    /\ contexts \subseteq Static /\ routing \in BOOLEAN
    /\ cached \in Seq(Profiles) /\ IsInjective(cached)
    /\ conn \in [Static \cup Profiles ->
                    {"none", "created", "open", "closed", "close_failed"}]
    /\ closings \in Seq(Static \cup Profiles) /\ IsInjective(closings)
    /\ credentials \subseteq Profiles
    /\ serving \in BOOLEAN /\ served \in BOOLEAN
    /\ cut \subseteq Closing \cup {"lifespan"}

(* Each list has the first datasources, in order; how many, by what is     *)
(* done next.                                                              *)
Counted(s) == s \in Seq(Nat) /\ \A i \in DOMAIN s : s[i] = i
Sized ==
    /\ Counted(owned) /\ Counted(registered) /\ Counted(pending)
    /\ Len(pending) <= Len(registered) /\ Len(registered) <= Len(owned)
    /\ Len(owned) <= Len(configured)
    /\ pc \in Before \cup {"create"} =>
           Len(pending) = at - 1 /\ Len(owned) = at - 1
    /\ pc \in {"profiles", "configuration"} => at = 1
    /\ pc \in InLoop => at <= Len(configured)
    /\ pc = "register" =>
           /\ Len(pending) = at - 1 /\ Len(registered) = at - 1
           /\ Len(owned) = at
    /\ pc \in {"open", "semantics", "pend"} =>
           /\ Len(pending) = at - 1 /\ Len(registered) = at
           /\ Len(owned) = at
    /\ pc \in After \/ served => Len(pending) = Len(configured)
    /\ \A i, j \in 1 .. Len(registered) :
           i < j => configured[i] # configured[j]

(* What is open and what was closed.                                       *)
Kept ==
    /\ \A c \in Static : c > Len(owned) =>
           \/ conn[c] = "none"
           \/ conn[c] = "created" /\ cause = <<"interrupt", "create">>
    /\ \A c \in DOMAIN conn : conn[c] \in Shut <=> c \in ToSet(closings)
    /\ \A p \in Profiles :
           conn[p] # "created" /\ (conn[p] = "open" <=> p \in ToSet(cached))
    /\ pc \in Building \cup {"up"} => \A c \in Static :
           conn[c] = IF c > Len(owned) THEN "none"
                     ELSE IF c = at /\ pc \in {"register", "open"}
                     THEN "created" ELSE "open"
    /\ pc \in {"models", "dynamic"} => ToSet(closings) \cap Static = {}

(* What each step of the closing has done, unless it was interrupted.      *)
StepsDone ==
    /\ pc \in {"connectors"} \cup Afterwards =>
           cached = <<>> \/ Lost("dynamic")
    /\ pc \in Afterwards =>
           \/ Lost("connectors")
           \/ \A c \in 1 .. Len(owned) : c \in ToSet(closings)
    /\ pc \in Finished => credentials = {} \/ Lost("credentials")

(* The static connectors are closed from the last one down.                *)
Turned ==
    /\ ReverseOrder
    /\ \E k \in 0 .. Len(owned) :
           ToSet(closings) \cap Static = k + 1 .. Len(owned)

(* What failed, where, and what is told of it.                             *)
Caused ==
    /\ pc \in Building => cause = None /\ ~served /\ cut = {}
    /\ pc = "up" => served /\ cut = {}
    /\ serving => pc = "up"
    /\ pc = "failed" => ~served
    /\ pc = "down" => served
    /\ served => cause = None
    /\ pc \in Closing =>
           cut \subseteq IF served THEN {"models", "dynamic", "connectors"}
                        ELSE {}
    /\ ~served /\ (pc \in Closing \/ (pc = "failed" /\ cut = {})) =>
           /\ cause # None
           /\ cause[1] = "exception" => stage = StageOf(cause[2])
    /\ pc \in {"register", "open", "semantics"} => stage = "connector"
    /\ pc = "failed" =>
           error = IF cut # {} THEN "interrupt"
                   ELSE IF cause[1] = "exception" THEN StageOf(cause[2])
                   ELSE cause[1]
    /\ pc = "down" =>
           error = IF /\ cut \subseteq {"models", "dynamic"}
                      /\ \E c \in 1 .. Len(owned) : conn[c] = "close_failed"
                   THEN "DB_CLOSE_ERROR"
                   ELSE IF cut # {} THEN "interrupt" ELSE None
    /\ pc \in {"runner", "services", "up"} =>
           contexts = IF routing THEN 1 .. Len(pending) ELSE {}

LifeInv == LifeTyped /\ Sized /\ Kept /\ StepsDone /\ Turned /\ Caused

LEMMA CountIs ==
    ASSUME NEW s, Counted(s)
    PROVE  /\ Len(s) \in Nat /\ DOMAIN s = 1 .. Len(s)
           /\ \A i \in 1 .. Len(s) : s[i] = i
           /\ ToSet(s) = 1 .. Len(s)
           /\ Counted(Append(s, Len(s) + 1))
           /\ Len(Append(s, Len(s) + 1)) = Len(s) + 1
<1>1. /\ Len(s) \in Nat /\ DOMAIN s = 1 .. Len(s)
      /\ \A i \in 1 .. Len(s) : s[i] = i
  BY DEF Counted
<1>2. ToSet(s) = 1 .. Len(s)
  BY <1>1 DEF ToSet
<1> DEFINE t == Append(s, Len(s) + 1)
<1>3. /\ t \in Seq(Nat) /\ Len(t) = Len(s) + 1
      /\ \A i \in 1 .. Len(s) : t[i] = s[i]
      /\ t[Len(s) + 1] = Len(s) + 1
  BY DEF Counted
<1>4. DOMAIN t = 1 .. Len(t)
  BY <1>3
<1> HIDE DEF t
<1>5. \A i \in DOMAIN t : t[i] = i
  BY <1>1, <1>3, <1>4
<1>6. Counted(t)
  BY <1>3, <1>5 DEF Counted
<1> QED
  BY <1>1, <1>2, <1>3, <1>6 DEF t

LEMMA NoneCounted == Counted(<<>>) /\ Len(<<>>) = 0
  BY DEF Counted

LEMMA PrefixIs ==
    ASSUME NEW s, NEW t, Counted(s), Counted(t), Len(s) <= Len(t)
    PROVE  IsPrefix(s, t)
<1>a. /\ Len(s) \in Nat /\ Len(t) \in Nat
      /\ \A i \in 1 .. Len(s) : s[i] = i
      /\ \A i \in 1 .. Len(t) : t[i] = i
  BY CountIs
<1>b. s \in Seq(Nat) /\ t \in Seq(Nat)
  BY DEF Counted
<1>1. /\ s \in Seq(Nat) /\ t \in Seq(Nat) /\ Len(s) \in Nat
      /\ \A i \in 1 .. Len(s) : s[i] = t[i]
  BY <1>a, <1>b
<1> DEFINE n == Len(s)
           u == SubSeq(s, 1, n)
           v == SubSeq(t, 1, n)
<1>2. u \in Seq(Nat) /\ v \in Seq(Nat) /\ Len(u) = n /\ Len(v) = n
  BY <1>1
<1>3. \A i \in 1 .. n : u[i] = s[i] /\ v[i] = t[i]
  BY <1>1
<1> HIDE DEF u, v
<1>4. u = v
  BY <1>1, <1>2, <1>3, SeqEqual
<1> QED
  BY <1>4 DEF u, v, IsPrefix

LEMMA ConfiguredIs ==
    ASSUME LifecycleAssumption, configured \in Configurations
    PROVE  Len(configured) \in 0 .. MaxSources
           /\ DOMAIN configured = 1 .. Len(configured)
           /\ configured \in Seq(Ids)
<1>1. PICK m \in 0 .. MaxSources : configured \in [1 .. m -> Ids]
  BY DEF Configurations, BoundedSeq, SeqOf
<1>2. m \in Nat /\ configured \in Seq(Ids)
  BY <1>1 DEF LifecycleAssumption
<1>3. Len(configured) = m
  BY <1>1, <1>2
<1> QED
  BY <1>1, <1>2, <1>3

(* A list of different elements grows by a new one, and shrinks.           *)
LEMMA GrowsIs ==
    ASSUME NEW S, NEW s \in Seq(S), IsInjective(s), NEW x \in S,
           x \notin ToSet(s)
    PROVE  IsInjective(Append(s, x))
<1>1. /\ Len(s) \in Nat /\ DOMAIN s = 1 .. Len(s)
      /\ DOMAIN Append(s, x) = 1 .. Len(s) + 1
      /\ Append(s, x)[Len(s) + 1] = x
      /\ \A i \in 1 .. Len(s) : Append(s, x)[i] = s[i]
  OBVIOUS
<1>2. \A i \in 1 .. Len(s) : s[i] # x
  BY <1>1 DEF ToSet
<1>3. \A i, j \in 1 .. Len(s) : s[i] = s[j] => i = j
  BY <1>1 DEF IsInjective
<1>4. \A i \in 1 .. Len(s) + 1 : i \in 1 .. Len(s) \/ i = Len(s) + 1
  BY <1>1
<1> QED
  BY <1>1, <1>2, <1>3, <1>4 DEF IsInjective

LEMMA RemovesIs ==
    ASSUME NEW S, NEW s \in Seq(S), IsInjective(s), NEW i \in DOMAIN s
    PROVE  /\ RemoveAt(s, i) \in Seq(S) /\ IsInjective(RemoveAt(s, i))
           /\ ToSet(RemoveAt(s, i)) = ToSet(s) \ {s[i]}
<1> DEFINE n == Len(s)
           r == RemoveAt(s, i)
<1>1. n \in Nat /\ DOMAIN s = 1 .. n /\ i \in 1 .. n
      /\ \A j \in 1 .. n : s[j] \in S
  OBVIOUS
<1>2. /\ SubSeq(s, 1, i - 1) \in Seq(S) /\ Len(SubSeq(s, 1, i - 1)) = i - 1
      /\ \A j \in 1 .. i - 1 : SubSeq(s, 1, i - 1)[j] = s[j]
  BY <1>1, SubSeqProperties
<1>3. /\ SubSeq(s, i + 1, n) \in Seq(S) /\ Len(SubSeq(s, i + 1, n)) = n - i
      /\ \A j \in 1 .. n - i : SubSeq(s, i + 1, n)[j] = s[i + j]
  BY <1>1, SubSeqProperties
<1>4. /\ r \in Seq(S) /\ Len(r) = n - 1
      /\ \A j \in 1 .. n - 1 : r[j] = IF j < i THEN s[j] ELSE s[j + 1]
  <2> DEFINE u == SubSeq(s, 1, i - 1)
             v == SubSeq(s, i + 1, n)
  <2> HIDE DEF u, v
  <2>1. /\ u \in Seq(S) /\ v \in Seq(S) /\ Len(u) = i - 1 /\ Len(v) = n - i
    BY <1>2, <1>3 DEF u, v
  <2>2. /\ u \o v \in Seq(S) /\ Len(u \o v) = n - 1
        /\ \A j \in 1 .. n - 1 :
               (u \o v)[j] = IF j <= i - 1 THEN u[j] ELSE v[j - (i - 1)]
    <3>1. /\ u \o v \in Seq(S) /\ Len(u \o v) = Len(u) + Len(v)
          /\ \A j \in 1 .. Len(u) + Len(v) :
                 (u \o v)[j] = IF j <= Len(u) THEN u[j] ELSE v[j - Len(u)]
      BY <2>1
    <3>2. (i - 1) + (n - i) = n - 1
      BY <1>1
    <3> QED
      BY <2>1, <3>1, <3>2
  <2>3. \A j \in 1 .. n - 1 : j < i => u[j] = s[j]
    BY <1>1, <1>2 DEF u
  <2>4. \A j \in 1 .. n - 1 : ~(j < i) => v[j - (i - 1)] = s[j + 1]
    <3> SUFFICES ASSUME NEW j \in 1 .. n - 1, ~(j < i)
                 PROVE  v[j - (i - 1)] = s[j + 1]
      OBVIOUS
    <3>1. j - (i - 1) \in 1 .. n - i /\ i + (j - (i - 1)) = j + 1
      BY <1>1
    <3> QED
      BY <1>3, <3>1 DEF v
  <2>5. \A j \in 1 .. n - 1 : j <= i - 1 <=> j < i
    BY <1>1
  <2>6. r = u \o v
    BY DEF u, v, RemoveAt
  <2> HIDE DEF r
  <2> QED
    BY <2>2, <2>3, <2>4, <2>5, <2>6
<1>5. DOMAIN r = 1 .. n - 1
  BY <1>4
<1> HIDE DEF r
<1>6. \A j, k \in 1 .. n : s[j] = s[k] => j = k
  BY <1>1 DEF IsInjective
<1>7. IsInjective(r)
  BY <1>1, <1>4, <1>5, <1>6 DEF IsInjective
<1>8. \A x \in ToSet(r) : x \in ToSet(s) \ {s[i]}
  <2> SUFFICES ASSUME NEW j \in 1 .. n - 1
               PROVE  r[j] \in ToSet(s) \ {s[i]}
    BY <1>5 DEF ToSet
  <2>1. j \in 1 .. n /\ j + 1 \in 1 .. n /\ (j < i => j # i)
        /\ (~(j < i) => j + 1 # i)
    BY <1>1
  <2> QED
    BY <1>1, <1>4, <1>6, <2>1 DEF ToSet
<1>9. \A x \in ToSet(s) \ {s[i]} : x \in ToSet(r)
  <2> SUFFICES ASSUME NEW j \in 1 .. n, j # i
               PROVE  s[j] \in ToSet(r)
    BY <1>1 DEF ToSet
  <2>1. CASE j < i
    <3>1. j \in 1 .. n - 1
      BY <1>1, <2>1
    <3> QED
      BY <1>4, <1>5, <2>1, <3>1 DEF ToSet
  <2>2. CASE j > i
    <3>1. j - 1 \in 1 .. n - 1 /\ ~(j - 1 < i) /\ (j - 1) + 1 = j
      BY <1>1, <2>2
    <3> QED
      BY <1>4, <1>5, <3>1 DEF ToSet
  <2> QED
    BY <1>1, <2>1, <2>2
<1> QED
  BY <1>4, <1>7, <1>8, <1>9 DEF r

LEMMA FrontIs ==
    ASSUME NEW S, NEW s \in Seq(S), IsInjective(s), s # <<>>
    PROVE  /\ Front(s) \in Seq(S) /\ IsInjective(Front(s))
           /\ ToSet(Front(s)) = ToSet(s) \ {Last(s)} /\ Last(s) \in ToSet(s)
           /\ Last(s) \in S
<1> DEFINE n == Len(s)
           r == SubSeq(s, 1, n - 1)
<1>1. n \in Nat \ {0} /\ DOMAIN s = 1 .. n /\ n \in 1 .. n
      /\ \A j \in 1 .. n : s[j] \in S
  OBVIOUS
<1>2. /\ r \in Seq(S) /\ Len(r) = n - 1
      /\ \A j \in 1 .. n - 1 : r[j] = s[j]
  BY <1>1, SubSeqProperties
<1>3. DOMAIN r = 1 .. n - 1
  BY <1>2
<1>4. \A j, k \in 1 .. n : s[j] = s[k] => j = k
  BY <1>1 DEF IsInjective
<1>a. n \in Nat \ {0}
  BY <1>1
<1> HIDE DEF r, n
<1>5. \A j \in 1 .. n - 1 : j \in 1 .. n /\ j # n
  BY <1>a
<1>6. \A j \in 1 .. n : j # n => j \in 1 .. n - 1
  BY <1>a
<1>7. IsInjective(r)
  BY <1>2, <1>3, <1>4, <1>5 DEF IsInjective
<1>8. ToSet(r) = ToSet(s) \ {s[n]}
  BY <1>1, <1>2, <1>3, <1>4, <1>5, <1>6 DEF ToSet
<1> QED
  BY <1>1, <1>2, <1>7, <1>8 DEF n, r, Front, Last, ToSet

(* What close does.                                                        *)
LEMMA ClosedIs ==
    ASSUME LifeTyped, NEW c \in Static \cup Profiles, c \notin ToSet(closings),
           Closed(c)
    PROVE  /\ closings' = Append(closings, c)
           /\ closings' \in Seq(Static \cup Profiles)
           /\ IsInjective(closings')
           /\ ToSet(closings') = ToSet(closings) \cup {c}
           /\ conn' \in [Static \cup Profiles ->
                      {"none", "created", "open", "closed", "close_failed"}]
           /\ conn'[c] \in Shut
           /\ \A d \in Static \cup Profiles : d # c => conn'[d] = conn[d]
<1>1. /\ closings \in Seq(Static \cup Profiles) /\ IsInjective(closings)
      /\ conn \in [Static \cup Profiles ->
                      {"none", "created", "open", "closed", "close_failed"}]
  BY DEF LifeTyped
<1>2. closings' = Append(closings, c)
  BY DEF Closed
<1>3. /\ closings' \in Seq(Static \cup Profiles)
      /\ ToSet(closings') = ToSet(closings) \cup {c}
  BY <1>1, <1>2, AppendIs
<1>4. IsInjective(closings')
  BY <1>1, <1>2, GrowsIs
<1>5. \E s \in Shut : conn' = [conn EXCEPT ![c] = s]
  BY DEF Closed, Shut
<1> QED
  BY <1>1, <1>2, <1>3, <1>4, <1>5 DEF Shut

LEMMA SizesAre ==
    ASSUME LifecycleAssumption, LifeTyped, Sized
    PROVE  /\ MaxSources \in Nat \ {0}
           /\ Len(configured) \in 0 .. MaxSources
           /\ Len(owned) \in 0 .. Len(configured)
           /\ Len(registered) \in 0 .. Len(owned)
           /\ Len(pending) \in 0 .. Len(registered)
           /\ 1 .. Len(owned) \subseteq Static
           /\ ToSet(owned) = 1 .. Len(owned)
           /\ ToSet(registered) = 1 .. Len(registered)
           /\ ToSet(pending) = 1 .. Len(pending)
           /\ DOMAIN conn = Static \cup Profiles
           /\ Static \cap Profiles = {}
           /\ served => Len(registered) = Len(owned)
<1>1. Len(configured) \in 0 .. MaxSources
  BY ConfiguredIs DEF LifeTyped
<1>2. MaxSources \in Nat \ {0} /\ Static \cap Profiles = {}
  BY DEF LifecycleAssumption, Static
<1>3. /\ Len(owned) \in Nat /\ Len(registered) \in Nat /\ Len(pending) \in Nat
      /\ ToSet(owned) = 1 .. Len(owned)
      /\ ToSet(registered) = 1 .. Len(registered)
      /\ ToSet(pending) = 1 .. Len(pending)
  BY CountIs DEF Sized
<1>4. /\ Len(pending) <= Len(registered) /\ Len(registered) <= Len(owned)
      /\ Len(owned) <= Len(configured)
      /\ served => Len(pending) = Len(configured)
  BY DEF Sized
<1>5. /\ Len(owned) \in 0 .. Len(configured)
      /\ Len(registered) \in 0 .. Len(owned)
      /\ Len(pending) \in 0 .. Len(registered)
      /\ 1 .. Len(owned) \subseteq 1 .. MaxSources
      /\ served => Len(registered) = Len(owned)
  BY <1>1, <1>2, <1>3, <1>4
<1>6. DOMAIN conn = Static \cup Profiles
  BY DEF LifeTyped
<1> QED
  BY <1>1, <1>2, <1>3, <1>5, <1>6 DEF Static

(* Which connector is closed next.                                         *)
LEMMA LatestIs ==
    ASSUME LifecycleAssumption, LifeInv
    PROVE  \E k \in 0 .. Len(owned) :
               /\ ToSet(closings) \cap Static = k + 1 .. Len(owned)
               /\ Left = {} <=> k = 0
               /\ Left # {} => Latest = k
<1>1. /\ LifeTyped /\ Sized
      /\ \E k \in 0 .. Len(owned) :
             ToSet(closings) \cap Static = k + 1 .. Len(owned)
  BY DEF LifeInv, Turned
<1>2. PICK k \in 0 .. Len(owned) :
          ToSet(closings) \cap Static = k + 1 .. Len(owned)
  BY <1>1
<1> DEFINE n == Len(owned)
<1>3. n \in Nat /\ 1 .. n \subseteq Static
  BY <1>1, SizesAre
<1>4. Counted(Opened) /\ Len(Opened) = n
  BY <1>1, SizesAre DEF Opened, Sized
<1>5. DOMAIN Opened = 1 .. n /\ \A i \in 1 .. n : Opened[i] = i
  BY <1>4, CountIs
<1>6. Left = {i \in 1 .. n : i \notin ToSet(closings)}
  BY <1>5 DEF Left
<1>7. \A i \in 1 .. n : i \in ToSet(closings) <=> i \in k + 1 .. n
  BY <1>2, <1>3
<1> HIDE DEF n
<1>8. Left = 1 .. k
  BY <1>2, <1>3, <1>6, <1>7 DEF n
<1>9. ASSUME Left # {} PROVE Latest = k
  <2>1. k \in Left /\ k \in 1 .. n /\ \A i \in Left : i <= k
    BY <1>2, <1>3, <1>8, <1>9 DEF n
  <2>2. (CHOOSE i \in Left : \A j \in Left : j <= i) = k
    <3>1. \A i \in Left : (\A j \in Left : j <= i) => i = k
      BY <1>2, <1>8, <2>1, <1>3 DEF n
    <3> DEFINE P(i) == i \in Left /\ \A j \in Left : j <= i
    <3>2. P(k)
      BY <2>1
    <3> QED
      BY <2>1, <3>1
  <2> QED
    BY <1>5, <2>1, <2>2 DEF Latest
<1>10. Left = {} <=> k = 0
  BY <1>2, <1>3, <1>8 DEF n
<1> QED
  BY <1>2, <1>9, <1>10

(* No connector of the configuration is closed before the end.             *)
LEMMA NoneShut ==
    ASSUME LifecycleAssumption, LifeInv, pc \in Building \cup {"up"}
    PROVE  ToSet(closings) \cap Static = {}
<1> SUFFICES ASSUME NEW c \in Static, c \in ToSet(closings) PROVE FALSE
  OBVIOUS
<1>1. LifeTyped /\ Sized /\ Kept
  BY DEF LifeInv
<1>2. conn[c] \in Shut
  BY <1>1, SizesAre DEF Kept
<1> QED
  BY <1>1, <1>2 DEF Kept, Shut

LEMMA FollowingIs ==
    /\ DOMAIN Following = {"profiles", "configuration", "embedding", "runner"}
    /\ Following["profiles"] = "configuration"
    /\ Following["configuration"] = "datasource"
    /\ Following["embedding"] = "context"
    /\ Following["runner"] = "services"
  BY DEF Following

(* What an interrupt of the closing does.                                  *)
LEMMA InterruptIs ==
    ASSUME InterruptClosing
    PROVE  /\ pc \in Closing /\ cut' = cut \cup {pc}
           /\ UNCHANGED <<build, credentials, serving, served, cause>>
           /\ \/ UNCHANGED <<cached, conn, closings>>
              \/ /\ pc = "dynamic" /\ cached # <<>>
                 /\ Closed(Last(cached)) /\ cached' = Front(cached)
              \/ /\ pc = "connectors" /\ Left # {}
                 /\ Closed(Latest) /\ cached' = cached
           /\ \/ /\ served /\ error' = error
                 /\ \/ pc = "models" /\ pc' = "dynamic"
                    \/ pc = "dynamic" /\ pc' = "connectors"
                    \/ pc = "connectors" /\ pc' = "credentials"
              \/ /\ served /\ pc = "credentials" /\ pc' = "down"
                 /\ error' = "interrupt"
              \/ ~served /\ pc' = "failed" /\ error' = "interrupt"
<1>1. /\ Finally["models"] = "dynamic" /\ Finally["dynamic"] = "connectors"
      /\ Finally["connectors"] = "credentials"
  BY DEF Finally
<1>2. /\ pc \in Closing /\ Interrupted
      /\ IF served /\ pc # "credentials"
         THEN pc' = Finally[pc] /\ error' = error
         ELSE /\ pc' = IF served THEN "down" ELSE "failed"
              /\ error' = "interrupt"
  BY DEF InterruptClosing
<1>3. /\ cut' = cut \cup {pc}
      /\ UNCHANGED <<build, credentials, serving, served, cause>>
      /\ \/ UNCHANGED <<cached, conn, closings>>
         \/ /\ pc = "dynamic" /\ cached # <<>>
            /\ Closed(Last(cached)) /\ cached' = Front(cached)
         \/ /\ pc = "connectors" /\ Left # {}
            /\ Closed(Latest) /\ cached' = cached
  BY <1>2 DEF Interrupted, build
<1>4. pc \in {"models", "dynamic", "connectors", "credentials"}
  BY <1>2 DEF Closing
<1>5. \/ /\ served /\ error' = error
         /\ \/ pc = "models" /\ pc' = "dynamic"
            \/ pc = "dynamic" /\ pc' = "connectors"
            \/ pc = "connectors" /\ pc' = "credentials"
      \/ /\ served /\ pc = "credentials" /\ pc' = "down"
         /\ error' = "interrupt"
      \/ ~served /\ pc' = "failed" /\ error' = "interrupt"
  BY <1>1, <1>2, <1>4
<1> QED
  BY <1>2, <1>3, <1>5

(* What an interrupt has cost stays lost.                                  *)
LEMMA LostStays ==
    ASSUME NEW step, Lost(step), served' = served, cut \subseteq cut'
    PROVE  Lost(step)'
  BY DEF Lost

(* The next connector of a profile, and the next of the configuration, may *)
(* be closed.                                                              *)
LEMMA DynamicIs ==
    ASSUME LifecycleAssumption, LifeInv, cached # <<>>
    PROVE  /\ Front(cached) \in Seq(Profiles) /\ IsInjective(Front(cached))
           /\ ToSet(Front(cached)) = ToSet(cached) \ {Last(cached)}
           /\ Last(cached) \in Profiles /\ Last(cached) \in ToSet(cached)
           /\ Last(cached) \notin ToSet(closings)
<1>1. LifeTyped /\ Sized /\ Kept
  BY DEF LifeInv
<1>2. /\ Front(cached) \in Seq(Profiles) /\ IsInjective(Front(cached))
      /\ ToSet(Front(cached)) = ToSet(cached) \ {Last(cached)}
      /\ Last(cached) \in Profiles /\ Last(cached) \in ToSet(cached)
  BY <1>1, FrontIs DEF LifeTyped
<1>3. Last(cached) \notin ToSet(closings)
  BY <1>1, <1>2, SizesAre DEF Kept, Shut
<1> QED
  BY <1>2, <1>3

LEMMA StaticIs ==
    ASSUME LifecycleAssumption, LifeInv, Left # {}
    PROVE  /\ Latest \in 1 .. Len(owned) /\ Latest \in Static
           /\ Latest \notin ToSet(closings)
<1>1. LifeTyped /\ Sized
  BY DEF LifeInv
<1>2. PICK k \in 0 .. Len(owned) :
          /\ ToSet(closings) \cap Static = k + 1 .. Len(owned)
          /\ Left = {} <=> k = 0
          /\ Left # {} => Latest = k
  BY LatestIs
<1> QED
  BY <1>1, <1>2, SizesAre

LEMMA LifeTypes ==
    ASSUME LifecycleAssumption, LifeInv, Next
    PROVE  LifeTyped'
<1>a. LifeTyped /\ Sized /\ Kept /\ StepsDone /\ Turned /\ Caused
  BY DEF LifeInv
<1> USE <1>a DEF LifeTyped, Building, Before, InLoop, After, Closing, Finished,
        build, life, Raise
<1>1. CASE Build
  BY <1>1, FollowingIs DEF Build
<1>2. CASE Datasource
  BY <1>2 DEF Datasource
<1>3. CASE Create
  BY <1>3 DEF Create
<1>4. CASE Register
  BY <1>4 DEF Register
<1>5. CASE Open
  BY <1>5 DEF Open
<1>6. CASE Semantics
  BY <1>6 DEF Semantics
<1>7. CASE Pend
  <2>1. at' \in 1 .. MaxSources + 1
    BY <1>7, SizesAre DEF Pend, Sized
  <2> QED
    BY <1>7, <2>1 DEF Pend
<1>8. CASE Model
  BY <1>8 DEF Model
<1>9. CASE Context
  <2>1. ToSet(pending) \subseteq Static
    BY SizesAre DEF Static
  <2> QED
    BY <1>9, <2>1 DEF Context
<1>10. CASE Services
  BY <1>10 DEF Services
<1>11. CASE Interrupt
  BY <1>11 DEF Interrupt
<1>12. CASE Shutdown
  BY <1>12 DEF Shutdown
<1>13. CASE CloseModels
  BY <1>13 DEF CloseModels
<1>14. CASE CloseDynamic
  <2>1. CASE cached = <<>>
    BY <1>14, <2>1 DEF CloseDynamic
  <2>2. CASE cached # <<>>
    <3>1. /\ Front(cached) \in Seq(Profiles) /\ IsInjective(Front(cached))
          /\ Last(cached) \in Profiles /\ Last(cached) \notin ToSet(closings)
      BY <2>2, DynamicIs
    <3>3. Closed(Last(cached)) /\ cached' = Front(cached) /\ pc' = pc
      BY <1>14, <2>2 DEF CloseDynamic
    <3>4. /\ closings' \in Seq(Static \cup Profiles) /\ IsInjective(closings')
          /\ conn' \in [Static \cup Profiles ->
                      {"none", "created", "open", "closed", "close_failed"}]
      BY <3>1, <3>3, ClosedIs
    <3> QED
      BY <1>14, <2>2, <3>1, <3>3, <3>4 DEF CloseDynamic
  <2> QED
    BY <2>1, <2>2
<1>15. CASE CloseConnectors
  <2>1. CASE Left = {}
    BY <1>15, <2>1 DEF CloseConnectors
  <2>2. CASE Left # {}
    <3>1. Latest \in Static /\ Latest \notin ToSet(closings)
      BY <2>2, StaticIs
    <3>2. Closed(Latest)
      BY <1>15, <2>2 DEF CloseConnectors
    <3>3. /\ closings' \in Seq(Static \cup Profiles) /\ IsInjective(closings')
          /\ conn' \in [Static \cup Profiles ->
                      {"none", "created", "open", "closed", "close_failed"}]
      BY <3>1, <3>2, ClosedIs
    <3> QED
      BY <1>15, <2>2, <3>3 DEF CloseConnectors
  <2> QED
    BY <2>1, <2>2
<1>16. CASE InterruptClosing
  <2>1. /\ cut' \subseteq Closing \cup {"lifespan"}
        /\ UNCHANGED <<configured, at, contexts, routing, credentials>>
        /\ UNCHANGED <<serving, served>>
        /\ pc' \in Closing \cup Finished
    BY <1>16, InterruptIs
  <2>2. CASE UNCHANGED <<cached, conn, closings>>
    BY <2>1, <2>2
  <2>3. CASE /\ cached # <<>>
             /\ Closed(Last(cached)) /\ cached' = Front(cached)
    <3>1. /\ Front(cached) \in Seq(Profiles) /\ IsInjective(Front(cached))
          /\ Last(cached) \in Profiles /\ Last(cached) \notin ToSet(closings)
      BY <2>3, DynamicIs
    <3>2. /\ closings' \in Seq(Static \cup Profiles) /\ IsInjective(closings')
          /\ conn' \in [Static \cup Profiles ->
                      {"none", "created", "open", "closed", "close_failed"}]
      BY <2>3, <3>1, ClosedIs
    <3> QED
      BY <2>1, <2>3, <3>1, <3>2
  <2>4. CASE Left # {} /\ Closed(Latest) /\ cached' = cached
    <3>1. Latest \in Static /\ Latest \notin ToSet(closings)
      BY <2>4, StaticIs
    <3>2. /\ closings' \in Seq(Static \cup Profiles) /\ IsInjective(closings')
          /\ conn' \in [Static \cup Profiles ->
                      {"none", "created", "open", "closed", "close_failed"}]
      BY <2>4, <3>1, ClosedIs
    <3> QED
      BY <2>1, <2>4, <3>2
  <2> QED
    BY <1>16, <2>2, <2>3, <2>4, InterruptIs
<1>17. CASE ClearCredentials
  BY <1>17 DEF ClearCredentials
<1>18. ASSUME NEW p \in Profiles, UseProfile(p)
       PROVE  LifeTyped'
  <2>1. cached' \in Seq(Profiles) /\ IsInjective(cached')
    BY <1>18, AppendIs, GrowsIs DEF UseProfile
  <2> QED
    BY <1>18, <2>1 DEF UseProfile
<1>19. ASSUME NEW p \in Profiles, DeleteProfile(p)
       PROVE  LifeTyped'
  <2>1. PICK i \in DOMAIN cached :
            cached[i] = p /\ cached' = RemoveAt(cached, i)
    BY <1>19 DEF DeleteProfile
  <2>2. cached' \in Seq(Profiles) /\ IsInjective(cached')
    BY <2>1, RemovesIs
  <2>3. p \notin ToSet(closings) /\ Closed(p)
    BY <1>19, <2>1 DEF DeleteProfile, Kept, Shut, ToSet
  <2>4. /\ closings' \in Seq(Static \cup Profiles) /\ IsInjective(closings')
        /\ conn' \in [Static \cup Profiles ->
                      {"none", "created", "open", "closed", "close_failed"}]
    BY <2>3, ClosedIs
  <2> QED
    BY <1>19, <2>2, <2>4 DEF DeleteProfile
<1>20. CASE InterruptLifespan
  BY <1>20 DEF InterruptLifespan
<1> HIDE <1>a DEF LifeTyped, Building, Before, InLoop, After, Closing,
        Finished, build, life, Raise
<1> QED
  BY <1>1, <1>2, <1>3, <1>4, <1>5, <1>6, <1>7, <1>8, <1>9, <1>10,
     <1>11, <1>12, <1>13, <1>14, <1>15, <1>16, <1>17, <1>18, <1>19, <1>20
     DEF Next, Starting, Ending

LEMMA LifeSizes ==
    ASSUME LifecycleAssumption, LifeInv, Next
    PROVE  Sized'
<1>a. LifeTyped /\ Sized /\ Kept /\ StepsDone /\ Turned /\ Caused
  BY DEF LifeInv
<1> USE <1>a DEF Sized, Building, Before, InLoop, After, Closing, Finished,
        build, life, Raise
<1>1. CASE Build
  BY <1>1, FollowingIs DEF Build
<1>2. CASE Datasource
  <2> QED
    BY <1>2, SizesAre DEF Datasource, LifeTyped
<1>3. CASE Create
  <2>1. pc = "create"
    BY <1>3 DEF Create
  <2>2. CASE owned' = Append(owned, at) /\ pc' = "register"
    <3>1. Counted(owned') /\ Len(owned') = at
      BY <2>1, <2>2, CountIs, SizesAre DEF LifeTyped
    <3> QED
      BY <1>3, <2>1, <2>2, <3>1, SizesAre DEF Create
  <2>3. CASE pc' = "models" /\ owned' = owned
    BY <1>3, <2>3 DEF Create
  <2> QED
    BY <1>3, <2>2, <2>3 DEF Create
<1>4. CASE Register
  <2>1. pc = "register"
    BY <1>4 DEF Register
  <2>2. CASE pc' = "open"
    <3>1. /\ registered' = Append(registered, at)
          /\ configured[at] \notin {configured[i] : i \in ToSet(registered)}
      BY <1>4, <2>2 DEF Register
    <3>2. Counted(registered') /\ Len(registered') = at
      BY <2>1, <3>1, CountIs, SizesAre DEF LifeTyped
    <3>3. \A i, j \in 1 .. at : i < j => configured[i] # configured[j]
      <4> SUFFICES ASSUME NEW i \in 1 .. at, NEW j \in 1 .. at, i < j
                   PROVE  configured[i] # configured[j]
        OBVIOUS
      <4>1. /\ i \in 1 .. Len(registered)
            /\ j = at \/ j \in 1 .. Len(registered)
        BY <2>1, SizesAre DEF LifeTyped
      <4> QED
        BY <3>1, <4>1, SizesAre
    <3> QED
      BY <1>4, <2>1, <2>2, <3>2, <3>3, SizesAre DEF Register
  <2>3. CASE pc' = "models" /\ registered' = registered
    BY <1>4, <2>3 DEF Register
  <2> QED
    BY <1>4, <2>2, <2>3 DEF Register
<1>5. CASE Open
  BY <1>5 DEF Open
<1>6. CASE Semantics
  BY <1>6 DEF Semantics
<1>7. CASE Pend
  <2>1. Counted(pending') /\ Len(pending') = at
    BY <1>7, CountIs, SizesAre DEF LifeTyped, Pend
  <2> QED
    BY <1>7, <2>1, SizesAre DEF Pend, LifeTyped
<1>8. CASE Model
  BY <1>8 DEF Model
<1>9. CASE Context
  BY <1>9 DEF Context
<1>10. CASE Services
  <2> QED
    BY <1>10 DEF Services
<1>11. CASE Interrupt
  BY <1>11 DEF Interrupt
<1>12. CASE Shutdown
  BY <1>12 DEF Shutdown
<1>13. CASE CloseModels
  BY <1>13 DEF CloseModels
<1>14. CASE CloseDynamic
  BY <1>14 DEF CloseDynamic
<1>15. CASE CloseConnectors
  BY <1>15 DEF CloseConnectors
<1>16. CASE InterruptClosing
  <2>1. /\ pc' \notin Before \cup {"create"} \cup InLoop \cup After
        /\ UNCHANGED <<build, served>>
    BY <1>16, InterruptIs
  <2> QED
    BY <2>1
<1>17. CASE ClearCredentials
  BY <1>17 DEF ClearCredentials
<1>18. ASSUME NEW p \in Profiles, UseProfile(p)
       PROVE  Sized'
  BY <1>18 DEF UseProfile
<1>19. ASSUME NEW p \in Profiles, DeleteProfile(p)
       PROVE  Sized'
  BY <1>19 DEF DeleteProfile
<1>20. CASE InterruptLifespan
  BY <1>20 DEF InterruptLifespan
<1> HIDE <1>a DEF Sized, Building, Before, InLoop, After, Closing, Finished,
        build, life, Raise
<1> QED
  BY <1>1, <1>2, <1>3, <1>4, <1>5, <1>6, <1>7, <1>8, <1>9, <1>10,
     <1>11, <1>12, <1>13, <1>14, <1>15, <1>16, <1>17, <1>18, <1>19, <1>20
     DEF Next, Starting, Ending

(* What is open, when no connector changes.                                *)
LEMMA LifeMoves ==
    ASSUME LifecycleAssumption, LifeInv, pc \in Building \cup {"up"},
           UNCHANGED <<owned, conn, closings, cached>>,
           \/ pc' \in {"models"} \cup Finished
           \/ pc \notin {"register", "open"} /\ pc' \notin {"register", "open"}
           \/ pc = "register" /\ pc' = "open" /\ at' = at
    PROVE  Kept'
<1>1. Kept /\ ToSet(closings) \cap Static = {}
  BY NoneShut DEF LifeInv
<1>2. pc' \in {"models"} \cup Finished => pc' \notin Building \cup {"up"}
  BY DEF Building, Before, InLoop, After, Finished
<1>3. \A c \in Static :
          pc' \in Building \cup {"up"} =>
              (c = at /\ pc \in {"register", "open"}
                  <=> c = at' /\ pc' \in {"register", "open"})
  BY <1>2
<1> HIDE DEF Building, Finished
<1> QED
  BY <1>1, <1>3 DEF Kept

LEMMA ClosingMoves ==
    ASSUME LifeInv, pc \in Closing, pc' \in Closing \cup Finished,
           pc' \in {"models", "dynamic"} => pc \in {"models", "dynamic"},
           UNCHANGED <<owned, conn, closings, cached, cause>>
    PROVE  Kept'
<1>1. Kept
  BY DEF LifeInv
<1>2. pc' \notin Building \cup {"up"}
  BY DEF Building, Before, InLoop, After, Closing, Finished
<1> QED
  BY <1>1, <1>2 DEF Kept

(* What is open, when the next connector of a profile is closed.           *)
LEMMA DynamicKeeps ==
    ASSUME LifecycleAssumption, LifeInv, pc = "dynamic", cached # <<>>,
           Closed(Last(cached)), cached' = Front(cached),
           pc' \in Closing \cup Finished, UNCHANGED <<owned, cause>>
    PROVE  Kept'
<1>1. LifeTyped /\ Sized /\ Kept
  BY DEF LifeInv
<1> DEFINE p == Last(cached)
<1>2. /\ p \in Profiles /\ p \notin ToSet(closings)
      /\ ToSet(cached') = ToSet(cached) \ {p}
  BY DynamicIs
<1>3. p \notin Static
  BY <1>1, <1>2, SizesAre
<1> HIDE DEF p
<1>4. /\ ToSet(closings') = ToSet(closings) \cup {p}
      /\ conn'[p] \in Shut
      /\ \A d \in Static \cup Profiles : d # p => conn'[d] = conn[d]
      /\ DOMAIN conn' = Static \cup Profiles
  <2>1. Closed(p)
    BY DEF p
  <2> QED
    BY <1>1, <1>2, <2>1, ClosedIs
<1>5. pc' \notin Building \cup {"up"}
  BY DEF Building, Before, InLoop, After, Closing, Finished
<1>6. \A c \in Static : conn'[c] = conn[c]
  BY <1>3, <1>4
<1>7. \A c \in DOMAIN conn' : conn'[c] \in Shut <=> c \in ToSet(closings')
  BY <1>1, <1>2, <1>4, SizesAre DEF Kept
<1>8. \A q \in Profiles :
          conn'[q] # "created" /\ (conn'[q] = "open" <=> q \in ToSet(cached'))
  BY <1>1, <1>2, <1>4 DEF Kept, Shut
<1>9. ToSet(closings') \cap Static = {}
  BY <1>1, <1>3, <1>4 DEF Kept
<1> QED
  BY <1>1, <1>5, <1>6, <1>7, <1>8, <1>9 DEF Kept

(* And when the next one of the configuration is.                          *)
LEMMA StaticKeeps ==
    ASSUME LifecycleAssumption, LifeInv, pc = "connectors", Left # {},
           Closed(Latest), pc' \in {"connectors", "credentials"} \cup Finished,
           UNCHANGED <<owned, cached, cause>>
    PROVE  Kept'
<1>1. LifeTyped /\ Sized /\ Kept
  BY DEF LifeInv
<1> DEFINE k == Latest
<1>2. k \in 1 .. Len(owned) /\ k \in Static /\ k \notin ToSet(closings)
  BY StaticIs
<1>3. k \notin Profiles /\ Len(owned) \in Nat
  BY <1>1, <1>2, SizesAre
<1>a. Closed(k)
  OBVIOUS
<1> HIDE DEF k
<1>4. /\ ToSet(closings') = ToSet(closings) \cup {k}
      /\ conn'[k] \in Shut
      /\ \A d \in Static \cup Profiles : d # k => conn'[d] = conn[d]
      /\ DOMAIN conn' = Static \cup Profiles
  BY <1>1, <1>2, <1>a, ClosedIs
<1>5. pc' \notin Building \cup {"up", "models", "dynamic"}
  BY DEF Building, Before, InLoop, After, Finished
<1>6. \A c \in Static : c > Len(owned) => c # k
  BY <1>2, <1>3
<1>7. \A c \in DOMAIN conn' : conn'[c] \in Shut <=> c \in ToSet(closings')
  BY <1>1, <1>2, <1>4, SizesAre DEF Kept
<1>8. \A p \in Profiles : conn'[p] = conn[p]
  BY <1>3, <1>4
<1> QED
  BY <1>1, <1>4, <1>5, <1>6, <1>7, <1>8 DEF Kept

LEMMA LifeKeeps ==
    ASSUME LifecycleAssumption, LifeInv, Next
    PROVE  Kept'
<1>a. LifeTyped /\ Sized /\ Kept /\ StepsDone /\ Turned /\ Caused
  BY DEF LifeInv
<1> USE <1>a DEF Kept, Building, Before, InLoop, After, Closing,
        Finished, build, life, Raise
<1>1. CASE Build
  <2>1. /\ pc \in Building \cup {"up"}
        /\ UNCHANGED <<owned, conn, closings, cached>>
    BY <1>1, FollowingIs DEF Build
  <2>2. \/ pc' \in {"models"} \cup Finished
        \/ pc \notin {"register", "open"} /\ pc' \notin {"register", "open"}
        \/ pc = "register" /\ pc' = "open" /\ at' = at
    BY <1>1, FollowingIs DEF Build
  <2> QED
    BY <2>1, <2>2, LifeMoves
<1>2. CASE Datasource
  <2>1. /\ pc \in Building \cup {"up"}
        /\ UNCHANGED <<owned, conn, closings, cached>>
    BY <1>2 DEF Datasource
  <2>2. \/ pc' \in {"models"} \cup Finished
        \/ pc \notin {"register", "open"} /\ pc' \notin {"register", "open"}
        \/ pc = "register" /\ pc' = "open" /\ at' = at
    BY <1>2 DEF Datasource
  <2> QED
    BY <2>1, <2>2, LifeMoves
<1>3. CASE Create
  <2>1. pc = "create" /\ at \in Static /\ Len(owned) = at - 1
        /\ at = Len(owned) + 1
    BY <1>3, SizesAre DEF Create, Sized, LifeTyped, Static
  <2>2. ToSet(closings) \cap Static = {}
    BY <2>1, NoneShut
  <2>3. CASE /\ conn' = [conn EXCEPT ![at] = "created"] /\ pc' = "register"
             /\ owned' = Append(owned, at)
    <3>1. Len(owned') = at
      BY <2>1, <2>3, CountIs, SizesAre DEF Sized
    <3>2. /\ conn'[at] = "created" /\ DOMAIN conn' = Static \cup Profiles
          /\ \A d \in Static \cup Profiles : d # at => conn'[d] = conn[d]
      BY <2>1, <2>3 DEF LifeTyped
    <3>3. UNCHANGED <<cached, closings, credentials, cause, at>>
      BY <1>3, <2>3 DEF Create
    <3> QED
      BY <2>1, <2>2, <2>3, <3>1, <3>2, <3>3, SizesAre DEF Shut, Static
  <2>4. CASE pc' = "models" /\ UNCHANGED <<conn, owned>>
    BY <1>3, <2>1, <2>2, <2>4 DEF Create
  <2>5. CASE /\ conn' = [conn EXCEPT ![at] = "created"] /\ owned' = owned
             /\ Raise("interrupt")
    <3>1. /\ conn'[at] = "created" /\ DOMAIN conn' = Static \cup Profiles
          /\ \A d \in Static \cup Profiles : d # at => conn'[d] = conn[d]
      BY <2>1, <2>5 DEF LifeTyped
    <3>2. /\ pc' = "models" /\ cause' = <<"interrupt", "create">>
          /\ UNCHANGED <<cached, closings>>
      BY <1>3, <2>1, <2>5 DEF Create
    <3>3. at \notin Profiles /\ Len(owned) \in Nat
      BY <2>1, SizesAre
    <3>4. conn[at] = "none" /\ at \notin ToSet(closings)
      BY <2>1, <2>2, <3>3
    <3> QED
      BY <2>1, <2>2, <2>5, <3>1, <3>2, <3>3, <3>4, SizesAre DEF Shut
  <2> QED
    BY <1>3, <2>3, <2>4, <2>5 DEF Create
<1>4. CASE Register
  <2>1. /\ pc \in Building \cup {"up"}
        /\ UNCHANGED <<owned, conn, closings, cached>>
    BY <1>4 DEF Register
  <2>2. \/ pc' \in {"models"} \cup Finished
        \/ pc \notin {"register", "open"} /\ pc' \notin {"register", "open"}
        \/ pc = "register" /\ pc' = "open" /\ at' = at
    BY <1>4 DEF Register
  <2> QED
    BY <2>1, <2>2, LifeMoves
<1>5. CASE Open
  <2>1. /\ pc = "open" /\ at \in Static /\ Len(owned) = at
        /\ UNCHANGED <<owned, cached, closings, credentials, at>>
    BY <1>5, SizesAre DEF Open, Sized, LifeTyped, Static
  <2>2. ToSet(closings) \cap Static = {}
    BY <2>1, NoneShut
  <2>3. CASE /\ conn' = [conn EXCEPT ![at] = "open"]
             /\ pc' \in {"semantics", "pend"}
    <3>1. /\ conn'[at] = "open" /\ DOMAIN conn' = Static \cup Profiles
          /\ \A d \in Static \cup Profiles : d # at => conn'[d] = conn[d]
      BY <2>1, <2>3 DEF LifeTyped
    <3> QED
      BY <2>1, <2>2, <2>3, <3>1, SizesAre DEF Shut, Static
  <2>4. CASE pc' = "models" /\ conn' = conn
    BY <1>5, <2>1, <2>2, <2>4
  <2> QED
    BY <1>5, <2>3, <2>4 DEF Open
<1>6. CASE Semantics
  <2>1. /\ pc \in Building \cup {"up"}
        /\ UNCHANGED <<owned, conn, closings, cached>>
    BY <1>6 DEF Semantics
  <2>2. \/ pc' \in {"models"} \cup Finished
        \/ pc \notin {"register", "open"} /\ pc' \notin {"register", "open"}
        \/ pc = "register" /\ pc' = "open" /\ at' = at
    BY <1>6 DEF Semantics
  <2> QED
    BY <2>1, <2>2, LifeMoves
<1>7. CASE Pend
  <2>1. /\ pc \in Building \cup {"up"}
        /\ UNCHANGED <<owned, conn, closings, cached>>
    BY <1>7 DEF Pend
  <2>2. \/ pc' \in {"models"} \cup Finished
        \/ pc \notin {"register", "open"} /\ pc' \notin {"register", "open"}
        \/ pc = "register" /\ pc' = "open" /\ at' = at
    BY <1>7 DEF Pend
  <2> QED
    BY <2>1, <2>2, LifeMoves
<1>8. CASE Model
  <2>1. /\ pc \in Building \cup {"up"}
        /\ UNCHANGED <<owned, conn, closings, cached>>
    BY <1>8 DEF Model
  <2>2. \/ pc' \in {"models"} \cup Finished
        \/ pc \notin {"register", "open"} /\ pc' \notin {"register", "open"}
        \/ pc = "register" /\ pc' = "open" /\ at' = at
    BY <1>8 DEF Model
  <2> QED
    BY <2>1, <2>2, LifeMoves
<1>9. CASE Context
  <2>1. /\ pc \in Building \cup {"up"}
        /\ UNCHANGED <<owned, conn, closings, cached>>
    BY <1>9 DEF Context
  <2>2. \/ pc' \in {"models"} \cup Finished
        \/ pc \notin {"register", "open"} /\ pc' \notin {"register", "open"}
        \/ pc = "register" /\ pc' = "open" /\ at' = at
    BY <1>9 DEF Context
  <2> QED
    BY <2>1, <2>2, LifeMoves
<1>10. CASE Services
  <2>1. /\ pc \in Building \cup {"up"}
        /\ UNCHANGED <<owned, conn, closings, cached>>
    BY <1>10 DEF Services
  <2>2. \/ pc' \in {"models"} \cup Finished
        \/ pc \notin {"register", "open"} /\ pc' \notin {"register", "open"}
        \/ pc = "register" /\ pc' = "open" /\ at' = at
    BY <1>10 DEF Services
  <2> QED
    BY <2>1, <2>2, LifeMoves
<1>11. CASE Interrupt
  <2>1. /\ pc \in Building \cup {"up"}
        /\ UNCHANGED <<owned, conn, closings, cached>>
    BY <1>11 DEF Interrupt, LifeTyped
  <2>2. \/ pc' \in {"models"} \cup Finished
        \/ pc \notin {"register", "open"} /\ pc' \notin {"register", "open"}
        \/ pc = "register" /\ pc' = "open" /\ at' = at
    BY <1>11 DEF Interrupt
  <2> QED
    BY <2>1, <2>2, LifeMoves
<1>12. CASE Shutdown
  <2>1. /\ pc \in Building \cup {"up"}
        /\ UNCHANGED <<owned, conn, closings, cached>>
    BY <1>12 DEF Shutdown
  <2>2. \/ pc' \in {"models"} \cup Finished
        \/ pc \notin {"register", "open"} /\ pc' \notin {"register", "open"}
        \/ pc = "register" /\ pc' = "open" /\ at' = at
    BY <1>12 DEF Shutdown
  <2> QED
    BY <2>1, <2>2, LifeMoves
<1>13. CASE CloseModels
  BY <1>13, ClosingMoves DEF CloseModels
<1>14. CASE CloseDynamic
  <2>1. CASE cached = <<>>
    BY <1>14, <2>1, ClosingMoves DEF CloseDynamic
  <2>2. CASE cached # <<>>
    BY <1>14, <2>2, DynamicKeeps DEF CloseDynamic
  <2> QED
    BY <2>1, <2>2
<1>15. CASE CloseConnectors
  <2>1. CASE Left = {}
    BY <1>15, <2>1, ClosingMoves DEF CloseConnectors
  <2>2. CASE Left # {}
    BY <1>15, <2>2, StaticKeeps DEF CloseConnectors
  <2> QED
    BY <2>1, <2>2
<1>16. CASE InterruptClosing
  <2>1. /\ pc \in Closing /\ UNCHANGED <<owned, cause>>
        /\ pc' \in Closing \cup Finished
        /\ pc' \in {"models", "dynamic"} => pc \in {"models", "dynamic"}
        /\ pc = "connectors" => pc' \in {"connectors", "credentials"} \cup Finished
    BY <1>16, InterruptIs
  <2>2. CASE UNCHANGED <<cached, conn, closings>>
    BY <2>1, <2>2, ClosingMoves
  <2>3. CASE /\ pc = "dynamic" /\ cached # <<>>
             /\ Closed(Last(cached)) /\ cached' = Front(cached)
    BY <2>1, <2>3, DynamicKeeps
  <2>4. CASE /\ pc = "connectors" /\ Left # {}
             /\ Closed(Latest) /\ cached' = cached
    BY <2>1, <2>4, StaticKeeps
  <2> QED
    BY <1>16, <2>2, <2>3, <2>4, InterruptIs
<1>17. CASE ClearCredentials
  BY <1>17, ClosingMoves DEF ClearCredentials
<1>18. ASSUME NEW p \in Profiles, UseProfile(p)
       PROVE  Kept'
  <2>1. /\ pc = "up" /\ conn[p] = "none" /\ conn' = [conn EXCEPT ![p] = "open"]
        /\ cached' = Append(cached, p)
        /\ UNCHANGED <<pc, build, closings, cause>>
    BY <1>18 DEF UseProfile
  <2>2. ToSet(cached') = ToSet(cached) \cup {p}
    BY <2>1, AppendIs DEF LifeTyped
  <2>3. /\ conn'[p] = "open" /\ DOMAIN conn' = Static \cup Profiles
        /\ \A d \in Static \cup Profiles : d # p => conn'[d] = conn[d]
    BY <2>1 DEF LifeTyped
  <2> QED
    BY <2>1, <2>2, <2>3, SizesAre DEF Shut
<1>19. ASSUME NEW p \in Profiles, DeleteProfile(p)
       PROVE  Kept'
  <2>1. PICK i \in DOMAIN cached :
            cached[i] = p /\ cached' = RemoveAt(cached, i)
    BY <1>19 DEF DeleteProfile
  <2>2. ToSet(cached') = ToSet(cached) \ {p}
    BY <2>1, RemovesIs DEF LifeTyped
  <2>3. p \notin ToSet(closings) /\ Closed(p)
    BY <1>19, <2>1, SizesAre DEF DeleteProfile, Shut, ToSet
  <2>4. /\ ToSet(closings') = ToSet(closings) \cup {p} /\ conn'[p] \in Shut
        /\ DOMAIN conn' = Static \cup Profiles
        /\ \A d \in Static \cup Profiles : d # p => conn'[d] = conn[d]
    BY <2>3, ClosedIs
  <2>5. pc = "up" /\ UNCHANGED <<pc, build, cause>>
    BY <1>19 DEF DeleteProfile
  <2> QED
    BY <2>2, <2>3, <2>4, <2>5, SizesAre DEF Shut
<1>20. CASE InterruptLifespan
  <2>1. /\ pc \in Building \cup {"up"}
        /\ UNCHANGED <<owned, conn, closings, cached>>
    BY <1>20 DEF InterruptLifespan
  <2>2. pc' \in {"models"} \cup Finished
    BY <1>20 DEF InterruptLifespan
  <2> QED
    BY <2>1, <2>2, LifeMoves
<1> HIDE <1>a DEF Kept, Building, Before, InLoop, After, Closing,
        Finished, build, life, Raise
<1> QED
  BY <1>1, <1>2, <1>3, <1>4, <1>5, <1>6, <1>7, <1>8, <1>9, <1>10,
     <1>11, <1>12, <1>13, <1>14, <1>15, <1>16, <1>17, <1>18, <1>19, <1>20
     DEF Next, Starting, Ending

(* What each step of the closing has done.                                 *)
LEMMA LifeEnds ==
    ASSUME LifecycleAssumption, LifeInv, Next
    PROVE  StepsDone'
<1>a. LifeTyped /\ Sized /\ Kept /\ StepsDone /\ Turned /\ Caused
  BY DEF LifeInv
<1>1. CASE \/ Starting \/ Interrupt \/ Shutdown \/ CloseModels
           \/ \E p \in Profiles : UseProfile(p) \/ DeleteProfile(p)
  <2>1. pc' \notin {"connectors"} \cup Afterwards
    BY <1>1, <1>a, FollowingIs
       DEF Starting, Build, Datasource, Create, Register, Open, Semantics, Pend,
           Model, Context, Services, Interrupt, Shutdown, CloseModels,
           UseProfile, DeleteProfile, Raise, Afterwards, Finished
  <2> QED
    BY <2>1 DEF StepsDone, Afterwards
<1>2. CASE CloseDynamic
  BY <1>2 DEF CloseDynamic, StepsDone, Afterwards, Finished, life
<1>3. CASE CloseConnectors
  <2>1. /\ pc = "connectors" /\ UNCHANGED <<owned, cached, served, cut>>
        /\ pc' \in {"connectors", "credentials"}
    BY <1>3 DEF CloseConnectors, build, life
  <2>2. cached = <<>> \/ Lost("dynamic")
    BY <1>a, <2>1 DEF StepsDone
  <2>3. cached' = <<>> \/ Lost("dynamic")'
    BY <2>1, <2>2, LostStays
  <2>4. ASSUME pc' = "credentials"
        PROVE  \A c \in 1 .. Len(owned') : c \in ToSet(closings')
    <3>1. Left = {} /\ UNCHANGED <<closings, owned>>
      BY <1>3, <2>1, <2>4 DEF CloseConnectors, build, life
    <3>2. PICK k \in 0 .. Len(owned) :
              /\ ToSet(closings) \cap Static = k + 1 .. Len(owned)
              /\ Left = {} <=> k = 0
      BY LatestIs
    <3>3. ToSet(closings) \cap Static = 1 .. Len(owned)
      BY <3>1, <3>2
    <3> QED
      BY <3>1, <3>3
  <2> QED
    BY <2>1, <2>3, <2>4 DEF StepsDone, Afterwards, Finished
<1>4. CASE ClearCredentials
  <2>1. /\ pc = "credentials" /\ credentials' = {}
        /\ UNCHANGED <<owned, cached, closings, served, cut>>
    BY <1>4 DEF ClearCredentials, build
  <2>2. cached' = <<>> \/ Lost("dynamic")'
    BY <1>a, <2>1, LostStays DEF StepsDone, Afterwards
  <2>3. \/ Lost("connectors")'
        \/ \A c \in 1 .. Len(owned') : c \in ToSet(closings')
    BY <1>a, <2>1, LostStays DEF StepsDone, Afterwards
  <2> QED
    BY <2>1, <2>2, <2>3 DEF StepsDone
<1>5. CASE InterruptLifespan
  BY <1>5 DEF InterruptLifespan, StepsDone, Lost
<1>6. CASE InterruptClosing
  <2>1. /\ pc \in Closing /\ cut' = cut \cup {pc} /\ served' = served
        /\ owned' = owned
    BY <1>6, InterruptIs DEF build
  <2>2. CASE served /\ pc' = "dynamic"
    BY <2>2 DEF StepsDone, Afterwards, Finished
  <2>3. CASE served /\ pc' = "connectors"
    <3>1. pc = "dynamic"
      BY <1>6, <2>3, InterruptIs
    <3>2. Lost("dynamic")'
      BY <2>1, <2>3, <3>1 DEF Lost
    <3> QED
      BY <2>3, <3>2 DEF StepsDone, Afterwards, Finished
  <2>4. CASE served /\ pc' = "credentials"
    <3>1. pc = "connectors" /\ cached' = cached
      BY <1>6, <2>4, InterruptIs
    <3>2. Lost("connectors")'
      BY <2>1, <2>4, <3>1 DEF Lost
    <3>3. cached' = <<>> \/ Lost("dynamic")'
      BY <1>a, <2>1, <3>1, LostStays DEF StepsDone
    <3> QED
      BY <2>4, <3>2, <3>3 DEF StepsDone, Afterwards, Finished
  <2>5. CASE served /\ pc' = "down"
    <3>1. pc = "credentials" /\ UNCHANGED <<cached, closings>>
      BY <1>6, <2>5, InterruptIs
    <3>2. Lost("credentials")'
      BY <2>1, <2>5, <3>1 DEF Lost
    <3>3. cached' = <<>> \/ Lost("dynamic")'
      BY <1>a, <2>1, <3>1, LostStays DEF StepsDone, Afterwards
    <3>4. \/ Lost("connectors")'
          \/ \A c \in 1 .. Len(owned') : c \in ToSet(closings')
      BY <1>a, <2>1, <3>1, LostStays DEF StepsDone, Afterwards
    <3> QED
      BY <3>2, <3>3, <3>4 DEF StepsDone
  <2>6. CASE ~served /\ pc' = "failed"
    <3>1. /\ Earlier["dynamic"] = {"models", "dynamic"}
          /\ Earlier["connectors"] = {"models", "dynamic", "connectors"}
          /\ Earlier["credentials"] = Closing
      BY DEF Earlier
    <3>2. Lost("credentials")'
      BY <2>1, <2>6, <3>1 DEF Lost
    <3>3. cached' = <<>> \/ Lost("dynamic")'
      <4>1. CASE pc \in {"models", "dynamic"}
        BY <2>1, <2>6, <3>1, <4>1 DEF Lost
      <4>2. CASE pc \in {"connectors", "credentials"}
        <5>1. cached' = cached
          BY <1>6, <4>2, InterruptIs
        <5> QED
          BY <1>a, <2>1, <4>2, <5>1, LostStays DEF StepsDone, Afterwards
      <4> QED
        BY <2>1, <4>1, <4>2 DEF Closing
    <3>4. \/ Lost("connectors")'
          \/ \A c \in 1 .. Len(owned') : c \in ToSet(closings')
      <4>1. CASE pc \in {"models", "dynamic", "connectors"}
        BY <2>1, <2>6, <3>1, <4>1 DEF Lost
      <4>2. CASE pc = "credentials"
        <5>1. closings' = closings
          BY <1>6, <4>2, InterruptIs
        <5> QED
          BY <1>a, <2>1, <4>2, <5>1, LostStays DEF StepsDone, Afterwards
      <4> QED
        BY <2>1, <4>1, <4>2 DEF Closing
    <3> QED
      BY <3>2, <3>3, <3>4 DEF StepsDone
  <2> QED
    BY <1>6, <2>2, <2>3, <2>4, <2>5, <2>6, InterruptIs
<1> QED
  BY <1>1, <1>2, <1>3, <1>4, <1>5, <1>6 DEF Next, Ending

(* The order, when a connector of a profile is closed.                     *)
LEMMA ProfileTurns ==
    ASSUME LifeTyped, NEW c \in Profiles, c \notin Static, Turned,
           Closed(c), c \notin ToSet(closings), owned' = owned,
           ToSet(closings) \cap Static = {}
    PROVE  Turned'
<1>1. /\ closings' \in Seq(Static \cup Profiles)
      /\ ToSet(closings') = ToSet(closings) \cup {c}
  BY ClosedIs
<1>2. ToSet(closings') \cap Static = {}
  BY <1>1
<1>3. ReverseOrder'
  BY <1>2 DEF ReverseOrder, ToSet
<1>4. ToSet(closings') \cap Static = ToSet(closings) \cap Static
  BY <1>2
<1> QED
  BY <1>3, <1>4 DEF Turned

(* And when one of the configuration is.                                   *)
LEMMA LatestTurns ==
    ASSUME LifecycleAssumption, LifeInv, Left # {}, Closed(Latest),
           owned' = owned
    PROVE  Turned'
<1>1. LifeTyped /\ Sized /\ ReverseOrder
  BY DEF LifeInv, Turned
<1>2. PICK k \in 1 .. Len(owned) :
          ToSet(closings) \cap Static = k + 1 .. Len(owned) /\ Latest = k
  BY <1>1, LatestIs, SizesAre
<1>3. k \in Static /\ k \notin ToSet(closings) /\ Len(owned) \in Nat
  BY <1>1, <1>2, SizesAre
<1>4. /\ closings' = Append(closings, k)
      /\ ToSet(closings') = ToSet(closings) \cup {k}
  BY <1>1, <1>2, <1>3, ClosedIs
<1> DEFINE n == Len(closings)
<1>5. /\ n \in Nat /\ DOMAIN closings = 1 .. n
      /\ DOMAIN closings' = 1 .. n + 1 /\ closings'[n + 1] = k
      /\ \A i \in 1 .. n : closings'[i] = closings[i]
  <2>1. closings \in Seq(Static \cup Profiles)
    BY <1>1 DEF LifeTyped
  <2> QED
    BY <1>4, <2>1
<1>6. \A i \in 1 .. n : closings[i] \in Static => k < closings[i]
  <2>1. \A c \in k + 1 .. Len(owned) : k < c
    BY <1>2, <1>3
  <2> QED
    BY <1>2, <1>5, <2>1 DEF ToSet
<1>7. ReverseOrder'
  <2> SUFFICES ASSUME NEW i \in 1 .. n + 1, NEW j \in 1 .. n + 1, i < j,
                      closings'[i] \in Static
               PROVE  closings'[j] \in Static /\ closings'[j] < closings'[i]
    BY <1>5 DEF ReverseOrder
  <2>1. i \in 1 .. n /\ (j \in 1 .. n \/ j = n + 1)
    BY <1>5
  <2> QED
    BY <1>1, <1>3, <1>5, <1>6, <2>1 DEF ReverseOrder
<1>8. k - 1 \in 0 .. Len(owned)
      /\ (k - 1) + 1 .. Len(owned) = {k} \cup (k + 1 .. Len(owned))
  BY <1>2, <1>3
<1>9. ToSet(closings') \cap Static = (k - 1) + 1 .. Len(owned)
  BY <1>2, <1>3, <1>4, <1>8
<1> QED
  BY <1>7, <1>8, <1>9 DEF Turned

LEMMA LifeTurns ==
    ASSUME LifecycleAssumption, LifeInv, Next
    PROVE  Turned'
<1>a. LifeTyped /\ Sized /\ Kept /\ StepsDone /\ Turned /\ Caused
  BY DEF LifeInv
<1> USE <1>a DEF Turned, Building, Before, InLoop, After, Closing, Finished,
        build, life, Raise
<1>1. CASE Build
  <2>1. UNCHANGED <<closings, owned>>
    BY <1>1 DEF Build
  <2> QED
    BY <2>1 DEF ReverseOrder
<1>2. CASE Datasource
  <2>1. UNCHANGED <<closings, owned>>
    BY <1>2 DEF Datasource
  <2> QED
    BY <2>1 DEF ReverseOrder
<1>3. CASE Create
  <2>1. closings' = closings /\ ToSet(closings) \cap Static = {}
    BY <1>3, NoneShut DEF Create
  <2>2. ReverseOrder'
    BY <2>1 DEF ReverseOrder
  <2>3. Len(owned') \in Nat
    BY <1>3, LifeSizes, CountIs DEF Sized
  <2>4. Len(owned') \in 0 .. Len(owned')
        /\ Len(owned') + 1 .. Len(owned') = {}
    BY <2>3
  <2> QED
    BY <2>1, <2>2, <2>4
<1>4. CASE Register
  <2>1. UNCHANGED <<closings, owned>>
    BY <1>4 DEF Register
  <2> QED
    BY <2>1 DEF ReverseOrder
<1>5. CASE Open
  <2>1. UNCHANGED <<closings, owned>>
    BY <1>5 DEF Open
  <2> QED
    BY <2>1 DEF ReverseOrder
<1>6. CASE Semantics
  <2>1. UNCHANGED <<closings, owned>>
    BY <1>6 DEF Semantics
  <2> QED
    BY <2>1 DEF ReverseOrder
<1>7. CASE Pend
  <2>1. UNCHANGED <<closings, owned>>
    BY <1>7 DEF Pend
  <2> QED
    BY <2>1 DEF ReverseOrder
<1>8. CASE Model
  <2>1. UNCHANGED <<closings, owned>>
    BY <1>8 DEF Model
  <2> QED
    BY <2>1 DEF ReverseOrder
<1>9. CASE Context
  <2>1. UNCHANGED <<closings, owned>>
    BY <1>9 DEF Context
  <2> QED
    BY <2>1 DEF ReverseOrder
<1>10. CASE Services
  <2>1. UNCHANGED <<closings, owned>>
    BY <1>10 DEF Services
  <2> QED
    BY <2>1 DEF ReverseOrder
<1>11. CASE Interrupt
  <2>1. UNCHANGED <<closings, owned>>
    BY <1>11 DEF Interrupt
  <2> QED
    BY <2>1 DEF ReverseOrder
<1>12. CASE Shutdown
  <2>1. UNCHANGED <<closings, owned>>
    BY <1>12 DEF Shutdown
  <2> QED
    BY <2>1 DEF ReverseOrder
<1>13. CASE CloseModels
  <2>1. UNCHANGED <<closings, owned>>
    BY <1>13 DEF CloseModels
  <2> QED
    BY <2>1 DEF ReverseOrder
<1>14. CASE CloseDynamic
  <2>1. CASE cached = <<>>
    BY <1>14, <2>1 DEF CloseDynamic, ReverseOrder
  <2>2. CASE cached # <<>>
    <3>1. Last(cached) \in Profiles /\ Last(cached) \notin ToSet(closings)
      BY <2>2, DynamicIs
    <3>2. Last(cached) \notin Static
      BY <3>1, SizesAre
    <3>3. Closed(Last(cached)) /\ owned' = owned /\ pc = "dynamic"
      BY <1>14, <2>2 DEF CloseDynamic
    <3>4. ToSet(closings) \cap Static = {}
      BY <3>3 DEF Kept
    <3> QED
      BY <3>1, <3>2, <3>3, <3>4, ProfileTurns
  <2> QED
    BY <2>1, <2>2
<1>15. CASE CloseConnectors
  <2>1. CASE Left = {}
    BY <1>15, <2>1 DEF CloseConnectors, ReverseOrder
  <2>2. CASE Left # {}
    <3>1. Closed(Latest) /\ owned' = owned
      BY <1>15, <2>2 DEF CloseConnectors
    <3> QED
      BY <2>2, <3>1, LatestTurns
  <2> QED
    BY <2>1, <2>2
<1>16. CASE InterruptClosing
  <2>1. owned' = owned
    BY <1>16, InterruptIs
  <2>2. CASE UNCHANGED <<cached, conn, closings>>
    BY <2>1, <2>2 DEF ReverseOrder
  <2>3. CASE /\ pc = "dynamic" /\ cached # <<>>
             /\ Closed(Last(cached)) /\ cached' = Front(cached)
    <3>1. Last(cached) \in Profiles /\ Last(cached) \notin ToSet(closings)
      BY <2>3, DynamicIs
    <3>2. Last(cached) \notin Static
      BY <3>1, SizesAre
    <3>3. ToSet(closings) \cap Static = {}
      BY <2>3 DEF Kept
    <3> QED
      BY <2>1, <2>3, <3>1, <3>2, <3>3, ProfileTurns
  <2>4. CASE Left # {} /\ Closed(Latest)
    BY <2>1, <2>4, LatestTurns
  <2> QED
    BY <1>16, <2>2, <2>3, <2>4, InterruptIs
<1>17. CASE ClearCredentials
  <2>1. UNCHANGED <<closings, owned>>
    BY <1>17 DEF ClearCredentials
  <2> QED
    BY <2>1 DEF ReverseOrder
<1>18. ASSUME NEW p \in Profiles, UseProfile(p)
       PROVE  Turned'
  <2>1. UNCHANGED <<closings, owned>>
    BY <1>18 DEF UseProfile
  <2> QED
    BY <2>1 DEF ReverseOrder
<1>19. ASSUME NEW p \in Profiles, DeleteProfile(p)
       PROVE  Turned'
  <2>1. p \notin ToSet(closings) /\ Closed(p)
    BY <1>19, SizesAre DEF DeleteProfile, Kept, Shut, ToSet
  <2>2. ToSet(closings) \cap Static = {} /\ owned' = owned
    BY <1>19, NoneShut DEF DeleteProfile
  <2>3. p \notin Static
    BY SizesAre
  <2> QED
    BY <2>1, <2>2, <2>3, ProfileTurns
<1>20. CASE InterruptLifespan
  <2>1. UNCHANGED <<closings, owned>>
    BY <1>20 DEF InterruptLifespan
  <2> QED
    BY <2>1 DEF ReverseOrder
<1> HIDE <1>a DEF Turned, Building, Before, InLoop, After, Closing, Finished,
        build, life, Raise
<1> QED
  BY <1>1, <1>2, <1>3, <1>4, <1>5, <1>6, <1>7, <1>8, <1>9, <1>10,
     <1>11, <1>12, <1>13, <1>14, <1>15, <1>16, <1>17, <1>18, <1>19, <1>20
     DEF Next, Starting, Ending

(* A failure is told with the stage it happened in.                        *)
LEMMA CauseRaises ==
    ASSUME LifecycleAssumption, LifeInv, pc \in Building,
           NEW c \in {"exception", "database", "interrupt"}, Raise(c),
           c = "exception" => stage' = StageOf(pc),
           UNCHANGED <<serving, served, cut>>
    PROVE  Caused'
<1>1. ~served /\ ~serving /\ cut = {}
  BY DEF LifeInv, Caused, Building, Before, InLoop, After
<1>2. pc' = "models" /\ cause' = <<c, pc>>
  BY DEF Raise
<1>3. pc \in Steps
  BY DEF Building, Before, InLoop, After, Steps
<1>4. cause' # None
  BY <1>2, <1>3 DEF LifecycleAssumption, Causes
<1>5. cause'[1] = "exception" => stage' = StageOf(cause'[2])
  BY <1>2
<1>6. pc' \notin Building \cup Finished \cup {"up"}
  BY <1>2 DEF Building, Before, InLoop, After, Finished
<1> HIDE DEF StageOf
<1> QED
  BY <1>1, <1>2, <1>4, <1>5, <1>6
     DEF Caused, Building, Before, InLoop, After, Finished

(* The start goes on.                                                      *)
LEMMA CauseGoes ==
    ASSUME LifeInv, pc \in Building, pc' \in Building,
           UNCHANGED <<cause, serving, served, cut>>,
           pc' \in {"register", "open", "semantics"} => stage' = "connector",
           pc' \in {"runner", "services"} =>
               contexts' = IF routing' THEN 1 .. Len(pending') ELSE {}
    PROVE  Caused'
<1>1. ~served /\ ~serving /\ cause = None /\ cut = {}
  BY DEF LifeInv, Caused, Building, Before, InLoop, After
<1>2. pc' \notin Closing \cup Finished \cup {"up"}
  BY DEF Building, Before, InLoop, After, Closing, Finished
<1> QED
  BY <1>1, <1>2 DEF Caused, Finished

LEMMA LifeCauses ==
    ASSUME LifecycleAssumption, LifeInv, Next
    PROVE  Caused'
<1>a. LifeTyped /\ Sized /\ Kept /\ StepsDone /\ Turned /\ Caused
  BY DEF LifeInv
<1> USE <1>a DEF Building, Before, InLoop, After, Closing, Finished, build,
        life
<1>1. CASE Build
  <2>1. pc \in Building /\ UNCHANGED <<serving, served, cut>>
    BY <1>1, FollowingIs DEF Raise, Build
  <2>2. CASE pc' = "models"
    <3>1. \E c \in {"exception", "database", "interrupt"} :
              Raise(c) /\ (c = "exception" => stage' = StageOf(pc))
      BY <1>1, <2>2, FollowingIs DEF Raise, Build, StageOf, Caused
    <3> QED
      BY <2>1, <3>1, CauseRaises
  <2>3. CASE pc' # "models"
    <3>1. /\ pc' \in Building /\ cause' = cause
          /\ pc' \in {"register", "open", "semantics"} => stage' = "connector"
          /\ pc' \in {"runner", "services"} =>
                 contexts' = IF routing' THEN 1 .. Len(pending') ELSE {}
      BY <1>1, <2>3, FollowingIs DEF Raise, Build, Caused
    <3> QED
      BY <2>1, <3>1, CauseGoes
  <2> QED
    BY <2>2, <2>3
<1>2. CASE Datasource
  <2>1. pc \in Building /\ UNCHANGED <<serving, served, cut>>
    BY <1>2 DEF Raise, Datasource
  <2>2. CASE pc' = "models"
    <3>1. \E c \in {"exception", "database", "interrupt"} :
              Raise(c) /\ (c = "exception" => stage' = StageOf(pc))
      BY <1>2, <2>2 DEF Raise, Datasource, StageOf, Caused
    <3> QED
      BY <2>1, <3>1, CauseRaises
  <2>3. CASE pc' # "models"
    <3>1. /\ pc' \in Building /\ cause' = cause
          /\ pc' \in {"register", "open", "semantics"} => stage' = "connector"
          /\ pc' \in {"runner", "services"} =>
                 contexts' = IF routing' THEN 1 .. Len(pending') ELSE {}
      BY <1>2, <2>3 DEF Raise, Datasource, Caused
    <3> QED
      BY <2>1, <3>1, CauseGoes
  <2> QED
    BY <2>2, <2>3
<1>3. CASE Create
  <2>1. pc \in Building /\ UNCHANGED <<serving, served, cut>>
    BY <1>3 DEF Raise, Create
  <2>2. CASE pc' = "models"
    <3>1. \E c \in {"exception", "database", "interrupt"} :
              Raise(c) /\ (c = "exception" => stage' = StageOf(pc))
      BY <1>3, <2>2 DEF Raise, Create, StageOf, Caused
    <3> QED
      BY <2>1, <3>1, CauseRaises
  <2>3. CASE pc' # "models"
    <3>1. /\ pc' \in Building /\ cause' = cause
          /\ pc' \in {"register", "open", "semantics"} => stage' = "connector"
          /\ pc' \in {"runner", "services"} =>
                 contexts' = IF routing' THEN 1 .. Len(pending') ELSE {}
      BY <1>3, <2>3 DEF Raise, Create, Caused
    <3> QED
      BY <2>1, <3>1, CauseGoes
  <2> QED
    BY <2>2, <2>3
<1>4. CASE Register
  <2>1. pc \in Building /\ UNCHANGED <<serving, served, cut>>
    BY <1>4 DEF Raise, Register
  <2>2. CASE pc' = "models"
    <3>1. \E c \in {"exception", "database", "interrupt"} :
              Raise(c) /\ (c = "exception" => stage' = StageOf(pc))
      BY <1>4, <2>2 DEF Raise, Register, StageOf, Caused
    <3> QED
      BY <2>1, <3>1, CauseRaises
  <2>3. CASE pc' # "models"
    <3>1. /\ pc' \in Building /\ cause' = cause
          /\ pc' \in {"register", "open", "semantics"} => stage' = "connector"
          /\ pc' \in {"runner", "services"} =>
                 contexts' = IF routing' THEN 1 .. Len(pending') ELSE {}
      BY <1>4, <2>3 DEF Raise, Register, Caused
    <3> QED
      BY <2>1, <3>1, CauseGoes
  <2> QED
    BY <2>2, <2>3
<1>5. CASE Open
  <2>1. pc \in Building /\ UNCHANGED <<serving, served, cut>>
    BY <1>5 DEF Raise, Open
  <2>2. CASE pc' = "models"
    <3>1. \E c \in {"exception", "database", "interrupt"} :
              Raise(c) /\ (c = "exception" => stage' = StageOf(pc))
      BY <1>5, <2>2 DEF Raise, Open, StageOf, Caused
    <3> QED
      BY <2>1, <3>1, CauseRaises
  <2>3. CASE pc' # "models"
    <3>1. /\ pc' \in Building /\ cause' = cause
          /\ pc' \in {"register", "open", "semantics"} => stage' = "connector"
          /\ pc' \in {"runner", "services"} =>
                 contexts' = IF routing' THEN 1 .. Len(pending') ELSE {}
      BY <1>5, <2>3 DEF Raise, Open, Caused
    <3> QED
      BY <2>1, <3>1, CauseGoes
  <2> QED
    BY <2>2, <2>3
<1>6. CASE Semantics
  <2>1. pc \in Building /\ UNCHANGED <<serving, served, cut>>
    BY <1>6 DEF Raise, Semantics
  <2>2. CASE pc' = "models"
    <3>1. \E c \in {"exception", "database", "interrupt"} :
              Raise(c) /\ (c = "exception" => stage' = StageOf(pc))
      BY <1>6, <2>2 DEF Raise, Semantics, StageOf, Caused
    <3> QED
      BY <2>1, <3>1, CauseRaises
  <2>3. CASE pc' # "models"
    <3>1. /\ pc' \in Building /\ cause' = cause
          /\ pc' \in {"register", "open", "semantics"} => stage' = "connector"
          /\ pc' \in {"runner", "services"} =>
                 contexts' = IF routing' THEN 1 .. Len(pending') ELSE {}
      BY <1>6, <2>3 DEF Raise, Semantics, Caused
    <3> QED
      BY <2>1, <3>1, CauseGoes
  <2> QED
    BY <2>2, <2>3
<1>7. CASE Pend
  <2>1. pc \in Building /\ UNCHANGED <<serving, served, cut>>
    BY <1>7 DEF Raise, Pend
  <2>2. CASE pc' = "models"
    <3>1. \E c \in {"exception", "database", "interrupt"} :
              Raise(c) /\ (c = "exception" => stage' = StageOf(pc))
      BY <1>7, <2>2 DEF Raise, Pend, StageOf, Caused
    <3> QED
      BY <2>1, <3>1, CauseRaises
  <2>3. CASE pc' # "models"
    <3>1. /\ pc' \in Building /\ cause' = cause
          /\ pc' \in {"register", "open", "semantics"} => stage' = "connector"
          /\ pc' \in {"runner", "services"} =>
                 contexts' = IF routing' THEN 1 .. Len(pending') ELSE {}
      BY <1>7, <2>3 DEF Raise, Pend, Caused
    <3> QED
      BY <2>1, <3>1, CauseGoes
  <2> QED
    BY <2>2, <2>3
<1>8. CASE Model
  <2>1. pc \in Building /\ UNCHANGED <<serving, served, cut>>
    BY <1>8 DEF Raise, Model
  <2>2. CASE pc' = "models"
    <3>1. \E c \in {"exception", "database", "interrupt"} :
              Raise(c) /\ (c = "exception" => stage' = StageOf(pc))
      BY <1>8, <2>2 DEF Raise, Model, StageOf, Caused
    <3> QED
      BY <2>1, <3>1, CauseRaises
  <2>3. CASE pc' # "models"
    <3>1. /\ pc' \in Building /\ cause' = cause
          /\ pc' \in {"register", "open", "semantics"} => stage' = "connector"
          /\ pc' \in {"runner", "services"} =>
                 contexts' = IF routing' THEN 1 .. Len(pending') ELSE {}
      BY <1>8, <2>3 DEF Raise, Model, Caused
    <3> QED
      BY <2>1, <3>1, CauseGoes
  <2> QED
    BY <2>2, <2>3
<1>9. CASE Context
  <2>1. pc \in Building /\ UNCHANGED <<serving, served, cut>>
    BY <1>9 DEF Raise, Context
  <2>2. CASE pc' = "models"
    <3>1. \E c \in {"exception", "database", "interrupt"} :
              Raise(c) /\ (c = "exception" => stage' = StageOf(pc))
      BY <1>9, <2>2 DEF Raise, Context, StageOf, Caused
    <3> QED
      BY <2>1, <3>1, CauseRaises
  <2>3. CASE pc' # "models"
    <3>1. /\ pc' \in Building /\ cause' = cause
          /\ pc' \in {"register", "open", "semantics"} => stage' = "connector"
          /\ pc' \in {"runner", "services"} =>
                 contexts' = IF routing' THEN 1 .. Len(pending') ELSE {}
      BY <1>9, <2>3, SizesAre DEF Raise, Context, Caused
    <3> QED
      BY <2>1, <3>1, CauseGoes
  <2> QED
    BY <2>2, <2>3
<1>10. CASE Services
  <2>1. CASE pc' = "models"
    BY <1>10, <2>1, CauseRaises DEF Raise, Services, StageOf
  <2>2. CASE pc' = "up"
    BY <1>10, <2>2 DEF Raise, Services, Caused
  <2> QED
    BY <1>10, <2>1, <2>2 DEF Raise, Services
<1>11. CASE Interrupt
  <2>1. pc \in Building /\ UNCHANGED <<serving, served, cut>>
    BY <1>11 DEF Interrupt, LifeTyped
  <2>2. Raise("interrupt")
    BY <1>11 DEF Interrupt
  <2> QED
    BY <2>1, <2>2, CauseRaises
<1>12. CASE Shutdown
  BY <1>12 DEF Shutdown, Caused, StageOf
<1>13. CASE CloseModels
  BY <1>13 DEF CloseModels, Caused, StageOf
<1>14. CASE CloseDynamic
  BY <1>14 DEF CloseDynamic, Caused, StageOf
<1>15. CASE CloseConnectors
  BY <1>15 DEF CloseConnectors, Caused, StageOf
<1>16. CASE InterruptClosing
  <2>1. /\ pc \in Closing /\ cut' = cut \cup {pc} /\ cut' # {}
        /\ UNCHANGED <<build, serving, served, cause>>
    BY <1>16, InterruptIs
  <2>2. CASE served /\ pc' \in Closing
    <3>1. cut' \subseteq {"models", "dynamic", "connectors"}
      BY <1>16, <1>a, <2>1, <2>2, InterruptIs DEF Caused
    <3> QED
      BY <1>a, <2>1, <2>2, <3>1 DEF Caused
  <2>3. CASE served /\ pc = "credentials" /\ pc' = "down" /\ error' = "interrupt"
    <3>1. ~(cut' \subseteq {"models", "dynamic"})
      BY <2>1, <2>3
    <3> QED
      BY <1>a, <2>1, <2>3, <3>1 DEF Caused
  <2>4. CASE ~served /\ pc' = "failed" /\ error' = "interrupt"
    BY <1>a, <2>1, <2>4 DEF Caused
  <2> QED
    BY <1>16, <2>2, <2>3, <2>4, InterruptIs
<1>17. CASE ClearCredentials
  <2>1. /\ pc = "credentials" /\ error' = Raised
        /\ pc' = IF served THEN "down" ELSE "failed"
        /\ UNCHANGED <<build, conn, closings, serving, served, cut, cause>>
    BY <1>17 DEF ClearCredentials
  <2>2. ASSUME ~served
        PROVE  /\ cut = {}
               /\ error' = IF cause[1] = "exception" THEN StageOf(cause[2])
                           ELSE cause[1]
    BY <2>1, <2>2 DEF Raised, Caused
  <2>3. ASSUME served
        PROVE  error' = IF /\ cut \subseteq {"models", "dynamic"}
                           /\ \E c \in 1 .. Len(owned) : conn[c] = "close_failed"
                        THEN "DB_CLOSE_ERROR"
                        ELSE IF cut # {} THEN "interrupt" ELSE None
    <3>1. \A c \in Static : conn[c] = "close_failed" => c \in 1 .. Len(owned)
      BY SizesAre DEF Kept, Static
    <3>2. (\E c \in Static : conn[c] = "close_failed") <=>
              \E c \in 1 .. Len(owned) : conn[c] = "close_failed"
      BY <3>1, SizesAre
    <3>3. cut \subseteq {"models", "dynamic", "connectors"} /\ cause = None
      BY <2>1, <2>3 DEF Caused
    <3>4. cut \subseteq {"models", "dynamic"} <=> "connectors" \notin cut
      BY <3>3
    <3> QED
      BY <2>1, <3>2, <3>3, <3>4 DEF Raised
  <2> QED
    BY <2>1, <2>2, <2>3 DEF Caused
<1>18. ASSUME NEW p \in Profiles, UseProfile(p)
       PROVE  Caused'
  BY <1>18 DEF UseProfile, Caused, StageOf
<1>19. ASSUME NEW p \in Profiles, DeleteProfile(p)
       PROVE  Caused'
  BY <1>19 DEF DeleteProfile, Caused, StageOf
<1>20. CASE InterruptLifespan
  <2>1. /\ pc \in {"services", "up"} /\ pc' = IF served THEN "down" ELSE "failed"
        /\ cut' = {"lifespan"} /\ error' = "interrupt" /\ serving' = FALSE
        /\ UNCHANGED <<build, served, cause>>
    BY <1>20 DEF InterruptLifespan
  <2>2. cut' # {} /\ ~(cut' \subseteq {"models", "dynamic"})
    BY <2>1
  <2> QED
    BY <2>1, <2>2 DEF Caused
<1> HIDE <1>a DEF Building, Before, InLoop, After, Closing, Finished, build,
        life
<1> QED
  BY <1>1, <1>2, <1>3, <1>4, <1>5, <1>6, <1>7, <1>8, <1>9, <1>10,
     <1>11, <1>12, <1>13, <1>14, <1>15, <1>16, <1>17, <1>18, <1>19, <1>20
     DEF Next, Starting, Ending

LEMMA LifeTypedIs == LifecycleAssumption /\ LifeTyped /\ Sized => TypeOK
<1> SUFFICES ASSUME LifecycleAssumption, LifeTyped, Sized PROVE TypeOK
  OBVIOUS
<1>1. IsPrefix(registered, owned) /\ IsPrefix(pending, owned)
  <2>1. /\ Len(registered) <= Len(owned) /\ Len(pending) <= Len(owned)
    BY SizesAre
  <2> QED
    BY <2>1, PrefixIs DEF Sized
<1>2. pc \in Steps
  BY DEF LifeTyped, Building, Before, InLoop, After, Closing, Finished, Steps
<1>3. ToSet(cached) \subseteq Profiles
  BY DEF LifeTyped, ToSet
<1>4. ToSet(closings) \subseteq Static \cup Profiles
  BY DEF LifeTyped, ToSet
<1>5. {serving, served} \subseteq BOOLEAN
  BY DEF LifeTyped
<1> QED
  BY <1>1, <1>2, <1>3, <1>4, <1>5 DEF LifeTyped, TypeOK

LEMMA LifeStarts == LifecycleAssumption /\ Init => LifeInv
<1> SUFFICES ASSUME LifecycleAssumption, Init PROVE LifeInv
  OBVIOUS
<1>1. Counted(<<>>) /\ Len(<<>>) = 0 /\ ToSet(<<>>) = {}
  BY NoneCounted, ListsAre
<1>2. /\ pc = "profiles" /\ at = 1 /\ owned = <<>> /\ registered = <<>>
      /\ pending = <<>> /\ cached = <<>> /\ closings = <<>>
      /\ conn = [c \in Static \cup Profiles |-> "none"]
  BY DEF Init
<1>3. \A S : <<>> \in Seq(S) /\ IsInjective(<<>>)
  BY DEF IsInjective
<1>4. MaxSources \in Nat \ {0} /\ Len(configured) \in Nat
  BY ConfiguredIs DEF Init, LifecycleAssumption
<1>5. LifeTyped
  <2>1. at \in 1 .. MaxSources + 1
    BY <1>2, <1>4
  <2>2. serving \in BOOLEAN /\ served \in BOOLEAN /\ routing \in BOOLEAN
    BY DEF Init
  <2> QED
    BY <1>2, <1>3, <2>1, <2>2 DEF Init, LifeTyped, Building, Before
<1>6. Sized
  BY <1>1, <1>2, <1>4 DEF Init, Sized, Before, InLoop, After
<1>7. Kept
  BY <1>1, <1>2, <1>4 DEF Init, Kept, Building, Before, InLoop, After,
     Shut, Static
<1>b. StepsDone
  BY <1>2 DEF StepsDone, Afterwards, Finished
<1>8. Turned
  <2>1. ReverseOrder
    BY <1>2 DEF ReverseOrder
  <2>2. 0 \in 0 .. Len(owned)
        /\ ToSet(closings) \cap Static = 0 + 1 .. Len(owned)
    BY <1>1, <1>2
  <2> QED
    BY <2>1, <2>2 DEF Turned
<1>9. Caused
  BY <1>2 DEF Init, Caused, Building, Before, InLoop, After, Closing, Finished
<1> QED
  BY <1>5, <1>6, <1>7, <1>b, <1>8, <1>9 DEF LifeInv

LEMMA LifeGoes == LifecycleAssumption /\ LifeInv /\ Next => LifeInv'
  BY LifeTypes, LifeSizes, LifeKeeps, LifeEnds, LifeTurns, LifeCauses
     DEF LifeInv

LEMMA LifeStays == LifeInv /\ UNCHANGED vars => LifeInv'
<1> SUFFICES ASSUME LifeInv, UNCHANGED vars PROVE LifeInv'
  OBVIOUS
<1> USE DEF vars, build, life, LifeInv
<1>1. LifeTyped'
  BY DEF LifeTyped
<1>2. Sized'
  BY DEF Sized
<1>3. Kept'
  BY DEF Kept
<1>b. StepsDone'
  BY DEF StepsDone, Lost
<1>4. Turned'
  BY DEF Turned, ReverseOrder
<1>5. Caused'
  BY DEF Caused
<1> QED
  BY <1>1, <1>2, <1>3, <1>b, <1>4, <1>5

LEMMA LifeIs ==
    LifecycleAssumption /\ LifeInv =>
        /\ AllClosed /\ ReverseOrder /\ FailureTold
        /\ ServedOpen /\ CredentialsGone
<1> SUFFICES ASSUME LifecycleAssumption, LifeInv
             PROVE  /\ AllClosed /\ ReverseOrder /\ FailureTold
                    /\ ServedOpen /\ CredentialsGone
  OBVIOUS
<1>1. LifeTyped /\ Sized /\ Kept /\ StepsDone /\ Turned /\ Caused
  BY DEF LifeInv
<1> DEFINE n == Len(owned)
<1>2. /\ DOMAIN conn = Static \cup Profiles /\ n \in Nat
      /\ 1 .. n \subseteq Static
      /\ served => Len(registered) = n
  BY <1>1, SizesAre
<1>3. AllClosed
  <2>1. ToSet(closings) = {c \in DOMAIN conn : conn[c] \in Shut}
    <3>1. ToSet(closings) \subseteq DOMAIN conn
      BY <1>1, <1>2 DEF LifeTyped, ToSet
    <3> QED
      BY <1>1, <3>1 DEF Kept
  <2>2. ASSUME pc \in Finished, ~Lost("dynamic"), NEW p \in Profiles
        PROVE  conn[p] # "open"
    <3>1. cached = <<>> /\ ToSet(cached) = {}
      BY <1>1, <2>2, ListsAre DEF StepsDone, Afterwards
    <3> QED
      BY <1>1, <3>1 DEF Kept
  <2>3. ASSUME pc \in Finished, ~Lost("connectors"), NEW c \in Static
        PROVE  /\ conn[c] # "open"
               /\ conn[c] = "created" => /\ c \notin ToSet(owned)
                                         /\ cause = <<"interrupt", "create">>
    <3>1. ToSet(owned) = 1 .. n
      BY <1>1, SizesAre
    <3>2. CASE c \in 1 .. n
      <4>1. c \in ToSet(closings)
        BY <1>1, <2>3, <3>2 DEF StepsDone, Afterwards
      <4>2. conn[c] \in Shut
        BY <2>1, <4>1
      <4> QED
        BY <4>2 DEF Shut
    <3>3. CASE c > n
      <4>1. c \notin ToSet(owned)
        BY <1>2, <3>1, <3>3
      <4> QED
        BY <1>1, <3>3, <4>1 DEF Kept
    <3> QED
      BY <1>2, <3>2, <3>3 DEF Static
  <2> QED
    BY <1>1, <2>1, <2>2, <2>3 DEF AllClosed, LifeTyped, Shut
<1>4. ReverseOrder
  BY <1>1 DEF Turned
<1>5. FailureTold
  <2>1. ASSUME pc = "down" PROVE ToSet(registered) = 1 .. n
    BY <1>1, <1>2, <2>1, SizesAre DEF Caused
  <2> QED
    BY <1>1, <2>1 DEF Caused, FailureTold
<1>6. ServedOpen
  <2> SUFFICES ASSUME serving
               PROVE  /\ Len(registered) = Len(configured)
                      /\ \A c \in ToSet(registered) : conn[c] = "open"
                      /\ IsInjective(configured)
                      /\ contexts = IF routing THEN ToSet(registered) ELSE {}
                      /\ \A p \in Profiles :
                             conn[p] = "open" <=> p \in ToSet(cached)
    BY DEF ServedOpen
  <2>1. pc = "up" /\ served
    BY <1>1 DEF Caused
  <2>2. /\ Len(registered) = n /\ Len(pending) = n /\ Len(configured) = n
        /\ ToSet(registered) = 1 .. n
    <3>1. Len(pending) = Len(configured)
      BY <1>1, <2>1 DEF Sized
    <3> QED
      BY <1>1, <2>1, <3>1, SizesAre
  <2>3. \A c \in 1 .. n : conn[c] = "open"
    <3> SUFFICES ASSUME NEW c \in 1 .. n PROVE conn[c] = "open"
      OBVIOUS
    <3>1. c \in Static /\ ~(c > Len(owned))
      BY <1>2
    <3>2. pc \in Building \cup {"up"} /\ pc \notin {"register", "open"}
      BY <2>1
    <3> QED
      BY <1>1, <3>1, <3>2 DEF Kept
  <2>4. IsInjective(configured)
    <3>1. DOMAIN configured = 1 .. n
      BY <1>1, <2>2, ConfiguredIs DEF LifeTyped
    <3>2. \A i, j \in 1 .. n : i < j => configured[i] # configured[j]
      BY <1>1, <2>2 DEF Sized
    <3>3. \A i, j \in 1 .. n : configured[i] = configured[j] => i = j
      BY <1>2, <3>2
    <3> QED
      BY <3>1, <3>3 DEF IsInjective
  <2>5. contexts = IF routing THEN 1 .. n ELSE {}
    BY <1>1, <2>1, <2>2 DEF Caused
  <2> QED
    BY <1>1, <2>2, <2>3, <2>4, <2>5 DEF Kept
<1>7. CredentialsGone
  BY <1>1 DEF StepsDone, CredentialsGone
<1> QED
  BY <1>3, <1>4, <1>5, <1>6, <1>7

LifeInvariant == part = "application" => LifeInv

LEMMA LifeSteps == LifeInvariant /\ [MCNext]_mcVars => LifeInvariant'
<1> SUFFICES ASSUME LifeInvariant, [MCNext]_mcVars, part' = "application"
             PROVE  LifeInv'
  BY DEF LifeInvariant
<1>1. LifecycleAssumption
  BY MCAssumption
<1>2. part = "application"
  BY DEF MCNext, mcVars
<1>3. LifeInv
  BY <1>2 DEF LifeInvariant
<1>4. CASE MCNext
  <2>1. Next
    BY <1>2, <1>4 DEF MCNext
  <2> QED
    BY <1>1, <1>3, <2>1, LifeGoes
<1>5. CASE UNCHANGED mcVars
  <2>1. UNCHANGED vars
    BY <1>5 DEF mcVars, vars, build, life
  <2> QED
    BY <1>3, <2>1, LifeStays
<1> QED
  BY <1>4, <1>5

LEMMA LifeInvariantHolds == MCSpec => []LifeInvariant
<1>1. MCInit => LifeInvariant
  <2>1. LifecycleAssumption
    BY MCAssumption
  <2> QED
    BY <2>1, LifeStarts DEF MCInit, LifeInvariant
<1>2. LifeInvariant /\ [MCNext]_mcVars => LifeInvariant'
  BY LifeSteps
<1> QED
  BY <1>1, <1>2, PTL DEF MCSpec

(* However the backend ends, and wherever it is interrupted: close was     *)
(* called at most once on a connector, the last one first; each step of    *)
(* the closing that no interrupt kept from its end closed all that was its *)
(* (but a connector that an interrupt left without an owner); the error    *)
(* told is the first failure, or the interrupt that came after it;         *)
(* requests found the services only while all was open; a credential is    *)
(* left only by an interrupt of the last step, of the lifespan, or of the  *)
(* cleanup of a failed start                                               *)
(* (ApplicationBootstrap.build, _close_application_resources, lifespan).   *)
THEOREM ApplicationClosed == MCSpec => []ClosedInOrder
<1>1. LifeInvariant => ClosedInOrder
  BY MCAssumption, LifeIs DEF LifeInvariant, ClosedInOrder
<1> QED
  BY <1>1, LifeInvariantHolds, PTL

(* The state of both processes stays of the declared kinds, through every  *)
(* build, close, signal and exit (ApplicationBootstrap, LocalAppLauncher). *)
THEOREM ProcessesTyped == MCSpec => []MCTypeOK
<1>1. LifeInvariant /\ RunInvariant => MCTypeOK
  <2>1. LifecycleAssumption
    BY MCAssumption
  <2> QED
    BY <2>1, LifeTypedIs, RunTypedIs
       DEF LifeInvariant, RunInvariant, LifeInv, RunInv, MCTypeOK
<1>2. MCSpec => []RunInvariant
  BY RunHolds
<1> QED
  BY <1>1, <1>2, LifeInvariantHolds, PTL
====
