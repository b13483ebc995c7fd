--------------------------- MODULE RuntimesProofs ---------------------------
(***************************************************************************)
(* The two registries of runtimes, that of datasources and that of models, *)
(* for any number of edits, editors, queries, connectors and restarts.     *)
(*                                                                         *)
(* Datasources: every open connector is owned, and none of an old          *)
(* configuration or password is served.  Read against                      *)
(* src/app/local/datasource_service.py and runtime_registry.py.  The cache *)
(* is not told of an edit before its last step.  What makes it inductive   *)
(* is that as long as no edit has changed what a runtime depends on        *)
(* (Settled) only what is stored can be expected, built or cached; that    *)
(* the last step waits for whoever builds; and that a connector is given   *)
(* to a builder only when nobody else has it (Owners).                     *)
(*                                                                         *)
(* Models: with threads, the runtime that is cached once no edit is under  *)
(* way is that of today, and a query that no edit disturbs gets it; on one *)
(* event loop, no key leaves its endpoint.  Read against                   *)
(* src/app/local/model_service.py and model_runtime_registry.py.  The      *)
(* argument is the same: until an edit has reached the store (ModelSettled)*)
(* nothing but today's identity can be expected, built or cached, unless   *)
(* nothing is expected at all, and then no query has read anything older   *)
(* (Expects); and the last step waits for whoever still builds.            *)
(***************************************************************************)
EXTENDS DatasourceRuntimes, TLAPS

CONSTANTS Endpoints, Keys
VARIABLES keys, revision, cached, found, fresh, given

\* The registry of models; what both have shares its name.
M == INSTANCE ModelRuntimes

(* A created profile, and one renamed, need no invalidation.               *)
Settled ==
    \A e \in Editors : editor[e] \in {"credentials", "invalidate"} =>
        job[e].op \in {"create", "rename"}

(* With threads, a profile that is deleted and created again may be served *)
(* to a query that has read the one before: nothing is said of that case.  *)
Apart == Serial \/ "create" \notin Edits \/ "delete" \notin Edits

JobsKnown == [op : {"none", "create", "replace", "clear", "rename", "delete"},
              conf : Confs \cup {None}, secret : Secrets \cup {None},
              was : (Confs \cup {None}) \X (Secrets \cup {None})
                    \X (Confs \cup {None}) \X (Conns \cup {None}) \cup {None}]

(* TypeOK, and what it leaves open.                                        *)
Typed ==
    /\ TypeOK
    /\ job \in [Editors -> JobsKnown]

(* One edit at a time; what it does, by its operation and where it is.     *)
JobOK(e) ==
    /\ job[e].op = "delete" => /\ job[e].conf = None /\ job[e].secret = None
                               /\ "delete" \in Edits
    /\ job[e].op # "delete" => job[e].conf \in Confs
    /\ job[e].op = "create" => "create" \in Edits
    /\ editor[e] \in {"credentials", "invalidate"} => stored = job[e].conf
    /\ editor[e] = "invalidate" =>
           password = job[e].secret /\ job[e].op \notin {"create", "rename"}
    /\ job[e].op = "rename" => job[e].conf = stored /\ job[e].secret = password
    /\ job[e].op = "create" /\ editor[e] # "credentials" => stored = None
    /\ job[e].op = "create" => password = None /\ expected = None

Jobs ==
    /\ \A e, f \in Editors : editor[e] # "idle" /\ editor[f] # "idle" => e = f
    /\ \A e \in Editors :
           editor[e] \in {"validate", "store", "credentials", "invalidate"} =>
               JobOK(e)

(* Who has which connector.                                                *)
Owners ==
    /\ ConnectorsOwned
    /\ runtime # None => conn[runtime].open
    /\ \A r \in Readers : reader[r] = "build" =>
           /\ runtime = None /\ using[r] \in Conns /\ conn[using[r]].open
           /\ \A q \in Readers : reader[q] = "build" => q = r
           /\ \A q \in Readers : using[q] = using[r] => q = r
    /\ \A r \in Readers : Runs(r) => using[r] \in Conns \cup {Static}

(* Without a password there is no runtime, without a profile no password.  *)
NoPassword ==
    /\ Settled /\ stored = None => password = None /\ expected = None
    /\ Settled /\ password = None =>
           runtime = None /\ \A r \in Readers : reader[r] # "build"
    /\ "delete" \notin Edits /\ stored = None =>
           \A r \in Readers : reader[r] # "enter"

IsCurrent(c) == conn[c].conf = stored /\ conn[c].secret = password

(* What is expected, built and cached.                                     *)
Served ==
    Apart /\ Settled =>
        /\ stored # None =>
               \/ expected = stored
               \/ /\ expected = None
                  /\ \A r \in Readers :
                         reader[r] = "enter" => profile[r] = stored
        /\ \A r \in Readers : reader[r] = "build" => IsCurrent(using[r])
        /\ runtime # None => IsCurrent(runtime)

(* On one event loop edits and queries follow each other, and an edit      *)
(* finds what it found at first until it has stored.                       *)
Loop ==
    Serial =>
        /\ \A r \in Readers :
               reader[r] \in {"enter", "build"} => MutationLockFree
        /\ \A e \in Editors :
               editor[e] \in {"validate", "store", "failed"} =>
                   job[e].was = Found

IInv == Typed /\ Jobs /\ Owners /\ NoPassword /\ Served /\ Loop

-----------------------------------------------------------------------------
(* Edits                                                                   *)

Connectors == [Conns -> [conf : Confs \cup {None},
                         secret : Secrets \cup {None}, open : BOOLEAN]]

(* Closing a connector, or none, closes no other.                          *)
LEMMA ClosesOne ==
    ASSUME RuntimeAssumption, Typed, NEW c \in Conns \cup {None}
    PROVE  /\ Closed(c) \in Connectors
           /\ \A d \in Conns : d # c => Closed(c)[d] = conn[d]
           /\ \A d \in Conns : Closed(c)[d].open => d # c /\ conn[d].open
<1>1. conn \in Connectors
  BY DEF Typed, TypeOK, Connectors
<1>2. CASE c = None
  BY <1>1, <1>2 DEF Closed, RuntimeAssumption
<1>3. CASE c # None
  <2>1. c \in Conns /\ Closed(c) = [conn EXCEPT ![c].open = FALSE]
    BY <1>3 DEF Closed
  <2>2. Closed(c) = [conn EXCEPT ![c] = [conn[c] EXCEPT !.open = FALSE]]
    BY <2>1
  <2>3. [conn[c] EXCEPT !.open = FALSE] \in
            [conf : Confs \cup {None}, secret : Secrets \cup {None},
             open : BOOLEAN]
    BY <1>1, <2>1 DEF Connectors
  <2>4. ~[conn[c] EXCEPT !.open = FALSE].open
    BY <1>1, <2>1 DEF Connectors
  <2>5. Closed(c) \in Connectors
    BY <1>1, <2>1, <2>2, <2>3 DEF Connectors
  <2>6. /\ \A d \in Conns : d # c => Closed(c)[d] = conn[d]
        /\ ~Closed(c)[c].open
    BY <1>1, <2>1, <2>2, <2>4 DEF Connectors
  <2> QED
    BY <2>5, <2>6
<1> QED
  BY <1>2, <1>3

LEMMA FreeSettled == MutationLockFree => Settled
BY DEF MutationLockFree, Settled

LEMMA InitIInv ==
    ASSUME RuntimeAssumption, Init
    PROVE  IInv
<1>1. Typed
  BY DEF Init, Typed, TypeOK, JobsKnown, NoJob, Unopened, RuntimeAssumption
<1>2. Jobs
  BY DEF Init, Jobs
<1>3. Owners
  BY DEF Init, Owners, ConnectorsOwned, Runs, Unopened
<1>4. NoPassword /\ Served
  BY DEF Init, NoPassword, Served
<1>5. Loop
  BY DEF Init, Loop
<1> QED
  BY <1>1, <1>2, <1>3, <1>4, <1>5 DEF IInv

(* An edit leaves the queries alone, and what they have unless it closes   *)
(* something.                                                              *)
LEMMA EditKeeps ==
    ASSUME IInv, UNCHANGED <<runtime, conn, readVars>>
    PROVE  Owners'
BY DEF IInv, Owners, ConnectorsOwned, Runs, readVars

(* While the editor e is not idle no other is, and on one event loop no    *)
(* query is at the registry.                                               *)
LEMMA EditAlone ==
    ASSUME IInv, NEW e \in Editors, editor[e] # "idle"
    PROVE  /\ \A f \in Editors : f # e => editor[f] = "idle"
           /\ Serial => \A r \in Readers : reader[r] \notin {"enter", "build"}
BY DEF IInv, Jobs, Loop, MutationLockFree

(* What an edit begins with.                                               *)
LEMMA BeginTyped ==
    ASSUME RuntimeAssumption, IInv, NEW e \in Editors,
           BeginCreate(e) \/ BeginReplace(e) \/ BeginDelete(e)
    PROVE  \E j \in JobsKnown, next \in {"validate", "store"} :
               /\ editor' = [editor EXCEPT ![e] = next]
               /\ job' = [job EXCEPT ![e] = j] /\ j.was = Found
               /\ j.op = "delete" => /\ j.conf = None /\ j.secret = None
                                     /\ "delete" \in Edits
               /\ j.op # "delete" => j.conf \in Confs
               /\ j.op = "create" => "create" \in Edits /\ stored = None
               /\ j.op = "rename" => j.conf = stored /\ j.secret = password
<1>1. Found \in (Confs \cup {None}) \X (Secrets \cup {None})
                \X (Confs \cup {None}) \X (Conns \cup {None})
      /\ password \in Secrets \cup {None}
  BY DEF IInv, Typed, TypeOK, Found
<1>2. CASE BeginCreate(e)
  <2>1. PICK conf \in Confs, secret \in Secrets :
            /\ "create" \in Edits /\ stored = None
            /\ Begins(e, "create", conf, secret, "validate")
    BY <1>2 DEF BeginCreate
  <2> DEFINE j == [op |-> "create", conf |-> conf, secret |-> secret,
                   was |-> Found]
  <2> j \in JobsKnown
    BY <1>1 DEF JobsKnown
  <2> WITNESS j \in JobsKnown, "validate" \in {"validate", "store"}
  <2> QED
    BY <2>1 DEF Begins
<1>3. CASE BeginReplace(e)
  <2>1. PICK conf \in Confs, secret \in Secrets \cup {None, Keep} :
            /\ secret = None => ~Protected(conf)
            /\ Begins(e, IF secret = None THEN "clear"
                         ELSE IF ShouldValidate(conf, secret) THEN "replace"
                         ELSE "rename",
                      conf, NextSecret(secret),
                      IF secret # None /\ ShouldValidate(conf, secret)
                      THEN "validate" ELSE "store")
    BY <1>3 DEF BeginReplace
  <2> DEFINE op == IF secret = None THEN "clear"
                   ELSE IF ShouldValidate(conf, secret) THEN "replace"
                   ELSE "rename"
             next == IF secret # None /\ ShouldValidate(conf, secret)
                     THEN "validate" ELSE "store"
             j == [op |-> op, conf |-> conf, secret |-> NextSecret(secret),
                   was |-> Found]
  <2>2. op = "rename" => conf = stored /\ NextSecret(secret) = password
    BY DEF ShouldValidate, Protected, NextSecret
  <2>3. op \in {"clear", "replace", "rename"}
        /\ NextSecret(secret) \in Secrets \cup {None}
    BY <1>1 DEF NextSecret, RuntimeAssumption
  <2>4. editor' = [editor EXCEPT ![e] = next] /\ job' = [job EXCEPT ![e] = j]
    BY <2>1 DEF Begins
  <2> next \in {"validate", "store"}
    OBVIOUS
  <2> HIDE DEF op, next
  <2> j \in JobsKnown
    BY <1>1, <2>3 DEF JobsKnown
  <2> WITNESS j \in JobsKnown, next \in {"validate", "store"}
  <2> QED
    BY <2>2, <2>3, <2>4
<1>4. CASE BeginDelete(e)
  <2> DEFINE j == [op |-> "delete", conf |-> None, secret |-> None,
                   was |-> Found]
  <2> j \in JobsKnown
    BY <1>1 DEF JobsKnown
  <2> WITNESS j \in JobsKnown, "store" \in {"validate", "store"}
  <2> QED
    BY <1>4 DEF BeginDelete, Begins
<1> QED
  BY <1>2, <1>3, <1>4

LEMMA BeginIInv ==
    ASSUME RuntimeAssumption, IInv, NEW e \in Editors, Begin(e)
    PROVE  IInv'
<1>1. /\ MutationLockFree /\ LoopFree /\ edits < MaxEdits
      /\ edits' = edits + 1
      /\ UNCHANGED <<stored, password, expected, runtime, conn, reader,
                     profile, using, crashes>>
      /\ BeginCreate(e) \/ BeginReplace(e) \/ BeginDelete(e)
  BY DEF Begin, memory, readVars
<1>2. PICK j \in JobsKnown, next \in {"validate", "store"} :
          /\ editor' = [editor EXCEPT ![e] = next]
          /\ job' = [job EXCEPT ![e] = j] /\ j.was = Found
          /\ j.op = "delete" => /\ j.conf = None /\ j.secret = None
                                /\ "delete" \in Edits
          /\ j.op # "delete" => j.conf \in Confs
          /\ j.op = "create" => "create" \in Edits /\ stored = None
          /\ j.op = "rename" => j.conf = stored /\ j.secret = password
  BY <1>1, BeginTyped
<1>3. Settled /\ Typed /\ (\A f \in Editors : editor[f] = "idle")
  BY <1>1, FreeSettled DEF IInv, MutationLockFree
<1>4. /\ editor'[e] = next /\ job'[e] = j
      /\ \A f \in Editors : f # e => editor'[f] = "idle"
  BY <1>2, <1>3 DEF Typed, TypeOK
<1>5. Settled'
  BY <1>4 DEF Settled
<1>6. Typed'
  BY <1>1, <1>2, <1>3 DEF Typed, TypeOK, JobsKnown, RuntimeAssumption
<1>7. Jobs'
  <2>1. stored = None => password = None /\ expected = None
    BY <1>3 DEF IInv, NoPassword
  <2>2. JobOK(e)'
    BY <1>1, <1>2, <1>4, <2>1 DEF JobOK
  <2> QED
    BY <1>4, <2>2 DEF Jobs
<1>8. Owners'
  BY <1>1, EditKeeps DEF readVars
<1>9. NoPassword' /\ Served'
  BY <1>1, <1>3 DEF IInv, NoPassword, Served, IsCurrent, Apart
<1>10. Loop'
  BY <1>1, <1>2, <1>4 DEF Loop, LoopFree, Found
<1> QED
  BY <1>6, <1>7, <1>8, <1>9, <1>10 DEF IInv

(* Steps of an edit that change nothing but where it is.                   *)
LEMMA WalksIInv ==
    ASSUME RuntimeAssumption, IInv, NEW e \in Editors,
           Validate(e) \/ Fail(e) \/ Return(e)
    PROVE  IInv'
<1>1. /\ editor[e] \in {"validate", "store", "done", "failed"}
      /\ UNCHANGED <<stored, password, expected, runtime, conn, edits,
                     reader, profile, using, crashes>>
  BY DEF Validate, Fail, Return, memory, readVars
<1>2. /\ \A f \in Editors : f # e => editor[f] = "idle"
      /\ Serial => \A r \in Readers : reader[r] \notin {"enter", "build"}
  BY <1>1, EditAlone
<1>3. Typed /\ Settled
  BY <1>1, <1>2 DEF IInv, Settled
<1>4. /\ \A f \in Editors : f # e => editor'[f] = "idle"
      /\ \/ /\ editor'[e] \in {"store", "failed"} /\ job' = job
            /\ editor[e] \in {"validate", "store"}
         \/ editor'[e] = "idle"
  BY <1>2, <1>3 DEF Typed, TypeOK, Validate, Fail, Return
<1>5. Settled'
  BY <1>4 DEF Settled
<1>6. Typed'
  <2>1. NoJob \in JobsKnown
    BY DEF NoJob, JobsKnown
  <2>2. job' \in [Editors -> JobsKnown]
    BY <1>3, <2>1 DEF Typed, Validate, Fail, Return
  <2>3. \A f \in Editors : job'[f].conf \in Confs \cup {None}
                           /\ job'[f].secret \in Secrets \cup {None}
    BY <2>2 DEF JobsKnown
  <2>4. editor' \in [Editors -> {"idle", "validate", "store", "credentials",
                                "invalidate", "done", "failed"}]
    BY <1>3 DEF Typed, TypeOK, Validate, Fail, Return
  <2> QED
    BY <1>1, <1>3, <2>2, <2>3, <2>4 DEF Typed, TypeOK
<1>7. Jobs'
  BY <1>1, <1>4 DEF IInv, Jobs, JobOK
<1>8. Owners'
  BY <1>1, EditKeeps DEF readVars
<1>9. NoPassword' /\ Served'
  BY <1>1, <1>3 DEF IInv, NoPassword, Served, IsCurrent, Apart
<1>10. Loop'
  BY <1>1, <1>2, <1>4 DEF IInv, Loop, Found
<1> QED
  BY <1>6, <1>7, <1>8, <1>9, <1>10 DEF IInv

(* Storing the profile: a created one is new to every query, a renamed one *)
(* is the same, any other unsettles the cache.                             *)
LEMMA StoreIInv ==
    ASSUME RuntimeAssumption, IInv, NEW e \in Editors, Store(e)
    PROVE  IInv'
<1>1. /\ editor[e] = "store" /\ stored' = job[e].conf
      /\ editor' = [editor EXCEPT ![e] = "credentials"]
      /\ UNCHANGED <<password, expected, runtime, conn, job, edits,
                     reader, profile, using, crashes>>
  BY DEF Store, memory, readVars
<1>2. /\ \A f \in Editors : f # e => editor[f] = "idle"
      /\ Serial => \A r \in Readers : reader[r] \notin {"enter", "build"}
  BY <1>1, EditAlone
<1>3. Typed /\ Settled /\ JobOK(e)
  BY <1>1, <1>2 DEF IInv, Settled, Jobs
<1>4. /\ editor'[e] = "credentials"
      /\ \A f \in Editors : f # e => editor'[f] = "idle"
  BY <1>1, <1>2, <1>3 DEF Typed, TypeOK
<1>5. Settled' <=> job[e].op \in {"create", "rename"}
  BY <1>1, <1>4 DEF Settled
<1>6. Typed'
  BY <1>1, <1>3 DEF Typed, TypeOK, JobsKnown
<1>7. Jobs'
  BY <1>1, <1>3, <1>4 DEF Jobs, JobOK
<1>8. Owners'
  BY <1>1, EditKeeps DEF readVars
<1>9. NoPassword'
  <2>1. CASE job[e].op = "create"
    BY <1>1, <1>3, <1>5, <2>1
       DEF IInv, NoPassword, JobOK, RuntimeAssumption
  <2>2. CASE job[e].op = "rename"
    BY <1>1, <1>3, <1>5, <2>2 DEF IInv, NoPassword, JobOK
  <2>3. CASE job[e].op \notin {"create", "rename"}
    BY <1>1, <1>3, <1>5, <2>3
       DEF IInv, NoPassword, JobOK, RuntimeAssumption
  <2> QED
    BY <2>1, <2>2, <2>3
<1>10. Served'
  <2>1. CASE job[e].op = "create"
    <3>1. Apart => \A r \in Readers : reader[r] # "enter"
      BY <1>2, <1>1, <1>3, <2>1 DEF IInv, NoPassword, JobOK, Apart
    <3>2. /\ expected = None /\ runtime = None
          /\ \A r \in Readers : reader[r] # "build"
      BY <1>1, <1>3, <2>1 DEF IInv, NoPassword, JobOK
    <3> QED
      BY <1>1, <3>1, <3>2 DEF Served, Apart
  <2>2. CASE job[e].op = "rename"
    BY <1>1, <1>3, <2>2 DEF IInv, Served, JobOK, IsCurrent, Apart
  <2>3. CASE job[e].op \notin {"create", "rename"}
    BY <1>5, <2>3 DEF Served
  <2> QED
    BY <2>1, <2>2, <2>3
<1>11. Loop'
  BY <1>1, <1>2, <1>4 DEF Loop
<1> QED
  BY <1>6, <1>7, <1>8, <1>9, <1>10, <1>11 DEF IInv

LEMMA CredentialsIInv ==
    ASSUME RuntimeAssumption, IInv, NEW e \in Editors, Credentials(e)
    PROVE  IInv'
<1>1. /\ editor[e] = "credentials" /\ password' = job[e].secret
      /\ editor' = [editor EXCEPT ![e] =
             IF job[e].op \in {"create", "rename"} THEN "done"
             ELSE "invalidate"]
      /\ UNCHANGED <<stored, expected, runtime, conn, job, edits,
                     reader, profile, using, crashes>>
  BY DEF Credentials, readVars
<1>2. /\ \A f \in Editors : f # e => editor[f] = "idle"
      /\ Serial => \A r \in Readers : reader[r] \notin {"enter", "build"}
  BY <1>1, EditAlone
<1>3. Typed /\ JobOK(e)
  BY <1>1 DEF IInv, Jobs
<1>4. /\ editor'[e] = IF job[e].op \in {"create", "rename"} THEN "done"
                      ELSE "invalidate"
      /\ \A f \in Editors : f # e => editor'[f] = "idle"
  BY <1>1, <1>2, <1>3 DEF Typed, TypeOK
<1>5. /\ Settled' <=> job[e].op \in {"create", "rename"}
      /\ Settled <=> job[e].op \in {"create", "rename"}
  BY <1>1, <1>2, <1>4 DEF Settled
<1>6. Typed'
  BY <1>1, <1>3 DEF Typed, TypeOK, JobsKnown
<1>7. Jobs'
  BY <1>1, <1>3, <1>4 DEF Jobs, JobOK
<1>8. Owners'
  BY <1>1, EditKeeps DEF readVars
<1>9. job[e].op = "create" =>
          /\ stored # None /\ runtime = None
          /\ \A r \in Readers : reader[r] # "build"
  BY <1>1, <1>3, <1>5 DEF IInv, NoPassword, JobOK, RuntimeAssumption
<1>10. job[e].op = "rename" => password' = password
  BY <1>1, <1>3 DEF JobOK
<1>11. NoPassword'
  BY <1>1, <1>5, <1>9, <1>10 DEF IInv, NoPassword
<1>12. Served'
  BY <1>1, <1>5, <1>9, <1>10 DEF IInv, Served, IsCurrent, Apart
<1>13. Loop'
  BY <1>1, <1>2, <1>4 DEF Loop
<1> QED
  BY <1>6, <1>7, <1>8, <1>11, <1>12, <1>13 DEF IInv

(* The last step waits for whoever builds, closes what is cached and says  *)
(* what is expected now.                                                   *)
LEMMA InvalidateIInv ==
    ASSUME RuntimeAssumption, IInv, NEW e \in Editors, Invalidate(e)
    PROVE  IInv'
<1>1. /\ editor[e] = "invalidate" /\ expected' = job[e].conf
      /\ \A r \in Readers : reader[r] # "build"
      /\ runtime' = None /\ conn' = Closed(runtime)
      /\ editor' = [editor EXCEPT ![e] = "done"]
      /\ UNCHANGED <<stored, password, job, edits, reader, profile, using,
                     crashes>>
  BY DEF Invalidate, readVars, RegistryLockFree
<1>2. /\ \A f \in Editors : f # e => editor[f] = "idle"
      /\ Serial => \A r \in Readers : reader[r] \notin {"enter", "build"}
  BY <1>1, EditAlone
<1>3. Typed /\ JobOK(e)
  BY <1>1 DEF IInv, Jobs
<1>4. \A f \in Editors : editor'[f] \in {"idle", "done"}
  BY <1>1, <1>2, <1>3 DEF Typed, TypeOK
<1>5. /\ conn' \in Connectors
      /\ \A c \in Conns : conn'[c].open => c # runtime /\ conn[c].open
  BY <1>1, <1>3, ClosesOne DEF Typed, TypeOK
<1>6. job[e].conf \in Confs \cup {None}
  BY <1>3 DEF Typed, TypeOK
<1>7. Typed'
  BY <1>1, <1>3, <1>5, <1>6 DEF Typed, TypeOK, Connectors
<1>8. Jobs'
  BY <1>1, <1>2, <1>4 DEF IInv, Jobs
<1>9. Owners'
  BY <1>1, <1>5 DEF IInv, Owners, ConnectorsOwned, Runs
<1>10. NoPassword'
  BY <1>1, <1>3 DEF IInv, NoPassword, JobOK, RuntimeAssumption
<1>11. Served'
  BY <1>1, <1>3 DEF Served, JobOK
<1>12. Loop'
  BY <1>1, <1>2, <1>4 DEF Loop
<1> QED
  BY <1>7, <1>8, <1>9, <1>10, <1>11, <1>12 DEF IInv

-----------------------------------------------------------------------------
(* Queries                                                                 *)

(* What a query does leaves the edits, the store and the password alone.   *)
LEMMA QueryKeeps ==
    ASSUME IInv, UNCHANGED <<stored, password, expected, editVars>>
    PROVE  Jobs' /\ Settled' = Settled /\ MutationLockFree' = MutationLockFree
BY DEF IInv, Jobs, JobOK, Settled, MutationLockFree, editVars

(* A query takes up or lays down a context, or works with it: connectors   *)
(* stay as they are.                                                       *)
LEMMA UsesIInv ==
    ASSUME RuntimeAssumption, IInv, NEW r \in Readers,
           NEW place \in {"idle", "enter", "run", "busy"},
           NEW p \in Confs \cup {None}, NEW c \in Conns \cup {None, Static},
           UNCHANGED <<stored, password, expected, runtime, conn, editVars,
                       crashes>>,
           reader[r] # "build",
           reader' = [reader EXCEPT ![r] = place],
           profile' = [profile EXCEPT ![r] = p],
           using' = [using EXCEPT ![r] = c],
           place = "enter" => LoopFree /\ stored # None /\ p = stored,
           place \in {"run", "busy"} => c # None,
           c \in Conns => c = using[r] \/ c = runtime
    PROVE  IInv'
<1>1. Jobs' /\ Settled' = Settled /\ MutationLockFree' = MutationLockFree
  BY QueryKeeps
<1>2. Typed
  BY DEF IInv
<1>3. /\ reader'[r] = place /\ profile'[r] = p /\ using'[r] = c
      /\ \A q \in Readers : q # r =>
             /\ reader'[q] = reader[q] /\ profile'[q] = profile[q]
             /\ using'[q] = using[q]
  BY <1>2 DEF Typed, TypeOK
<1>4. Typed'
  BY <1>2 DEF Typed, TypeOK, editVars
<1>5. Owners'
  <2>1. ConnectorsOwned'
    BY <1>3 DEF IInv, Owners, ConnectorsOwned
  <2>2. ASSUME NEW q \in Readers, reader'[q] = "build"
        PROVE  /\ runtime = None /\ using'[q] \in Conns
               /\ conn[using'[q]].open
               /\ \A s \in Readers : reader'[s] = "build" => s = q
               /\ \A s \in Readers : using'[s] = using'[q] => s = q
    <3>1. q # r /\ reader[q] = "build" /\ using'[q] = using[q]
      BY <1>3, <2>2
    <3>2. /\ runtime = None /\ using[q] \in Conns /\ conn[using[q]].open
          /\ \A s \in Readers : reader[s] = "build" => s = q
          /\ \A s \in Readers : using[s] = using[q] => s = q
      BY <3>1 DEF IInv, Owners
    <3>3. c # using[q]
      BY <3>1, <3>2 DEF RuntimeAssumption
    <3> QED
      BY <1>3, <3>1, <3>2, <3>3
  <2>3. \A q \in Readers : Runs(q)' => using'[q] \in Conns \cup {Static}
    BY <1>3 DEF IInv, Owners, Runs
  <2> QED
    BY <2>1, <2>2, <2>3 DEF IInv, Owners
<1>6. NoPassword'
  BY <1>1, <1>3 DEF IInv, NoPassword
<1>7. Served'
  BY <1>1, <1>3 DEF IInv, Served, IsCurrent, Apart
<1>8. Loop'
  BY <1>1, <1>3 DEF IInv, Loop, LoopFree, Found, editVars
<1> QED
  BY <1>1, <1>4, <1>5, <1>6, <1>7, <1>8 DEF IInv

(* Reading the profile, and what ends a query.                             *)
LEMMA ReadIInv ==
    ASSUME RuntimeAssumption, IInv, NEW r \in Readers,
           \/ Read(r) \/ UseStatic(r) \/ GiveUp(r) \/ Stale(r) \/ Reuse(r)
           \/ Operate(r) \/ Operated(r) \/ Finish(r)
    PROVE  IInv'
<1>1. /\ stored \in Confs \cup {None} /\ profile[r] \in Confs \cup {None}
      /\ using[r] \in Conns \cup {None, Static}
      /\ runtime \in Conns \cup {None}
      /\ reader \in [Readers -> {"idle", "enter", "build", "run", "busy"}]
      /\ profile \in [Readers -> Confs \cup {None}]
      /\ using \in [Readers -> Conns \cup {None, Static}]
      /\ Runs(r) => using[r] # None
  BY DEF IInv, Typed, TypeOK, Owners, RuntimeAssumption
<1>2. profile = [profile EXCEPT ![r] = @] /\ using = [using EXCEPT ![r] = @]
  BY <1>1
<1>3. CASE Read(r)
  BY <1>1, <1>2, <1>3, UsesIInv DEF Read, memory
<1>4. CASE UseStatic(r)
  BY <1>1, <1>2, <1>4, UsesIInv DEF UseStatic, memory, RuntimeAssumption
<1>5. CASE GiveUp(r) \/ Stale(r) \/ Finish(r)
  BY <1>1, <1>5, UsesIInv DEF GiveUp, Stale, Enters, Finish, Rests, memory,
     RuntimeAssumption
<1>6. CASE Reuse(r)
  BY <1>1, <1>2, <1>6, UsesIInv DEF Reuse, Enters, Current, memory
<1>7. CASE Operate(r) \/ Operated(r)
  BY <1>1, <1>2, <1>7, UsesIInv DEF Operate, Operated, Runs, memory
<1> QED
  BY <1>3, <1>4, <1>5, <1>6, <1>7

(* Without a password the cached connector is closed.                      *)
LEMMA MissingIInv ==
    ASSUME RuntimeAssumption, IInv, NEW r \in Readers, Missing(r)
    PROVE  IInv'
<1>1. /\ reader[r] = "enter" /\ password = None
      /\ \A q \in Readers : reader[q] # "build"
      /\ runtime' = None /\ conn' = Closed(runtime)
      /\ reader' = [reader EXCEPT ![r] = "idle"]
      /\ profile' = [profile EXCEPT ![r] = None]
      /\ using' = [using EXCEPT ![r] = None]
      /\ UNCHANGED <<stored, password, expected, editVars, crashes>>
  BY DEF Missing, Enters, RegistryLockFree, Rests
<1>2. Jobs' /\ Settled' = Settled /\ MutationLockFree' = MutationLockFree
  BY <1>1, QueryKeeps
<1>3. Typed
  BY DEF IInv
<1>4. /\ reader'[r] = "idle"
      /\ \A q \in Readers : q # r =>
             /\ reader'[q] = reader[q] /\ profile'[q] = profile[q]
             /\ using'[q] = using[q]
  BY <1>1, <1>3 DEF Typed, TypeOK
<1>5. /\ conn' \in Connectors
      /\ \A c \in Conns : conn'[c].open => c # runtime /\ conn[c].open
  BY <1>1, <1>3, ClosesOne DEF Typed, TypeOK
<1>6. Typed'
  BY <1>1, <1>3, <1>5 DEF Typed, TypeOK, Connectors, editVars
<1>7. Owners'
  BY <1>1, <1>4, <1>5 DEF IInv, Owners, ConnectorsOwned, Runs
<1>8. NoPassword'
  BY <1>1, <1>2, <1>4 DEF IInv, NoPassword
<1>9. Served'
  BY <1>1, <1>2, <1>4 DEF IInv, Served, Apart
<1>10. Loop'
  <2>1. Serial => MutationLockFree
    BY <1>1 DEF IInv, Loop
  <2> QED
    BY <1>1, <1>2, <1>4, <2>1 DEF Loop, MutationLockFree, editVars
<1> QED
  BY <1>2, <1>6, <1>7, <1>8, <1>9, <1>10 DEF IInv

(* A new connector is nobody's, and as long as everything is settled it    *)
(* has the stored configuration and the password of today.                 *)
LEMMA BuildIInv ==
    ASSUME RuntimeAssumption, IInv, NEW r \in Readers, Build(r)
    PROVE  IInv'
<1>1. PICK c \in Unused :
          /\ conn' = [Closed(runtime) EXCEPT
                 ![c] = [conf |-> profile[r], secret |-> password,
                         open |-> TRUE]]
          /\ using' = [using EXCEPT ![r] = c]
  BY DEF Build
<1>2. /\ reader[r] = "enter" /\ password # None
      /\ expected \in {None, profile[r]}
      /\ \A q \in Readers : reader[q] # "build"
      /\ runtime' = None
      /\ reader' = [reader EXCEPT ![r] = "build"]
      /\ UNCHANGED <<stored, password, expected, editVars, profile, crashes>>
  BY DEF Build, Enters, RegistryLockFree, Expected
<1>3. Jobs' /\ Settled' = Settled /\ MutationLockFree' = MutationLockFree
  BY <1>2, QueryKeeps
<1>4. Typed /\ c \in Conns /\ (\A q \in Readers : using[q] # c)
  BY DEF IInv, Unused
<1>5. /\ reader'[r] = "build" /\ using'[r] = c
      /\ \A q \in Readers : q # r =>
             reader'[q] = reader[q] /\ using'[q] = using[q]
  BY <1>1, <1>2, <1>4 DEF Typed, TypeOK
<1>6. /\ Closed(runtime) \in Connectors
      /\ \A d \in Conns : Closed(runtime)[d].open =>
             d # runtime /\ conn[d].open
  BY <1>4, ClosesOne DEF Typed, TypeOK
<1>7. /\ conn'[c] = [conf |-> profile[r], secret |-> password,
                     open |-> TRUE]
      /\ \A d \in Conns : d # c => conn'[d] = Closed(runtime)[d]
  BY <1>1, <1>4, <1>6 DEF Connectors
<1>8. Typed'
  <2>1. conn' \in Connectors
    BY <1>1, <1>4, <1>6 DEF Typed, TypeOK, Connectors
  <2> QED
    BY <1>1, <1>2, <1>4, <2>1 DEF Typed, TypeOK, Connectors, editVars
<1>9. Owners'
  <2>1. \A d \in Conns : conn[d].open => d = runtime
    BY <1>2 DEF IInv, Owners, ConnectorsOwned
  <2>2. \A d \in Conns : conn'[d].open => d = c
    BY <1>6, <1>7, <2>1
  <2>3. ConnectorsOwned'
    BY <1>5, <2>2 DEF ConnectorsOwned
  <2>4. \A q \in Readers : reader'[q] = "build" <=> q = r
    BY <1>2, <1>5
  <2>5. \A q \in Readers : using'[q] = c => q = r
    BY <1>4, <1>5
  <2>6. \A q \in Readers : Runs(q)' => using'[q] \in Conns \cup {Static}
    BY <1>5 DEF IInv, Owners, Runs
  <2> QED
    BY <1>2, <1>4, <1>5, <1>7, <2>3, <2>4, <2>5, <2>6 DEF Owners
<1>10. NoPassword'
  BY <1>2, <1>3, <1>5 DEF IInv, NoPassword
<1>11. Served'
  <2>1. ASSUME Apart, Settled
        PROVE  profile[r] = stored
    <3>1. stored # None
      BY <1>2, <2>1 DEF IInv, NoPassword
    <3> QED
      BY <1>2, <2>1, <3>1 DEF IInv, Served
  <2>2. Apart' = Apart
    BY DEF Apart
  <2>3. ASSUME Apart, Settled
        PROVE  IsCurrent(c)'
    BY <1>2, <1>7, <2>1, <2>3 DEF IsCurrent
  <2>4. \A q \in Readers : reader'[q] = "build" => using'[q] = c
    BY <1>2, <1>5
  <2> QED
    BY <1>2, <1>3, <1>5, <2>2, <2>3, <2>4 DEF IInv, Served, IsCurrent
<1>12. Loop'
  <2>1. Serial => MutationLockFree
    BY <1>2 DEF IInv, Loop
  <2> QED
    BY <1>2, <1>3, <2>1 DEF Loop, MutationLockFree, editVars
<1> QED
  BY <1>3, <1>8, <1>9, <1>10, <1>11, <1>12 DEF IInv

(* The runtime is cached.                                                  *)
LEMMA BuiltIInv ==
    ASSUME RuntimeAssumption, IInv, NEW r \in Readers, Built(r)
    PROVE  IInv'
<1>1. /\ reader[r] = "build" /\ runtime' = using[r]
      /\ reader' = [reader EXCEPT ![r] = "run"]
      /\ UNCHANGED <<stored, password, expected, conn, editVars, profile,
                     using, crashes>>
  BY DEF Built
<1>2. Jobs' /\ Settled' = Settled /\ MutationLockFree' = MutationLockFree
  BY <1>1, QueryKeeps
<1>3. Typed
  BY DEF IInv
<1>4. /\ runtime = None /\ using[r] \in Conns /\ conn[using[r]].open
      /\ \A q \in Readers : reader[q] = "build" => q = r
  BY <1>1 DEF IInv, Owners
<1>5. /\ reader'[r] = "run"
      /\ \A q \in Readers : q # r => reader'[q] = reader[q]
  BY <1>1, <1>3 DEF Typed, TypeOK
<1>6. Typed'
  BY <1>1, <1>3, <1>4 DEF Typed, TypeOK, editVars
<1>7. Owners'
  <2>1. ConnectorsOwned'
    BY <1>1, <1>3, <1>4 DEF IInv, Owners, ConnectorsOwned, Typed, TypeOK,
       RuntimeAssumption
  <2> QED
    BY <1>1, <1>4, <1>5, <2>1 DEF IInv, Owners, Runs
<1>8. NoPassword'
  BY <1>1, <1>2, <1>5 DEF IInv, NoPassword
<1>9. Served'
  BY <1>1, <1>2, <1>4, <1>5 DEF IInv, Served, IsCurrent, Apart
<1>10. Loop'
  <2>1. Serial => MutationLockFree
    BY <1>1 DEF IInv, Loop
  <2> QED
    BY <1>1, <1>2, <2>1 DEF Loop, MutationLockFree, editVars
<1> QED
  BY <1>2, <1>6, <1>7, <1>8, <1>9, <1>10 DEF IInv

(* What could not be built is closed again.                                *)
LEMMA BuildFailsIInv ==
    ASSUME RuntimeAssumption, IInv, NEW r \in Readers, BuildFails(r)
    PROVE  IInv'
<1>1. /\ reader[r] = "build" /\ conn' = Closed(using[r])
      /\ reader' = [reader EXCEPT ![r] = "idle"]
      /\ profile' = [profile EXCEPT ![r] = None]
      /\ using' = [using EXCEPT ![r] = None]
      /\ UNCHANGED <<stored, password, expected, runtime, editVars, crashes>>
  BY DEF BuildFails, Rests
<1>2. Jobs' /\ Settled' = Settled /\ MutationLockFree' = MutationLockFree
  BY <1>1, QueryKeeps
<1>3. Typed
  BY DEF IInv
<1>4. /\ runtime = None /\ using[r] \in Conns
      /\ \A q \in Readers : reader[q] = "build" => q = r
  BY <1>1 DEF IInv, Owners
<1>5. /\ reader'[r] = "idle"
      /\ \A q \in Readers : q # r =>
             /\ reader'[q] = reader[q] /\ profile'[q] = profile[q]
             /\ using'[q] = using[q]
  BY <1>1, <1>3 DEF Typed, TypeOK
<1>6. /\ conn' \in Connectors
      /\ \A c \in Conns : conn'[c].open => c # using[r] /\ conn[c].open
  BY <1>1, <1>3, <1>4, ClosesOne
<1>7. Typed'
  BY <1>1, <1>3, <1>6 DEF Typed, TypeOK, Connectors, editVars
<1>8. Owners'
  <2>1. \A c \in Conns : conn[c].open => c = using[r]
    BY <1>4, <1>1 DEF IInv, Owners, ConnectorsOwned, RuntimeAssumption
  <2>2. \A c \in Conns : ~conn'[c].open
    BY <1>6, <2>1
  <2>3. \A q \in Readers : reader'[q] # "build"
    BY <1>4, <1>5
  <2>4. \A q \in Readers : Runs(q)' => using'[q] \in Conns \cup {Static}
    BY <1>5 DEF IInv, Owners, Runs
  <2> QED
    BY <1>1, <1>4, <2>2, <2>3, <2>4 DEF Owners, ConnectorsOwned
<1>9. NoPassword'
  BY <1>1, <1>2, <1>5 DEF IInv, NoPassword
<1>10. Served'
  BY <1>1, <1>2, <1>4, <1>5 DEF IInv, Served, Apart
<1>11. Loop'
  <2>1. Serial => MutationLockFree
    BY <1>1 DEF IInv, Loop
  <2> QED
    BY <1>1, <1>2, <2>1 DEF Loop, MutationLockFree, editVars
<1> QED
  BY <1>2, <1>7, <1>8, <1>9, <1>10, <1>11 DEF IInv

-----------------------------------------------------------------------------
(* A restart, and the theorems                                             *)

LEMMA CrashIInv ==
    ASSUME RuntimeAssumption, IInv, Crash
    PROVE  IInv'
<1> USE DEF Crash
<1>1. Typed'
  BY DEF IInv, Typed, TypeOK, JobsKnown, NoJob, Unopened, RuntimeAssumption
<1>2. Jobs'
  BY DEF Jobs
<1>3. Owners'
  BY DEF Owners, ConnectorsOwned, Runs, Unopened
<1>4. NoPassword' /\ Served'
  BY DEF NoPassword, Served
<1>5. Loop'
  BY DEF Loop
<1> QED
  BY <1>1, <1>2, <1>3, <1>4, <1>5 DEF IInv

LEMMA NextIInv ==
    ASSUME RuntimeAssumption, IInv, [Next]_vars
    PROVE  IInv'
<1>1. CASE UNCHANGED vars
  <2>1. UNCHANGED <<stored, password, expected, runtime, conn, editor, job,
                    edits, reader, profile, using, crashes>>
    BY <1>1 DEF vars, memory, editVars, readVars
  <2> QED
    BY <2>1 DEF IInv, Typed, TypeOK, Jobs, JobOK, Owners, ConnectorsOwned,
       Runs, NoPassword, Served, IsCurrent, Apart, Settled, Loop, Found,
       MutationLockFree
<1>2. ASSUME NEW e \in Editors, Begin(e) \/ Edit(e)
      PROVE  IInv'
  BY <1>2, BeginIInv, WalksIInv, StoreIInv, CredentialsIInv, InvalidateIInv
     DEF Edit
<1>3. ASSUME NEW r \in Readers,
             Read(r) \/ Query(r) \/ Operate(r) \/ Operated(r)
      PROVE  IInv'
  BY <1>3, ReadIInv, MissingIInv, BuildIInv, BuiltIInv, BuildFailsIInv
     DEF Query
<1> QED
  BY <1>1, <1>2, <1>3, CrashIInv DEF Next

(* The invariant of a datasource profile, its password, its runtime and    *)
(* those who edit and use it (runtime_registry.py).                        *)
THEOREM Invariant ==
    ASSUME RuntimeAssumption
    PROVE  Spec => []IInv
<1>1. Init => IInv
  BY InitIInv
<1>2. IInv /\ [Next]_vars => IInv'
  BY NextIInv
<1> QED
  BY <1>1, <1>2, PTL DEF Spec

(* Profile, password, connectors, edits and queries keep their types       *)
(* (datasource_runtime.py).                                                *)
THEOREM TypeCorrect ==
    ASSUME RuntimeAssumption
    PROVE  Spec => []TypeOK
<1>1. IInv => TypeOK
  BY DEF IInv, Typed
<1> QED
  BY <1>1, Invariant, PTL

(* With any number of threads, edits and failed openings no connector is   *)
(* left open that is neither cached nor being built (RuntimeRegistry).     *)
THEOREM NoneLeaks ==
    ASSUME RuntimeAssumption
    PROVE  Spec => []ConnectorsOwned
<1>1. IInv => ConnectorsOwned
  BY DEF IInv, Owners
<1> QED
  BY <1>1, Invariant, PTL

LEMMA NoneStale ==
    ASSUME RuntimeAssumption, Apart, IInv
    PROVE  CachedIsCurrent /\ NoOldData
<1>1. CachedIsCurrent
  BY FreeSettled DEF IInv, Owners, Served, IsCurrent, CachedIsCurrent, Editing
<1>2. NoOldData
  <2> SUFFICES ASSUME NEW r \in Readers, Runs(r), using[r] # Static,
                      ~Editing, conn[using[r]].open
               PROVE  conn[using[r]].conf = stored
    BY DEF NoOldData
  <2>1. using[r] \in Conns /\ reader[r] # "build"
    BY DEF IInv, Owners, Runs
  <2>2. using[r] = runtime
    BY <2>1 DEF IInv, Owners, ConnectorsOwned
  <2> QED
    BY <1>1, <2>1, <2>2 DEF CachedIsCurrent, RuntimeAssumption
<1> QED
  BY <1>1, <1>2

(* On one event loop, or with threads of which none creates what another   *)
(* deleted: the cached runtime is that of the store once no edit is under  *)
(* way, and no query starts an operation on a configuration that was       *)
(* replaced (get_or_create, invalidate).                                   *)
THEOREM ServesCurrent ==
    ASSUME RuntimeAssumption, Apart
    PROVE  Spec => [](CachedIsCurrent /\ NoOldData)
<1>1. IInv => CachedIsCurrent /\ NoOldData
  BY NoneStale
<1> QED
  BY <1>1, Invariant, PTL

(* On one event loop an edit that fails has changed nothing: profile,      *)
(* password, announced identity and runtime are those it found             *)
(* (DatasourceProfileService).                                             *)
THEOREM FailuresChangeNothing ==
    ASSUME RuntimeAssumption, Serial
    PROVE  Spec => []FailedChangesNothing
<1>1. IInv => FailedChangesNothing
  BY DEF IInv, Loop, FailedChangesNothing
<1> QED
  BY <1>1, Invariant, PTL

-----------------------------------------------------------------------------
(* The registry of models                                                  *)

Today == [profile |-> stored, revision |-> revision]
ModelSettled == \A e \in Editors : editor[e] \in {"idle", "store"}
Home(p, k) == M!Pairs(p, k.gen, k.emb) \subseteq given

(* TypeOK, and what it leaves open of the jobs and of queries on their way. *)
ModelTyped ==
    /\ M!TypeOK
    /\ \A r \in Readers : reader[r] \in {"enter", "build"} =>
           profile[r] \in M!Profiles
    /\ \A r \in Readers : reader[r] = "build" => found[r] \in M!Identities
    /\ job \in [Editors -> [op : {"none", "create", "replace", "delete"},
                            profile : M!Profiles \cup {None},
                            keys : M!KeyPairs]]

(* One edit at a time; how much of its job is done, by where it is.        *)
ModelJobs ==
    /\ \A e, f \in Editors : editor[e] # "idle" /\ editor[f] # "idle" => e = f
    /\ \A e \in Editors :
           /\ editor[e] # "idle" =>
                  (job[e].op = "delete" <=> job[e].profile = None)
           /\ editor[e] \in {"credentials", "invalidate"} =>
                  stored = job[e].profile
           /\ editor[e] = "invalidate" => keys = job[e].keys
           /\ editor[e] \in {"store", "credentials"} => revision < edits
    /\ revision <= edits

Expects ==
    ModelSettled =>
        \/ /\ expected = None
           /\ stored # None => \A r \in Readers :
                  reader[r] = "enter" => profile[r] = stored
        \/ stored # None /\ expected = Today

Builds ==
    ModelSettled /\ stored # None => \A r \in Readers :
        reader[r] = "build" => profile[r] = stored /\ found[r] = Today

Caches ==
    ModelSettled /\ stored # None /\ cached # None =>
        cached.profile = stored /\ cached.keys = keys

ModelServed == Expects /\ Builds /\ Caches

(* A query that no edit has disturbed knows the profile of today.          *)
Fresh ==
    \A r \in Readers : fresh[r] =>
        /\ M!WriteLockFree /\ stored # None /\ profile[r] = stored
        /\ reader[r] = "run" =>
               using[r].profile = stored /\ using[r].keys = keys

(* On one event loop edits and queries follow each other.                  *)
ModelLoop ==
    Serial => \A r \in Readers : reader[r] \in {"enter", "build"} =>
        M!WriteLockFree /\ stored # None /\ profile[r] = stored

(* A key that was kept, or is used, was given for the endpoint.            *)
Homes ==
    /\ ModelSettled /\ stored # None => Home(stored, keys)
    /\ \A e \in Editors : editor[e] # "idle" /\ job[e].profile # None =>
           Home(job[e].profile, job[e].keys)
    /\ Serial => M!KeysStayHome

ModelIInv ==
    ModelTyped /\ ModelJobs /\ ModelServed /\ Fresh /\ ModelLoop /\ Homes

-----------------------------------------------------------------------------
(* Edits                                                                   *)

(* No edit has reached the store while every editor rests.                 *)
LEMMA ModelFreeSettled == M!WriteLockFree => ModelSettled
BY DEF M!WriteLockFree, ModelSettled

(* Keys that are none are at home anywhere.                                *)
LEMMA NoKeysHome ==
    ASSUME M!ModelAssumption, NEW p
    PROVE  Home(p, M!NoKeys)
BY DEF Home, M!Pairs, M!NoKeys, M!ModelAssumption

LEMMA ModelInitIInv ==
    ASSUME M!ModelAssumption, M!Init
    PROVE  ModelIInv
<1>1. ModelTyped
  BY DEF M!Init, ModelTyped, M!TypeOK, M!KeyPairs, M!NoKeys, M!NoJob,
     M!ModelAssumption
<1>2. ModelJobs
  BY DEF M!Init, ModelJobs, M!ModelAssumption
<1>3. ModelServed
  BY DEF M!Init, ModelServed, Expects, Builds, Caches
<1>4. Fresh /\ ModelLoop
  BY DEF M!Init, Fresh, ModelLoop
<1>5. Homes
  BY NoKeysHome DEF M!Init, Homes, M!KeysStayHome
<1> QED
  BY <1>1, <1>2, <1>3, <1>4, <1>5 DEF ModelIInv

JobsBegun == [op : {"create", "replace", "delete"},
              profile : M!Profiles \cup {None}, keys : M!KeyPairs]

(* replace keeps a key only for the endpoint it belongs to.                *)
LEMMA ModelBeginTyped ==
    ASSUME M!ModelAssumption, ModelIInv, NEW e \in Editors,
           M!BeginCreate(e) \/ M!BeginReplace(e) \/ M!BeginDelete(e)
    PROVE  \E j \in JobsBegun :
               /\ editor' = [editor EXCEPT ![e] = "store"]
               /\ job' = [job EXCEPT ![e] = j]
               /\ j.op = "delete" <=> j.profile = None
               /\ given \subseteq given' /\ given' \subseteq Endpoints \X Keys
               /\ (ModelSettled /\ j.profile # None) =>
                      M!Pairs(j.profile, j.keys.gen, j.keys.emb)
                          \subseteq given'
<1>1. given \subseteq Endpoints \X Keys /\ keys \in M!KeyPairs
      /\ stored \in M!Profiles \cup {None}
  BY DEF ModelIInv, ModelTyped, M!TypeOK
<1>2. CASE M!BeginCreate(e)
  <2>1. PICK p \in M!Profiles, gen \in Keys \cup {None},
             emb \in Keys \cup {None} :
          /\ M!Begins(e, "create", p,
                    [gen |-> gen, emb |-> IF p.emb = None THEN None ELSE emb])
          /\ given' = given \cup M!Pairs(p, gen, emb)
    BY <1>2 DEF M!BeginCreate
  <2> DEFINE new == [gen |-> gen, emb |-> IF p.emb = None THEN None ELSE emb]
             j == [op |-> "create", profile |-> p, keys |-> new]
  <2>2. new \in M!KeyPairs /\ p # None
    BY DEF M!KeyPairs, M!ModelAssumption
  <2>3. M!Pairs(p, new.gen, new.emb) \subseteq M!Pairs(p, gen, emb)
    BY DEF M!Pairs, M!ModelAssumption
  <2>4. M!Pairs(p, gen, emb) \subseteq Endpoints \X Keys
    BY DEF M!Pairs
  <2> j \in JobsBegun
    BY <2>2 DEF JobsBegun
  <2> WITNESS j \in JobsBegun
  <2> QED
    BY <1>1, <2>1, <2>2, <2>3, <2>4 DEF M!Begins
<1>3. CASE M!BeginReplace(e)
  <2>1. PICK p \in M!Profiles, gen \in Keys \cup {None, Keep},
             emb \in Keys \cup {None, Keep} :
          /\ M!Begins(e, "replace", p,
                    [gen |-> M!NextKey(keys.gen, stored.gen, p.gen, gen),
                     emb |-> IF p.emb = None THEN None
                             ELSE M!NextKey(keys.emb, stored.emb, p.emb, emb)])
          /\ given' = given \cup M!Pairs(p, gen, emb) /\ stored # None
    BY <1>3 DEF M!BeginReplace
  <2> DEFINE new == [gen |-> M!NextKey(keys.gen, stored.gen, p.gen, gen),
                     emb |-> IF p.emb = None THEN None
                             ELSE M!NextKey(keys.emb, stored.emb, p.emb, emb)]
             j == [op |-> "replace", profile |-> p, keys |-> new]
  <2>2. new \in M!KeyPairs /\ p # None
    BY <1>1 DEF M!KeyPairs, M!NextKey, M!ModelAssumption
  <2>3. M!Pairs(p, new.gen, new.emb) \subseteq
            M!Pairs(p, gen, emb) \cup M!Pairs(stored, keys.gen, keys.emb)
    <3>1. new.gen = gen \/ (stored.gen = p.gen /\ new.gen = keys.gen)
          \/ new.gen = None
      BY DEF M!NextKey
    <3>2. new.emb = emb \/ (stored.emb = p.emb /\ new.emb = keys.emb)
          \/ new.emb = None
      BY DEF M!NextKey
    <3> QED
      BY <3>1, <3>2 DEF M!Pairs, M!ModelAssumption
  <2>4. M!Pairs(p, gen, emb) \subseteq Endpoints \X Keys
    BY DEF M!Pairs
  <2>5. ModelSettled => M!Pairs(stored, keys.gen, keys.emb) \subseteq given
    BY <2>1 DEF ModelIInv, Homes, Home
  <2> HIDE DEF new
  <2> j \in JobsBegun
    BY <2>2 DEF JobsBegun
  <2> WITNESS j \in JobsBegun
  <2> QED
    BY <1>1, <2>1, <2>2, <2>3, <2>4, <2>5 DEF M!Begins, new
<1>4. CASE M!BeginDelete(e)
  <2> DEFINE j == [op |-> "delete", profile |-> None, keys |-> M!NoKeys]
  <2>1. M!NoKeys \in M!KeyPairs
    BY DEF M!NoKeys, M!KeyPairs
  <2> j \in JobsBegun
    BY <2>1 DEF JobsBegun
  <2> WITNESS j \in JobsBegun
  <2> QED
    BY <1>1, <1>4 DEF M!BeginDelete, M!Begins
<1> QED
  BY <1>2, <1>3, <1>4

(* What is given is never taken back.                                      *)
LEMMA HomeStays ==
    ASSUME given \subseteq given', NEW p, NEW k, Home(p, k)
    PROVE  M!Pairs(p, k.gen, k.emb) \subseteq given'
BY DEF Home

LEMMA ModelBeginIInv ==
    ASSUME M!ModelAssumption, ModelIInv, NEW e \in Editors, M!Begin(e)
    PROVE  ModelIInv'
<1>1. /\ M!WriteLockFree /\ M!LoopFree
      /\ edits < MaxEdits /\ edits' = edits + 1
      /\ fresh' = [r \in Readers |-> FALSE]
      /\ UNCHANGED <<stored, M!memory, reader, profile, found, using, crashes>>
      /\ M!BeginCreate(e) \/ M!BeginReplace(e) \/ M!BeginDelete(e)
  BY DEF M!Begin
<1>2. PICK j \in JobsBegun :
          /\ editor' = [editor EXCEPT ![e] = "store"]
          /\ job' = [job EXCEPT ![e] = j]
          /\ j.op = "delete" <=> j.profile = None
          /\ given \subseteq given' /\ given' \subseteq Endpoints \X Keys
          /\ (ModelSettled /\ j.profile # None) =>
                 M!Pairs(j.profile, j.keys.gen, j.keys.emb) \subseteq given'
  BY <1>1, ModelBeginTyped
<1>3. UNCHANGED <<stored, keys, revision, expected, cached, reader, profile,
                  found, using, crashes>>
  BY <1>1 DEF M!memory
<1>4. ModelSettled /\ ModelTyped /\ (\A f \in Editors : editor[f] = "idle")
  BY <1>1, ModelFreeSettled DEF ModelIInv, M!WriteLockFree
<1>5. ModelTyped'
  BY <1>1, <1>2, <1>3, <1>4 DEF ModelTyped, M!TypeOK, M!ModelAssumption,
     JobsBegun
<1>6. ModelJobs'
  BY <1>1, <1>2, <1>3, <1>4 DEF ModelIInv, ModelJobs, ModelTyped, M!TypeOK,
     M!ModelAssumption, JobsBegun
<1>7. ModelServed'
  BY <1>3, <1>4 DEF ModelIInv, ModelServed, Expects, Builds, Caches, Today
<1>8. Fresh'
  BY <1>1 DEF Fresh
<1>9. ModelLoop'
  BY <1>1, <1>3 DEF ModelLoop, M!LoopFree
<1>10. Homes'
  <2>1. stored # None => Home(stored, keys)'
    BY <1>2, <1>3, <1>4, HomeStays DEF ModelIInv, Homes, Home
  <2>2. \A f \in Editors : editor'[f] # "idle" => f = e /\ job'[f] = j
    BY <1>2, <1>4 DEF ModelTyped, M!TypeOK
  <2>3. Serial => M!KeysStayHome'
    BY <1>2, <1>3 DEF ModelIInv, Homes, M!KeysStayHome
  <2> QED
    BY <1>2, <1>3, <1>4, <2>1, <2>2, <2>3 DEF Homes, Home
<1> QED
  BY <1>5, <1>6, <1>7, <1>8, <1>9, <1>10 DEF ModelIInv

(* The editor e moves on; while it is not idle no query is fresh, nor, on  *)
(* one event loop, at the registry.                                        *)
LEMMA ModelEditAlone ==
    ASSUME ModelIInv, NEW e \in Editors, editor[e] # "idle"
    PROVE  /\ \A f \in Editors : f # e => editor[f] = "idle"
           /\ \A r \in Readers : ~fresh[r]
           /\ Serial => \A r \in Readers : reader[r] \notin {"enter", "build"}
BY DEF ModelIInv, ModelJobs, Fresh, ModelLoop, M!WriteLockFree

LEMMA FailIInv ==
    ASSUME M!ModelAssumption, ModelIInv, NEW e \in Editors, M!Fail(e)
    PROVE  ModelIInv'
<1>1. /\ editor[e] = "store" /\ editor' = [editor EXCEPT ![e] = "idle"]
      /\ job' = [job EXCEPT ![e] = M!NoJob]
      /\ UNCHANGED <<stored, keys, revision, expected, cached, given, edits,
                     reader, profile, found, using, fresh, crashes>>
  BY DEF M!Fail, M!memory, M!readVars
<1>2. /\ \A f \in Editors : f # e => editor[f] = "idle"
      /\ \A r \in Readers : ~fresh[r]
      /\ Serial => \A r \in Readers : reader[r] \notin {"enter", "build"}
  BY <1>1, ModelEditAlone
<1>3. ModelSettled /\ ModelTyped
  BY <1>1, <1>2 DEF ModelSettled, ModelIInv
<1>4. \A f \in Editors : editor'[f] = "idle"
  BY <1>1, <1>2, <1>3 DEF ModelTyped, M!TypeOK
<1>5. ModelTyped'
  BY <1>1, <1>3 DEF ModelTyped, M!TypeOK, M!NoJob, M!NoKeys, M!KeyPairs
<1>6. ModelJobs'
  BY <1>1, <1>4 DEF ModelIInv, ModelJobs
<1>7. ModelServed'
  BY <1>1, <1>3 DEF ModelIInv, ModelServed, Expects, Builds, Caches, Today
<1>8. Fresh' /\ ModelLoop'
  BY <1>1, <1>2 DEF Fresh, ModelLoop
<1>9. Homes'
  BY <1>1, <1>3, <1>4 DEF ModelIInv, Homes, Home, M!KeysStayHome
<1> QED
  BY <1>5, <1>6, <1>7, <1>8, <1>9 DEF ModelIInv

(* Neither the store nor the credentials are settled when they are put.    *)
LEMMA ModelStoreIInv ==
    ASSUME M!ModelAssumption, ModelIInv, NEW e \in Editors, M!Store(e)
    PROVE  ModelIInv'
<1>1. /\ editor[e] = "store" /\ stored' = job[e].profile
      /\ editor' = [editor EXCEPT ![e] = "credentials"]
      /\ UNCHANGED <<keys, revision, expected, cached, job, given, edits,
                     reader, profile, found, using, fresh, crashes>>
  BY DEF M!Store, M!memory, M!readVars
<1>2. /\ \A f \in Editors : f # e => editor[f] = "idle"
      /\ \A r \in Readers : ~fresh[r]
      /\ Serial => \A r \in Readers : reader[r] \notin {"enter", "build"}
  BY <1>1, ModelEditAlone
<1>3. ModelTyped
  BY DEF ModelIInv
<1>4. editor'[e] = "credentials" /\ ~ModelSettled'
  BY <1>1, <1>3 DEF ModelTyped, M!TypeOK, ModelSettled
<1>5. ModelTyped'
  BY <1>1, <1>3 DEF ModelTyped, M!TypeOK
<1>6. ModelJobs'
  BY <1>1, <1>2, <1>3 DEF ModelIInv, ModelJobs, ModelTyped, M!TypeOK
<1>7. ModelServed'
  BY <1>4 DEF ModelServed, Expects, Builds, Caches
<1>8. Fresh' /\ ModelLoop'
  BY <1>1, <1>2 DEF Fresh, ModelLoop
<1>9. Homes'
  BY <1>1, <1>2, <1>3, <1>4 DEF ModelIInv, Homes, Home, M!KeysStayHome,
     ModelTyped, M!TypeOK
<1> QED
  BY <1>5, <1>6, <1>7, <1>8, <1>9 DEF ModelIInv

LEMMA ModelCredentialsIInv ==
    ASSUME M!ModelAssumption, ModelIInv, NEW e \in Editors, M!Credentials(e)
    PROVE  ModelIInv'
<1>1. /\ editor[e] = "credentials" /\ keys' = job[e].keys
      /\ revision' = revision + 1
      /\ editor' = [editor EXCEPT ![e] = "invalidate"]
      /\ UNCHANGED <<stored, expected, cached, job, given, edits, reader,
                     profile, found, using, fresh, crashes>>
  BY DEF M!Credentials, M!readVars
<1>2. /\ \A f \in Editors : f # e => editor[f] = "idle"
      /\ \A r \in Readers : ~fresh[r]
      /\ Serial => \A r \in Readers : reader[r] \notin {"enter", "build"}
  BY <1>1, ModelEditAlone
<1>3. ModelTyped /\ revision < edits
  BY <1>1 DEF ModelIInv, ModelJobs
<1>4. editor'[e] = "invalidate" /\ ~ModelSettled'
  BY <1>1, <1>3 DEF ModelTyped, M!TypeOK, ModelSettled
<1>5. ModelTyped'
  BY <1>1, <1>3 DEF ModelTyped, M!TypeOK, M!ModelAssumption
<1>6. ModelJobs'
  BY <1>1, <1>2, <1>3 DEF ModelIInv, ModelJobs, ModelTyped, M!TypeOK,
     M!ModelAssumption
<1>7. ModelServed'
  BY <1>4 DEF ModelServed, Expects, Builds, Caches
<1>8. Fresh' /\ ModelLoop'
  BY <1>1, <1>2 DEF Fresh, ModelLoop
<1>9. Homes'
  BY <1>1, <1>2, <1>3, <1>4 DEF ModelIInv, Homes, Home, M!KeysStayHome,
     ModelTyped, M!TypeOK
<1> QED
  BY <1>5, <1>6, <1>7, <1>8, <1>9 DEF ModelIInv

(* The last step waits for whoever builds, and says what is expected now.  *)
LEMMA ModelInvalidateIInv ==
    ASSUME M!ModelAssumption, ModelIInv, NEW e \in Editors, M!Invalidate(e)
    PROVE  ModelIInv'
<1>1. /\ editor[e] = "invalidate" /\ M!RegistryLockFree
      /\ expected' = IF job[e].op = "delete" THEN None
                     ELSE [profile |-> job[e].profile, revision |-> revision]
      /\ cached' = None /\ editor' = [editor EXCEPT ![e] = "idle"]
      /\ job' = [job EXCEPT ![e] = M!NoJob]
      /\ UNCHANGED <<stored, keys, revision, given, edits, reader, profile,
                     found, using, fresh, crashes>>
  BY DEF M!Invalidate, M!readVars, M!Returns, M!Identity
<1>2. /\ \A f \in Editors : f # e => editor[f] = "idle"
      /\ \A r \in Readers : ~fresh[r]
      /\ Serial => \A r \in Readers : reader[r] \notin {"enter", "build"}
  BY <1>1, ModelEditAlone
<1>3. /\ ModelTyped /\ stored = job[e].profile /\ keys = job[e].keys
      /\ job[e].op = "delete" <=> job[e].profile = None
  BY <1>1 DEF ModelIInv, ModelJobs
<1>4. \A f \in Editors : editor'[f] = "idle"
  BY <1>1, <1>2, <1>3 DEF ModelTyped, M!TypeOK
<1>5. /\ stored = None => expected' = None
      /\ stored # None => expected' = Today
  BY <1>1, <1>3 DEF Today
<1>6. ModelTyped'
  <2>1. stored # None => Today \in M!Identities
    BY <1>3 DEF ModelTyped, M!TypeOK, Today, M!Identities
  <2>2. job' \in [Editors -> [op : {"none", "create", "replace", "delete"},
                              profile : M!Profiles \cup {None},
                              keys : M!KeyPairs]]
    BY <1>1, <1>3 DEF ModelTyped, M!NoJob, M!NoKeys, M!KeyPairs
  <2> QED
    BY <1>1, <1>3, <1>5, <2>1, <2>2 DEF ModelTyped, M!TypeOK
<1>7. ModelJobs'
  BY <1>1, <1>4 DEF ModelIInv, ModelJobs
<1>8. ModelServed'
  BY <1>1, <1>5 DEF ModelServed, Expects, Builds, Caches, Today,
     M!RegistryLockFree
<1>9. Fresh' /\ ModelLoop'
  BY <1>1, <1>2 DEF Fresh, ModelLoop
<1>10. Homes'
  <2>1. stored # None => Home(stored, keys)
    BY <1>1, <1>3 DEF ModelIInv, Homes
  <2> QED
    BY <1>1, <1>4, <2>1 DEF ModelIInv, Homes, Home, M!KeysStayHome
<1> QED
  BY <1>6, <1>7, <1>8, <1>9, <1>10 DEF ModelIInv

-----------------------------------------------------------------------------
(* Queries                                                                 *)

(* What a query does leaves the edits, the store and the keys alone.       *)
LEMMA ModelQueryKeeps ==
    ASSUME ModelIInv,
           UNCHANGED <<stored, keys, revision, expected, M!editVars>>
    PROVE  /\ ModelJobs' /\ ModelSettled' = ModelSettled
           /\ M!WriteLockFree' = M!WriteLockFree /\ Today' = Today
           /\ ModelSettled /\ stored # None => Home(stored, keys)'
           /\ \A e \in Editors : editor'[e] # "idle" /\ job'[e].profile # None
                  => Home(job[e].profile, job[e].keys)'
BY DEF ModelIInv, ModelJobs, ModelSettled, M!WriteLockFree, Today, Home, Homes,
   M!editVars

LEMMA ModelReadIInv ==
    ASSUME M!ModelAssumption, ModelIInv, NEW r \in Readers, M!Read(r)
    PROVE  ModelIInv'
<1>1. /\ reader[r] = "idle" /\ M!LoopFree /\ stored # None
      /\ profile' = [profile EXCEPT ![r] = stored]
      /\ fresh' = [fresh EXCEPT ![r] = M!WriteLockFree]
      /\ reader' = [reader EXCEPT ![r] = "enter"]
      /\ UNCHANGED <<stored, keys, revision, expected, cached, M!editVars,
                     found, using, crashes>>
  BY DEF M!Read, M!memory
<1>2. /\ ModelJobs' /\ ModelSettled' = ModelSettled
      /\ M!WriteLockFree' = M!WriteLockFree /\ Today' = Today
      /\ ModelSettled /\ stored # None => Home(stored, keys)'
      /\ \A e \in Editors : editor'[e] # "idle" /\ job'[e].profile # None
             => Home(job[e].profile, job[e].keys)'
  BY <1>1, ModelQueryKeeps
<1>3. ModelTyped
  BY DEF ModelIInv
<1>4. ModelTyped'
  BY <1>1, <1>3 DEF ModelTyped, M!TypeOK, M!editVars, M!WriteLockFree
<1>5. ModelServed'
  BY <1>1, <1>2, <1>3 DEF ModelIInv, ModelServed, Expects, Builds, Caches,
     ModelTyped, M!TypeOK
<1>6. Fresh'
  BY <1>1, <1>2, <1>3 DEF ModelIInv, Fresh, ModelTyped, M!TypeOK
<1>7. ModelLoop'
  BY <1>1, <1>2, <1>3 DEF ModelIInv, ModelLoop, M!LoopFree, ModelTyped,
     M!TypeOK
<1>8. Homes'
  BY <1>1, <1>2 DEF ModelIInv, Homes, Home, M!KeysStayHome, M!editVars
<1> QED
  BY <1>2, <1>4, <1>5, <1>6, <1>7, <1>8 DEF ModelIInv

(* A query that is refused, fails or ends.                                 *)
LEMMA RestsIInv ==
    ASSUME M!ModelAssumption, ModelIInv, NEW r \in Readers, M!Rests(r),
           UNCHANGED <<stored, M!memory, M!editVars, crashes>>
    PROVE  ModelIInv'
<1>1. /\ reader' = [reader EXCEPT ![r] = "idle"]
      /\ profile' = [profile EXCEPT ![r] = None]
      /\ found' = [found EXCEPT ![r] = None]
      /\ using' = [using EXCEPT ![r] = None]
      /\ fresh' = [fresh EXCEPT ![r] = FALSE]
      /\ UNCHANGED <<stored, keys, revision, expected, cached, M!editVars,
                     crashes>>
  BY DEF M!Rests, M!memory
<1>2. /\ ModelJobs' /\ ModelSettled' = ModelSettled
      /\ M!WriteLockFree' = M!WriteLockFree /\ Today' = Today
      /\ ModelSettled /\ stored # None => Home(stored, keys)'
      /\ \A e \in Editors : editor'[e] # "idle" /\ job'[e].profile # None
             => Home(job[e].profile, job[e].keys)'
  BY <1>1, ModelQueryKeeps
<1>3. ModelTyped
  BY DEF ModelIInv
<1>4. ModelTyped'
  BY <1>1, <1>3 DEF ModelTyped, M!TypeOK, M!editVars
<1>5. ModelServed'
  BY <1>1, <1>2, <1>3 DEF ModelIInv, ModelServed, Expects, Builds, Caches,
     ModelTyped, M!TypeOK
<1>6. Fresh'
  BY <1>1, <1>2, <1>3 DEF ModelIInv, Fresh, ModelTyped, M!TypeOK
<1>7. ModelLoop'
  BY <1>1, <1>2, <1>3 DEF ModelIInv, ModelLoop, ModelTyped, M!TypeOK
<1>8. Homes'
  <2>1. Serial => M!KeysStayHome'
    BY <1>1, <1>3 DEF ModelIInv, Homes, M!KeysStayHome, M!editVars, ModelTyped,
       M!TypeOK
  <2> QED
    BY <1>1, <1>2, <2>1 DEF Homes, M!editVars
<1> QED
  BY <1>2, <1>4, <1>5, <1>6, <1>7, <1>8 DEF ModelIInv

(* A query that takes its runtime from the cache or has built it.          *)
LEMMA RunsIInv ==
    ASSUME M!ModelAssumption, ModelIInv, NEW r \in Readers,
           NEW made \in M!Runtimes, reader[r] \in {"enter", "build"},
           ModelSettled /\ stored # None =>
               made.profile = stored /\ made.keys = keys,
           Caches', cached' \in M!Runtimes,
           using' = [using EXCEPT ![r] = made],
           reader' = [reader EXCEPT ![r] = "run"],
           UNCHANGED <<stored, keys, revision, expected, M!editVars, profile,
                       found, fresh, crashes>>
    PROVE  ModelIInv'
<1>2. /\ ModelJobs' /\ ModelSettled' = ModelSettled
      /\ M!WriteLockFree' = M!WriteLockFree /\ Today' = Today
      /\ ModelSettled /\ stored # None => Home(stored, keys)'
      /\ \A e \in Editors : editor'[e] # "idle" /\ job'[e].profile # None
             => Home(job[e].profile, job[e].keys)'
  BY ModelQueryKeeps
<1>3. ModelTyped
  BY DEF ModelIInv
<1>4. ModelTyped'
  BY <1>3 DEF ModelTyped, M!TypeOK, M!editVars
<1>5. ModelServed'
  BY <1>2, <1>3 DEF ModelIInv, ModelServed, Expects, Builds, ModelTyped,
     M!TypeOK
<1>6. Fresh'
  BY <1>2, <1>3, ModelFreeSettled DEF ModelIInv, Fresh, ModelTyped, M!TypeOK
<1>7. ModelLoop'
  BY <1>2, <1>3 DEF ModelIInv, ModelLoop, ModelTyped, M!TypeOK
<1>8. Homes'
  <2>1. Serial => ModelSettled /\ stored # None
    BY ModelFreeSettled DEF ModelIInv, ModelLoop
  <2>2. Serial => Home(made.profile, made.keys)
    BY <2>1 DEF ModelIInv, Homes
  <2>3. given' = given
    BY DEF M!editVars
  <2>4. Serial => M!KeysStayHome'
    BY <1>3, <2>2, <2>3
       DEF ModelIInv, Homes, Home, M!KeysStayHome, ModelTyped, M!TypeOK
  <2> QED
    BY <1>2, <2>4 DEF Homes, M!editVars
<1> QED
  BY <1>2, <1>4, <1>5, <1>6, <1>7, <1>8 DEF ModelIInv

LEMMA ReuseIInv ==
    ASSUME M!ModelAssumption, ModelIInv, NEW r \in Readers, M!Reuse(r)
    PROVE  ModelIInv'
<1>1. /\ reader[r] = "enter" /\ cached # None
      /\ using' = [using EXCEPT ![r] = cached]
      /\ reader' = [reader EXCEPT ![r] = "run"]
      /\ UNCHANGED <<stored, keys, revision, expected, cached, M!editVars,
                     profile, found, fresh, crashes>>
  BY DEF M!Reuse, M!Enters, M!Current, M!memory
<1>2. cached \in M!Runtimes
  BY <1>1 DEF ModelIInv, ModelTyped, M!TypeOK
<1>3. Caches'
  BY <1>1 DEF ModelIInv, ModelServed, Caches, ModelSettled, M!editVars
<1>4. ModelSettled /\ stored # None =>
          cached.profile = stored /\ cached.keys = keys
  BY <1>1 DEF ModelIInv, ModelServed, Caches
<1> QED
  BY <1>1, <1>2, <1>3, <1>4, RunsIInv

(* Only what is expected is built, and before an edit has reached the      *)
(* store that is the profile of today.                                     *)
LEMMA MissIInv ==
    ASSUME M!ModelAssumption, ModelIInv, NEW r \in Readers, M!Miss(r)
    PROVE  ModelIInv'
<1>1. /\ reader[r] = "enter" /\ expected \in {None, M!Identity(profile[r])}
      /\ cached' = None
      /\ found' = [found EXCEPT ![r] = M!Identity(profile[r])]
      /\ reader' = [reader EXCEPT ![r] = "build"]
      /\ UNCHANGED <<stored, keys, revision, expected, M!editVars, profile,
                     using, fresh, crashes>>
  BY DEF M!Miss, M!Enters, M!Expected
<1>2. /\ ModelJobs' /\ ModelSettled' = ModelSettled
      /\ M!WriteLockFree' = M!WriteLockFree /\ Today' = Today
      /\ ModelSettled /\ stored # None => Home(stored, keys)'
      /\ \A e \in Editors : editor'[e] # "idle" /\ job'[e].profile # None
             => Home(job[e].profile, job[e].keys)'
  BY <1>1, ModelQueryKeeps
<1>3. ModelTyped
  BY DEF ModelIInv
<1>4. ModelSettled /\ stored # None =>
          profile[r] = stored /\ M!Identity(profile[r]) = Today
  <2> SUFFICES ASSUME ModelSettled, stored # None
               PROVE  profile[r] = stored
    BY DEF M!Identity, Today
  <2>1. Today # None
    BY <1>3 DEF ModelTyped, M!TypeOK, Today, M!Identities, M!ModelAssumption
  <2>2. CASE expected = None
    BY <1>1, <2>1, <2>2 DEF ModelIInv, ModelServed, Expects
  <2>3. CASE expected # None
    BY <1>1, <2>3 DEF ModelIInv, ModelServed, Expects, M!Identity, Today
  <2> QED
    BY <2>2, <2>3
<1>5. ModelTyped'
  <2>1. M!Identity(profile[r]) \in M!Identities
    BY <1>1, <1>3 DEF ModelTyped, M!TypeOK, M!Identity, M!Identities
  <2> QED
    BY <1>1, <1>3, <2>1 DEF ModelTyped, M!TypeOK, M!editVars
<1>6. ModelServed'
  BY <1>1, <1>2, <1>3, <1>4 DEF ModelIInv, ModelServed, Expects, Builds,
     Caches, ModelTyped, M!TypeOK
<1>7. Fresh'
  BY <1>1, <1>2, <1>3 DEF ModelIInv, Fresh, ModelTyped, M!TypeOK
<1>8. ModelLoop'
  BY <1>1, <1>2, <1>3 DEF ModelIInv, ModelLoop, ModelTyped, M!TypeOK
<1>9. Homes'
  BY <1>1, <1>2 DEF ModelIInv, Homes, Home, M!KeysStayHome, M!editVars
<1> QED
  BY <1>2, <1>5, <1>6, <1>7, <1>8, <1>9 DEF ModelIInv

LEMMA ModelBuildIInv ==
    ASSUME M!ModelAssumption, ModelIInv, NEW r \in Readers, M!Build(r)
    PROVE  ModelIInv'
<1> DEFINE made == [profile |-> profile[r], identity |-> found[r],
                       keys |-> keys]
<1>1. /\ reader[r] = "build" /\ cached' = made
      /\ using' = [using EXCEPT ![r] = made]
      /\ reader' = [reader EXCEPT ![r] = "run"]
      /\ UNCHANGED <<stored, keys, revision, expected, M!editVars, profile,
                     found, fresh, crashes>>
  BY DEF M!Build
<1>2. made \in M!Runtimes
  BY <1>1 DEF ModelIInv, ModelTyped, M!TypeOK, M!Runtimes
<1>3. ModelSettled /\ stored # None =>
          made.profile = stored /\ made.keys = keys
  BY <1>1 DEF ModelIInv, ModelServed, Builds
<1>4. Caches'
  BY <1>1, <1>3 DEF Caches, ModelSettled, M!editVars
<1> HIDE DEF made
<1> QED
  BY <1>1, <1>2, <1>3, <1>4, RunsIInv

-----------------------------------------------------------------------------
(* A restart, and the theorems                                             *)

LEMMA ModelCrashIInv ==
    ASSUME M!ModelAssumption, ModelIInv, M!Crash
    PROVE  ModelIInv'
<1> USE DEF M!Crash
<1>1. ModelTyped'
  BY DEF ModelIInv, ModelTyped, M!TypeOK, M!KeyPairs, M!NoKeys, M!NoJob,
     M!ModelAssumption
<1>2. ModelJobs'
  BY DEF ModelIInv, ModelJobs, ModelTyped, M!TypeOK
<1>3. ModelServed'
  BY DEF ModelServed, Expects, Builds, Caches
<1>4. Fresh' /\ ModelLoop'
  BY DEF Fresh, ModelLoop
<1>5. Homes'
  <2>1. Home(stored, M!NoKeys)
    BY NoKeysHome
  <2> QED
    BY <2>1 DEF Homes, Home, M!KeysStayHome
<1> QED
  BY <1>1, <1>2, <1>3, <1>4, <1>5 DEF ModelIInv

LEMMA ModelNextIInv ==
    ASSUME M!ModelAssumption, ModelIInv, [M!Next]_(M!vars)
    PROVE  ModelIInv'
<1>1. CASE UNCHANGED M!vars
  <2>1. UNCHANGED <<stored, keys, revision, expected, cached, editor, job,
                    given, edits, reader, profile, found, using, fresh,
                    crashes>>
    BY <1>1 DEF M!vars, M!memory, M!editVars, M!readVars
  <2> QED
    BY <2>1 DEF ModelIInv, ModelTyped, M!TypeOK, ModelJobs, ModelServed,
       Expects, Builds, Caches, Fresh, ModelLoop, Homes, Home, M!KeysStayHome,
       ModelSettled, M!WriteLockFree, Today
<1>2. ASSUME NEW e \in Editors, M!Begin(e) \/ M!Edit(e)
      PROVE  ModelIInv'
  BY <1>2, ModelBeginIInv, FailIInv, ModelStoreIInv, ModelCredentialsIInv,
     ModelInvalidateIInv DEF M!Edit
<1>3. ASSUME NEW r \in Readers, M!Read(r) \/ M!Query(r)
      PROVE  ModelIInv'
  <2>1. CASE M!Stale(r) \/ M!BuildFails(r) \/ M!Finish(r)
    BY <2>1, RestsIInv DEF M!Stale, M!BuildFails, M!Finish
  <2> QED
    BY <1>3, <2>1, ModelReadIInv, ReuseIInv, MissIInv, ModelBuildIInv DEF
       M!Query
<1> QED
  BY <1>1, <1>2, <1>3, ModelCrashIInv DEF M!Next

(* The invariant of a model profile, its keys, its runtime and those who   *)
(* edit and use it (model_runtime_registry.py).                            *)
THEOREM ModelInvariant ==
    ASSUME M!ModelAssumption
    PROVE  M!Spec => []ModelIInv
<1>1. M!Init => ModelIInv
  BY ModelInitIInv
<1>2. ModelIInv /\ [M!Next]_(M!vars) => ModelIInv'
  BY ModelNextIInv
<1> QED
  BY <1>1, <1>2, PTL DEF M!Spec

(* Profile, keys, identities, runtimes, edits and queries keep their types *)
(* (model_runtime.py).                                                     *)
THEOREM ModelTypeCorrect ==
    ASSUME M!ModelAssumption
    PROVE  M!Spec => []M!TypeOK
<1>1. ModelIInv => M!TypeOK
  BY DEF ModelIInv, ModelTyped
<1> QED
  BY <1>1, ModelInvariant, PTL

LEMMA ModelNoneStale ==
    ASSUME M!ModelAssumption, ModelIInv
    PROVE  M!CachedIsCurrent /\ M!FreshIsCurrent /\ M!NeverStaleAlone
<1>1. M!CachedIsCurrent
  BY ModelFreeSettled DEF ModelIInv, ModelServed, Caches, M!CachedIsCurrent
<1>2. M!FreshIsCurrent
  BY DEF ModelIInv, Fresh, M!FreshIsCurrent
<1>3. M!NeverStaleAlone
  BY ModelFreeSettled DEF ModelIInv, ModelServed, Expects, Fresh,
     M!NeverStaleAlone, M!Expected, M!Identity, Today
<1> QED
  BY <1>1, <1>2, <1>3

(* With any number of threads: once no edit is under way the cached        *)
(* runtime has the profile and the keys of the store, a query that no edit *)
(* disturbed has got just these, and was not told that the profile had     *)
(* changed (ModelRuntimeRegistry.get_or_create and invalidate).            *)
THEOREM ModelServesCurrent ==
    ASSUME M!ModelAssumption
    PROVE  M!Spec =>
               [](M!CachedIsCurrent /\ M!FreshIsCurrent /\ M!NeverStaleAlone)
<1>1. ModelIInv => M!CachedIsCurrent /\ M!FreshIsCurrent /\ M!NeverStaleAlone
  BY ModelNoneStale
<1> QED
  BY <1>1, ModelInvariant, PTL

(* On one event loop no runtime uses a key with an endpoint that it was    *)
(* not given for, however often profiles are replaced with keys kept,      *)
(* stores fail and the process restarts (ModelProfileService.replace).     *)
THEOREM KeysAtHome ==
    ASSUME M!ModelAssumption, Serial
    PROVE  M!Spec => []M!KeysStayHome
<1>1. ModelIInv => M!KeysStayHome
  BY DEF ModelIInv, Homes
<1> QED
  BY <1>1, ModelInvariant, PTL
=============================================================================
