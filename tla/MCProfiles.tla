----------------------------- MODULE MCProfiles -----------------------------
(* Profiles for TLC: a datasource profile and a model profile from their   *)
(* edits to the queries that use them, and the file they are stored in.    *)
(* They share no state: the first state says which of them runs.           *)
EXTENDS ProfileStore, TLC

CONSTANTS
    e0, r1, r2, q, k1, k2, s1, s2, c1, c2, c3, d1, d2, a, b, k, p1, p2, Keep,
    Static

Off == "off"

VARIABLES
    part,           \* the component that runs
    stored, password, expected, runtime, conn, editor, job, reader, profile,
    using, edits, keys, revision, cached, found, fresh, given

\* What does not belong to the component has no value.
outsideDatasource == <<keys, revision, cached, found, fresh, given, disk,
                       draft, writer, pc, target, answer, present>>
outsideModel == <<password, runtime, conn, disk, draft, writer, pc, target,
                  answer, present>>
outsideStore == <<stored, password, expected, runtime, conn, editor, job,
                  reader, profile, using, edits, keys, revision, cached,
                  found, fresh, given>>

OnlyDatasource ==
    /\ keys = Off /\ revision = Off /\ cached = Off /\ found = Off
    /\ fresh = Off /\ given = Off /\ disk = Empty /\ draft = Off
    /\ writer = Off /\ pc = [x \in Processes |-> "down"] /\ target = Off
    /\ answer = Off /\ present = {}
OnlyModel ==
    /\ password = Off /\ runtime = Off /\ conn = Off /\ disk = Empty
    /\ draft = Off /\ writer = Off /\ pc = [x \in Processes |-> "down"]
    /\ target = Off /\ answer = Off /\ present = {}
OnlyStore ==
    /\ stored = Off /\ password = Off /\ expected = Off /\ runtime = Off
    /\ conn = Off /\ editor = Off /\ job = Off /\ reader = Off
    /\ profile = Off /\ using = Off /\ edits = Off /\ keys = Off
    /\ revision = Off /\ cached = Off /\ found = Off /\ fresh = Off
    /\ given = Off

\* The module of the proofs, so that ProfilesProofs can cite its lemmas: of
\* the registry of datasources, and M of that of models.
DatasourceLoop == INSTANCE RuntimesProofs WITH
    Editors <- {e0}, Readers <- {r1, r2}, Confs <- {k1, k2},
    Secrets <- {s1, s2}, Conns <- {c1, c2, c3}, StaticConf <- None,
    Edits <- {"create", "replace", "delete"}, Serial <- TRUE, MaxEdits <- 3,
    MaxCrashes <- 1, Endpoints <- {}, Keys <- {}
Datasource == INSTANCE RuntimesProofs WITH
    Editors <- {e0}, Readers <- {r1, r2}, Confs <- {k1, k2},
    Secrets <- {s1, s2}, Conns <- {c1, c2, c3}, StaticConf <- None,
    Edits <- {"replace"}, Serial <- FALSE, MaxEdits <- 2, MaxCrashes <- 0,
    Endpoints <- {}, Keys <- {}
DatasourceEnds == INSTANCE RuntimesProofs WITH
    Editors <- {e0}, Readers <- {q}, Confs <- {k1, k2}, Secrets <- {k},
    Conns <- {d1, d2}, StaticConf <- k2,
    Edits <- {"create", "replace", "delete"}, Serial <- FALSE, MaxEdits <- 2,
    MaxCrashes <- 1, Endpoints <- {}, Keys <- {}
ModelLoop == INSTANCE RuntimesProofs WITH
    Editors <- {e0}, Readers <- {q}, Endpoints <- {a, b}, Keys <- {k},
    Serial <- TRUE, MaxEdits <- 2, MaxCrashes <- 1,
    Confs <- {}, Secrets <- {}, Conns <- {}, StaticConf <- None, Edits <- {}
Model == INSTANCE RuntimesProofs WITH
    Editors <- {e0}, Readers <- {r1, r2}, Endpoints <- {a}, Keys <- {k},
    Serial <- FALSE, MaxEdits <- 2, MaxCrashes <- 0,
    Confs <- {}, Secrets <- {}, Conns <- {}, StaticConf <- None, Edits <- {}
ModelEnds == INSTANCE RuntimesProofs WITH
    Editors <- {e0}, Readers <- {q}, Endpoints <- {a}, Keys <- {k},
    Serial <- FALSE, MaxEdits <- 2, MaxCrashes <- 1,
    Confs <- {}, Secrets <- {}, Conns <- {}, StaticConf <- None, Edits <- {}

MCInit ==
    \/ part = "datasource loop" /\ DatasourceLoop!Init /\ OnlyDatasource
    \/ part = "datasource threads" /\ Datasource!Init /\ OnlyDatasource
    \/ part = "datasource ends" /\ DatasourceEnds!Init /\ OnlyDatasource
    \/ part = "model loop" /\ ModelLoop!M!Init /\ OnlyModel
    \/ part = "model threads" /\ Model!M!Init /\ OnlyModel
    \/ part = "model ends" /\ ModelEnds!M!Init /\ OnlyModel
    \/ part = "store" /\ Init /\ OnlyStore

MCNext ==
    \/ /\ part = "datasource loop" /\ DatasourceLoop!Next
       /\ UNCHANGED <<part, outsideDatasource>>
    \/ /\ part = "datasource threads" /\ Datasource!Next
       /\ UNCHANGED <<part, outsideDatasource>>
    \/ /\ part = "datasource ends" /\ DatasourceEnds!Next
       /\ UNCHANGED <<part, outsideDatasource>>
    \/ /\ part = "model loop" /\ ModelLoop!M!Next
       /\ UNCHANGED <<part, outsideModel>>
    \/ /\ part = "model threads" /\ Model!M!Next
       /\ UNCHANGED <<part, outsideModel>>
    \/ /\ part = "model ends" /\ ModelEnds!M!Next
       /\ UNCHANGED <<part, outsideModel>>
    \/ /\ part = "store" /\ Next
       /\ UNCHANGED <<part, outsideStore>>

mcVars == <<part, stored, password, expected, runtime, conn, editor, job,
                  reader, profile, using, edits, crashes, keys, revision,
                  cached, found, fresh, given, disk, draft, writer, pc,
                  target, answer, present>>
\* The steps of an edit, of a query, and of the two processes.
EditStep ==
    \/ /\ part = "datasource ends" /\ DatasourceEnds!Edit(e0)
       /\ UNCHANGED <<part, outsideDatasource>>
    \/ /\ part = "model ends" /\ ModelEnds!M!Edit(e0)
       /\ UNCHANGED <<part, outsideModel>>
QueryStep ==
    \/ /\ part = "datasource ends" /\ DatasourceEnds!Query(q)
       /\ UNCHANGED <<part, outsideDatasource>>
    \/ /\ part = "model ends" /\ ModelEnds!M!Query(q)
       /\ UNCHANGED <<part, outsideModel>>
StoreStep(p) == /\ part = "store" /\ Works(p)
                /\ UNCHANGED <<part, outsideStore>>

MCSpec ==
    /\ MCInit /\ [][MCNext]_mcVars
    /\ SF_mcVars(EditStep) /\ SF_mcVars(QueryStep)
    /\ WF_mcVars(StoreStep(p1)) /\ WF_mcVars(StoreStep(p2))

-----------------------------------------------------------------------------
(* The values of each component are of the declared kinds.                 *)
MCTypeOK ==
    /\ part = "datasource loop" => DatasourceLoop!TypeOK
    /\ part = "datasource threads" => Datasource!TypeOK
    /\ part = "datasource ends" => DatasourceEnds!TypeOK
    /\ part = "model loop" => ModelLoop!M!TypeOK
    /\ part = "model threads" => Model!M!TypeOK
    /\ part = "model ends" => ModelEnds!M!TypeOK
    /\ part = "store" => TypeOK

(* Every open connector is the cached one or is being built: one that is   *)
(* replaced, refused or deleted is closed, whatever queries hold it        *)
(* (RuntimeRegistry).  And an edit that fails has changed nothing          *)
(* (DatasourceProfileService).                                             *)
ConnectorsOwned ==
    /\ part = "datasource loop" =>
           /\ DatasourceLoop!ConnectorsOwned
           /\ DatasourceLoop!FailedChangesNothing
    /\ part = "datasource threads" => Datasource!ConnectorsOwned

(* Nothing stale is served once no edit is under way: the cached runtime   *)
(* is that of the profile in the store and of its credentials, no query    *)
(* starts an operation on a configuration that was replaced, and one that  *)
(* no edit disturbs gets what is current and is not refused                *)
(* (runtime_registry.py, model_runtime_registry.py).                       *)
NothingStale ==
    /\ part = "datasource loop" =>
           DatasourceLoop!CachedIsCurrent /\ DatasourceLoop!NoOldData
    /\ part = "datasource threads" =>
           Datasource!CachedIsCurrent /\ Datasource!NoOldData
    /\ part = "model loop" => ModelLoop!M!CachedIsCurrent
    /\ part = "model threads" =>
           /\ Model!M!CachedIsCurrent /\ Model!M!FreshIsCurrent
           /\ Model!M!NeverStaleAlone

(* On one event loop no runtime uses a key with an endpoint it was not     *)
(* given for, although replace keeps keys that are not repeated            *)
(* (ModelProfileService.replace).                                          *)
KeysStayHome == part = "model loop" => ModelLoop!M!KeysStayHome

(* Edits, queries, starts of the store and its writes end, although they   *)
(* wait for each other's locks and close each other's connectors.          *)
Edits ==
    \/ part \in {"datasource ends", "model ends"} /\ editor[e0] # "idle"
    \/ part = "store" /\ pc[p1] \in Starting \cup Writing
Queries ==
    \/ part \in {"datasource ends", "model ends"} /\ reader[q] # "idle"
    \/ part = "store" /\ pc[p2] \in Starting \cup Writing
Ends == (Edits ~> ~Edits) /\ (Queries ~> ~Queries)

ASSUME MCAssumption ==
    /\ DatasourceLoop!RuntimeAssumption /\ Datasource!RuntimeAssumption
    /\ DatasourceEnds!RuntimeAssumption
    /\ ModelLoop!M!ModelAssumption /\ Model!M!ModelAssumption
    /\ ModelEnds!M!ModelAssumption /\ StoreAssumption

\* Queries, connectors and passwords are alike.  The parts whose operations
\* have to end have values of their own that are not exchanged.
Symmetry == Permutations({r1, r2}) \cup Permutations({c1, c2, c3})
            \cup Permutations({s1, s2})

=============================================================================
