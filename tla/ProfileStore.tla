----------------------------- MODULE ProfileStore -----------------------------
(***************************************************************************)
(* The SQLite file of the profiles (src/app/local/profile_store.py):       *)
(* processes that start on one file, create or migrate its schema, write   *)
(* to it, and die at any moment.  One action is one SQL statement.  What   *)
(* SQLite does is modelled by its contract: BEGIN IMMEDIATE excludes other *)
(* writers or times out, readers see committed data, a transaction that is *)
(* not committed leaves no trace.                                          *)
(***************************************************************************)
EXTENDS Naturals

CONSTANTS
    Processes,      \* processes that open the same file
    Ids,            \* profile IDs
    MaxCrashes,     \* bound: processes that die
    None            \* no process

StoreAssumption == MaxCrashes \in Nat /\ None \notin Processes \cup Ids

VARIABLES
    disk,           \* what is committed
    draft,          \* the open transaction's view
    writer,         \* who holds the write lock of the file
    pc,             \* where each process is
    target,         \* the operation and the ID it writes
    answer,         \* how its last call ended
    present,        \* IDs that calls reported as created and not as deleted
    crashes         \* counted for the bound

vars == <<disk, draft, writer, pc, target, answer, present, crashes>>

Tables == {"model_profiles", "datasource_profiles"}
Starting == {"version", "objects", "begin_create", "create_models",
             "create_datasources", "check_v1", "check_embedding",
             "begin_migrate", "alter", "set_version", "commit_schema",
             "validate", "journal"}
Writing == {"begin_write", "write", "commit"}
Ops == {"create", "replace", "delete"}
NoTarget == [op |-> "none", id |-> None]

\* The file: PRAGMA user_version, the tables, whether model_profiles has the
\* dimension column, whether a model with an embedding is stored, the IDs.
Empty == [version |-> 0, tables |-> {}, dimension |-> FALSE,
          embedding |-> FALSE, rows |-> {}]
V1(emb, ids) == [version |-> 1, tables |-> Tables, dimension |-> FALSE,
                 embedding |-> emb, rows |-> ids]
V2(emb, ids) == [version |-> 2, tables |-> Tables, dimension |-> TRUE,
                 embedding |-> emb, rows |-> ids]
Foreign == {[Empty EXCEPT !.tables = {"other"}], [Empty EXCEPT !.version = 3],
            [V2(FALSE, {}) EXCEPT !.tables = Tables \cup {"other"}]}
Ours == {Empty} \cup {V1(emb, ids) : emb \in BOOLEAN, ids \in SUBSET Ids}
                \cup {V2(emb, ids) : emb \in BOOLEAN, ids \in SUBSET Ids}

Init ==
    /\ disk \in Ours \cup Foreign /\ draft = disk /\ writer = None
    /\ pc = [p \in Processes |-> "down"]
    /\ target = [p \in Processes |-> NoTarget]
    /\ answer = [p \in Processes |-> "none"]
    /\ present = disk.rows /\ crashes = 0

Goes(p, place) == pc' = [pc EXCEPT ![p] = place]
Answers(p, what) == answer' = [answer EXCEPT ![p] = what]

\* The start raises; the process ends.
Refuses(p, code) ==
    /\ Goes(p, "down") /\ Answers(p, code)
    /\ UNCHANGED <<disk, draft, writer, target, present, crashes>>

-----------------------------------------------------------------------------
(* _initialize                                                             *)

\* The directory is made, a connection opened.
Start(p) ==
    /\ pc[p] = "down" /\ answer[p] = "none" /\ Goes(p, "version")
    /\ UNCHANGED <<disk, draft, writer, target, answer, present, crashes>>

Moves(p, from, to) ==
    /\ pc[p] = from /\ Goes(p, to)
    /\ UNCHANGED <<disk, draft, writer, target, answer, present, crashes>>

Version(p) ==
    \/ disk.version = 0 /\ Moves(p, "version", "objects")
    \/ disk.version = 1 /\ Moves(p, "version", "check_v1")
    \/ disk.version = 2 /\ Moves(p, "version", "validate")
    \/ /\ pc[p] = "version" /\ disk.version \notin 0..2
       /\ Refuses(p, "corrupt")

\* Faulty variant: the tables of another program are not looked for.
FaultyObjects(p) == Moves(p, "objects", "begin_create")

\* An empty file has no version either; a file with tables is not ours.
Objects(p) ==
    \/ disk.tables = {} /\ Moves(p, "objects", "begin_create")
    \/ pc[p] = "objects" /\ disk.tables # {} /\ Refuses(p, "corrupt")

\* _validate_schema with the old columns, then the stored embeddings.
CheckV1(p) ==
    \/ /\ disk.tables = Tables /\ ~disk.dimension
       /\ Moves(p, "check_v1", "check_embedding")
    \/ /\ pc[p] = "check_v1" /\ ~(disk.tables = Tables /\ ~disk.dimension)
       /\ Refuses(p, "corrupt")

CheckEmbedding(p) ==
    \/ ~disk.embedding /\ Moves(p, "check_embedding", "begin_migrate")
    \/ pc[p] = "check_embedding" /\ disk.embedding /\ Refuses(p, "corrupt")

\* Faulty variant: a transaction that takes the lock when it first writes.
FaultyBegins(p, from, to) ==
    /\ pc[p] = from
    /\ draft' = disk /\ writer' = p /\ Goes(p, to)
    /\ UNCHANGED <<disk, target, answer, present, crashes>>

\* BEGIN IMMEDIATE waits for the other writer, for five seconds at most.
Begins(p, from, to) ==
    /\ pc[p] = from /\ writer = None
    /\ draft' = disk /\ writer' = p /\ Goes(p, to)
    /\ UNCHANGED <<disk, target, answer, present, crashes>>

Busy(p) ==
    /\ writer # None
    /\ \/ pc[p] \in {"begin_create", "begin_migrate"} /\ Refuses(p, "busy")
       \/ /\ pc[p] = "begin_write" /\ Goes(p, "serving") /\ Answers(p, "busy")
          /\ target' = [target EXCEPT ![p] = NoTarget]
          /\ UNCHANGED <<disk, draft, writer, present, crashes>>

BeginCreate(p) == Begins(p, "begin_create", "create_models")
BeginMigrate(p) == Begins(p, "begin_migrate", "alter")

Drafts(p, from, to, d) ==
    /\ pc[p] = from /\ draft' = d /\ Goes(p, to)
    /\ UNCHANGED <<disk, writer, target, answer, present, crashes>>

\* CREATE TABLE IF NOT EXISTS: a table that is there stays as it is.
CreateModels(p) ==
    Drafts(p, "create_models", "create_datasources",
           IF "model_profiles" \in draft.tables THEN draft
           ELSE [draft EXCEPT !.tables = @ \cup {"model_profiles"},
                              !.dimension = TRUE])
CreateDatasources(p) ==
    Drafts(p, "create_datasources", "set_version",
           [draft EXCEPT !.tables = @ \cup {"datasource_profiles"}])

\* ALTER TABLE ADD COLUMN of a column that is there is an error.
Alter(p) == ~draft.dimension /\ Drafts(p, "alter", "set_version",
                                       [draft EXCEPT !.dimension = TRUE])

SetVersion(p) == Drafts(p, "set_version", "commit_schema",
                        [draft EXCEPT !.version = 2])

CommitSchema(p) ==
    /\ pc[p] = "commit_schema"
    /\ disk' = draft /\ writer' = None /\ Goes(p, "validate")
    /\ UNCHANGED <<draft, target, answer, present, crashes>>

\* Faulty variant: what was done before the error is committed.
FaultySchemaFails(p) ==
    /\ pc[p] \in {"create_models", "create_datasources", "alter",
                  "set_version", "commit_schema"}
    /\ disk' = draft /\ writer' = None /\ Goes(p, "down")
    /\ Answers(p, "unavailable")
    /\ UNCHANGED <<draft, target, present, crashes>>

\* A statement fails, the duplicate column among others; rollback.
SchemaFails(p) ==
    /\ pc[p] \in {"create_models", "create_datasources", "alter",
                  "set_version", "commit_schema"}
    /\ writer' = None /\ Goes(p, "down") /\ Answers(p, "unavailable")
    /\ UNCHANGED <<disk, draft, target, present, crashes>>

\* Faulty variant: the schema is not looked at again.
FaultyValidate(p) == Moves(p, "validate", "journal")

\* _validate_schema with the columns of today.
Validate(p) ==
    \/ /\ disk.tables = Tables /\ disk.dimension
       /\ Moves(p, "validate", "journal")
    \/ /\ pc[p] = "validate" /\ ~(disk.tables = Tables /\ disk.dimension)
       /\ Refuses(p, "corrupt")

\* WAL and the file mode; both may fail.
Journal(p) ==
    \/ /\ pc[p] = "journal" /\ Goes(p, "serving") /\ Answers(p, "ready")
       /\ UNCHANGED <<disk, draft, writer, target, present, crashes>>
    \/ pc[p] = "journal" /\ Refuses(p, "unavailable")

-----------------------------------------------------------------------------
(* _write_connection: one write at a time in a process                     *)

Call(p) == \E op \in Ops, id \in Ids :
    /\ pc[p] = "serving" /\ Goes(p, "begin_write")
    /\ target' = [target EXCEPT ![p] = [op |-> op, id |-> id]]
    /\ Answers(p, "none")
    /\ UNCHANGED <<disk, draft, writer, present, crashes>>

BeginWrite(p) == Begins(p, "begin_write", "write")

Exists(p) == target[p].id \in draft.rows

\* Faulty variant: the caller is answered before the commit.
FaultyWrite(p) ==
    /\ pc[p] = "write"
    /\ \/ target[p].op = "create" /\ ~Exists(p)
       \/ target[p].op = "replace" /\ Exists(p)
       \/ target[p].op = "delete"
    /\ draft' = [draft EXCEPT !.rows =
                     IF target[p].op = "delete" THEN @ \ {target[p].id}
                     ELSE @ \cup {target[p].id}]
    /\ present' = draft'.rows
    /\ Goes(p, "commit")
    /\ UNCHANGED <<disk, writer, target, answer, crashes>>

\* INSERT, UPDATE or DELETE.  delete commits although nothing was there.
Write(p) ==
    /\ \/ target[p].op = "create" /\ ~Exists(p)
       \/ target[p].op = "replace" /\ Exists(p)
       \/ target[p].op = "delete"
    /\ Drafts(p, "write", "commit",
              [draft EXCEPT !.rows =
                  IF target[p].op = "delete" THEN @ \ {target[p].id}
                  ELSE @ \cup {target[p].id}])

\* Faulty variant: a failed write is tried again.
FaultyRollback(p) ==
    /\ pc[p] \in {"write", "commit"}
    /\ writer' = None /\ Goes(p, "begin_write")
    /\ UNCHANGED <<disk, draft, target, answer, present, crashes>>

\* rollback: the ID exists already, does not exist, or the statement or the
\* commit fails.
Rollback(p) ==
    /\ \/ /\ pc[p] = "write" /\ target[p].op = "create" /\ Exists(p)
          /\ Answers(p, "exists")
       \/ /\ pc[p] = "write" /\ target[p].op = "replace" /\ ~Exists(p)
          /\ Answers(p, "missing")
       \/ pc[p] \in {"write", "commit"} /\ Answers(p, "unavailable")
    /\ writer' = None /\ Goes(p, "serving")
    /\ target' = [target EXCEPT ![p] = NoTarget]
    /\ UNCHANGED <<disk, draft, present, crashes>>

\* The call returns with what it has made durable.
Commit(p) ==
    /\ pc[p] = "commit"
    /\ disk' = draft /\ writer' = None /\ Goes(p, "serving")
    /\ Answers(p, "done")
    /\ present' = IF target[p].op = "delete" THEN present \ {target[p].id}
                  ELSE present \cup {target[p].id}
    /\ target' = [target EXCEPT ![p] = NoTarget]
    /\ UNCHANGED <<draft, crashes>>

-----------------------------------------------------------------------------
\* The process dies; SQLite rolls its transaction back.
Crash(p) ==
    /\ pc[p] # "down" /\ crashes < MaxCrashes /\ crashes' = crashes + 1
    /\ writer' = IF writer = p THEN None ELSE writer
    /\ Goes(p, "down") /\ Answers(p, "none")
    /\ target' = [target EXCEPT ![p] = NoTarget]
    /\ UNCHANGED <<disk, draft, present>>

Initialize(p) == \/ Version(p) \/ Objects(p) \/ CheckV1(p) \/ CheckEmbedding(p)
                 \/ BeginCreate(p) \/ BeginMigrate(p) \/ CreateModels(p)
                 \/ CreateDatasources(p) \/ Alter(p) \/ SetVersion(p)
                 \/ CommitSchema(p) \/ SchemaFails(p) \/ Validate(p)
                 \/ Journal(p)
Works(p) == Initialize(p) \/ Busy(p) \/ BeginWrite(p) \/ Write(p)
            \/ Rollback(p) \/ Commit(p)

Next == \E p \in Processes : Start(p) \/ Call(p) \/ Works(p) \/ Crash(p)

\* Statements return.
Spec == Init /\ [][Next]_vars /\ \A p \in Processes : WF_vars(Works(p))

-----------------------------------------------------------------------------
(* Properties                                                              *)

Files == [version : 0..3, tables : SUBSET (Tables \cup {"other"}),
          dimension : BOOLEAN, embedding : BOOLEAN, rows : SUBSET Ids]

\* Each variable holds what the code puts there.
TypeOK ==
    /\ disk \in Files /\ draft \in Files
    /\ writer # None => draft.version \in {disk.version, 2}
    /\ writer \in Processes \cup {None}
    /\ pc \in [Processes -> {"down", "serving"} \cup Starting \cup Writing]
    /\ target \in [Processes -> [op : Ops, id : Ids] \cup {NoTarget}]
    /\ answer \in [Processes -> {"none", "corrupt", "busy", "unavailable",
                                 "ready", "exists", "missing", "done"}]
    /\ present \in SUBSET Ids /\ crashes \in 0..MaxCrashes

\* The version number tells the truth about the schema at every moment, also
\* when processes start together, fail or die half-way through a creation or
\* a migration: the next start always finds a file it can read.
VersionTrue == disk \in Foreign \/ disk \in Ours

\* A process only serves a file with the schema of today.
ServesToday ==
    \A p \in Processes : pc[p] \in {"serving"} \cup Writing =>
        disk.version = 2 /\ disk.tables = Tables /\ disk.dimension

\* What a call reported as stored is there, what it reported as deleted is
\* not: neither a failed call nor a death nor a migration changes that.
Durable == disk.rows = present

\* A file that is not ours is never written to.
ForeignUntouched == disk' # disk => disk \notin Foreign

\* Two calls never both report that they created the same profile.
CreatedOnce ==
    \A p \in Processes :
        pc[p] = "commit" /\ target[p].op = "create" /\ answer'[p] = "done"
            => target[p].id \notin present

\* The file of profile_store.py: its version tells the truth about its schema
\* at every moment, a process serves only the schema of today, what was
\* reported as stored is there; a file that is not ours is never written to,
\* and no two calls report that they created the same profile.
StoreTrue ==
    /\ [](VersionTrue /\ ServesToday /\ Durable)
    /\ [][ForeignUntouched /\ CreatedOnce]_vars

=============================================================================
