---------------------------- MODULE ProfilesProofs ----------------------------
(***************************************************************************)
(* What MCProfiles checks on small instances, for every value of its       *)
(* constants: the file of profiles, and the six settings of the two        *)
(* registries of runtimes.                                                 *)
(*                                                                         *)
(* ProfileStore, for any number of processes, profiles and deaths.  The    *)
(* version and the tables are read outside any transaction, so what a      *)
(* process knows of the file may be old when it acts on it; the invariant  *)
(* says what can have become of it meanwhile.                              *)
(*                                                                         *)
(* The registries are proved in RuntimesProofs; each setting keeps the     *)
(* inductive invariant of its component (PartsInv).                        *)
(***************************************************************************)
EXTENDS MCProfiles, TLAPS

Open == {"create_models", "create_datasources", "alter", "set_version",
         "commit_schema", "write", "commit"}

IsV1(d) == d.version = 1 /\ d.tables = Tables /\ d.dimension = FALSE
IsV2(d) == d.version = 2 /\ d.tables = Tables /\ d.dimension = TRUE

\* What a process may find in the file, by the step it is at: others may
\* have made it a file of today, and nothing else.
Found(place) ==
    /\ place \in {"objects"} =>
           disk = Empty \/ IsV2(disk) \/ disk.tables = {"other"}
    /\ place \in {"begin_create", "create_models", "create_datasources"} =>
           disk = Empty \/ IsV2(disk)
    /\ place \in {"check_v1", "check_embedding", "begin_migrate", "alter"} =>
           IsV1(disk) \/ IsV2(disk)
    /\ place \in {"set_version", "commit_schema"} =>
           disk = Empty \/ IsV1(disk) \/ IsV2(disk)
    /\ place \in {"validate"} =>
           IsV2(disk) \/ disk.tables = Tables \cup {"other"}
    /\ place \in {"journal", "serving"} \cup Writing => IsV2(disk)

\* What its transaction has made of the file.
Drafted(place) ==
    /\ place \in {"create_models", "alter", "write"} => draft = disk
    /\ place = "create_datasources" =>
           \/ IsV2(disk) /\ draft = disk
           \/ /\ disk = Empty
              /\ draft = [disk EXCEPT !.tables = {"model_profiles"},
                                      !.dimension = TRUE]
    /\ place = "set_version" =>
           draft = [disk EXCEPT !.tables = Tables, !.dimension = TRUE]
    /\ place = "commit_schema" =>
           draft = [disk EXCEPT !.version = 2, !.tables = Tables,
                                !.dimension = TRUE]

\* What its write has made of the rows.
Written(p) ==
    /\ pc[p] \in Writing =>
           /\ target[p] \in [op : Ops, id : Ids] /\ answer[p] = "none"
    /\ pc[p] = "commit" =>
           /\ target[p].op = "delete" =>
                  draft = [disk EXCEPT !.rows = @ \ {target[p].id}]
           /\ target[p].op # "delete" =>
                  draft = [disk EXCEPT !.rows = @ \cup {target[p].id}]
           /\ target[p].op = "create" => target[p].id \notin disk.rows

Ok(p) == Found(pc[p]) /\ Drafted(pc[p]) /\ Written(p)

IInv ==
    /\ TypeOK /\ VersionTrue /\ Durable
    /\ \A p \in Processes : pc[p] \in Open <=> writer = p
    /\ \A p \in Processes : Ok(p)

-----------------------------------------------------------------------------
(* Files                                                                   *)

(* The version of a file tells its schema, except for another program's.   *)
LEMMA Shapes ==
    ASSUME NEW d \in Ours \cup Foreign
    PROVE  /\ d.version = 0 => d = Empty \/ d.tables = {"other"}
           /\ d.version = 1 => IsV1(d)
           /\ d.version = 2 => IsV2(d) \/ d.tables = Tables \cup {"other"}
           /\ d = Empty \/ IsV1(d) \/ IsV2(d) => d \notin Foreign
BY DEF Ours, Foreign, Empty, V1, V2, IsV1, IsV2, Tables

(* All files there are have the fields of a file.                          *)
LEMMA FilesTyped == Ours \cup Foreign \subseteq Files
<1> USE DEF Files
<1>1. Empty \in Files
  BY DEF Empty
<1>2. ASSUME NEW emb \in BOOLEAN, NEW ids \in SUBSET Ids
      PROVE  V1(emb, ids) \in Files /\ V2(emb, ids) \in Files
  BY DEF V1, V2
<1>3. Ours \subseteq Files
  BY <1>1, <1>2 DEF Ours
<1>4. [Empty EXCEPT !.tables = {"other"}] \in Files
  BY <1>1
<1>5. [Empty EXCEPT !.version = 3] \in Files
  BY <1>1
<1>6. [V2(FALSE, {}) EXCEPT !.tables = Tables \cup {"other"}] \in Files
  <2>1. V2(FALSE, {}) \in Files
    BY <1>2
  <2> QED
    BY <2>1
<1> QED
  BY <1>3, <1>4, <1>5, <1>6 DEF Foreign

(* A file with the version and the schema of today is ours.                *)
LEMMA TodayIsOurs ==
    ASSUME NEW d \in Files, IsV2(d)
    PROVE  d \in Ours
<1>1. d = V2(d.embedding, d.rows)
  BY DEF IsV2, V2, Files
<1>2. d.embedding \in BOOLEAN /\ d.rows \in SUBSET Ids
  BY DEF Files
<1> QED
  BY <1>1, <1>2 DEF Ours

-----------------------------------------------------------------------------
(* A step of one process                                                   *)

\* The process p moves, the others stay where they are.
StepOf(p) ==
    /\ pc' = [pc EXCEPT ![p] = pc'[p]]
    /\ \A o \in Processes \ {p} :
           /\ target'[o] = target[o] /\ answer'[o] = answer[o]
           /\ (writer' = o) <=> (writer = o)

(* What the others know stays true as long as the file is the same, and    *)
(* the draft is, unless it is that of p.                                   *)
LEMMA OthersKeep ==
    ASSUME IInv, NEW p \in Processes, StepOf(p), disk' = disk,
           \A o \in Processes \ {p} : pc[o] \in Open => draft' = draft
    PROVE  \A o \in Processes \ {p} :
               (pc'[o] \in Open <=> writer' = o) /\ Ok(o)'
<1> SUFFICES ASSUME NEW o \in Processes, o # p
             PROVE  (pc'[o] \in Open <=> writer' = o) /\ Ok(o)'
  OBVIOUS
<1>1. pc'[o] = pc[o] /\ target'[o] = target[o] /\ answer'[o] = answer[o]
  BY DEF StepOf, IInv, TypeOK
<1>2. (pc[o] \in Open <=> writer = o) /\ Ok(o)
  BY DEF IInv
<1>3. pc'[o] \in Open <=> writer' = o
  BY <1>1, <1>2 DEF StepOf
<1>4. Found(pc[o])'
  BY <1>1, <1>2 DEF Ok, Found, IsV1, IsV2
<1>5. Drafted(pc[o])'
  <2>1. CASE pc[o] \in Open
    BY <2>1, <1>1, <1>2 DEF Ok, Drafted
  <2>2. CASE pc[o] \notin Open
    BY <2>2, <1>1 DEF Drafted, Open
  <2> QED
    BY <2>1, <2>2
<1>6. Written(o)'
  <2>1. CASE pc[o] \in Open
    BY <2>1, <1>1, <1>2 DEF Ok, Written
  <2>2. CASE pc[o] \notin Open
    BY <2>2, <1>1, <1>2 DEF Ok, Written, Open
  <2> QED
    BY <2>1, <2>2
<1> QED
  BY <1>3, <1>4, <1>5, <1>6 DEF Ok

(* A commit of p makes the file one of today: that everyone may find, and  *)
(* nobody else has a transaction.                                          *)
LEMMA OthersFindToday ==
    ASSUME IInv, NEW p \in Processes, StepOf(p), writer = p, IsV2(disk)'
    PROVE  \A o \in Processes \ {p} :
               (pc'[o] \in Open <=> writer' = o) /\ Ok(o)'
<1> SUFFICES ASSUME NEW o \in Processes, o # p
             PROVE  (pc'[o] \in Open <=> writer' = o) /\ Ok(o)'
  OBVIOUS
<1>1. pc'[o] = pc[o] /\ target'[o] = target[o] /\ answer'[o] = answer[o]
  BY DEF StepOf, IInv, TypeOK
<1>2. (pc[o] \in Open <=> writer = o) /\ Ok(o)
  BY DEF IInv
<1>3. pc'[o] \notin Open /\ writer' # o
  BY <1>1, <1>2 DEF StepOf
<1>4. Found(pc[o])'
  BY DEF Found
<1>5. Drafted(pc[o])'
  BY <1>3 DEF Drafted, Open
<1>6. Written(o)'
  BY <1>1, <1>2, <1>3 DEF Ok, Written, Open
<1> QED
  BY <1>3, <1>4, <1>5, <1>6 DEF Ok

-----------------------------------------------------------------------------
(* The invariant                                                           *)

\* TypeOK without what it says of the draft.
Typed ==
    /\ disk \in Files /\ draft \in Files
    /\ writer \in Processes \cup {None}
    /\ pc \in [Processes -> {"down", "serving"} \cup Starting \cup Writing]
    /\ target \in [Processes -> [op : Ops, id : Ids] \cup {NoTarget}]
    /\ answer \in [Processes -> {"none", "corrupt", "busy", "unavailable",
                                 "ready", "exists", "missing", "done"}]
    /\ present \in SUBSET Ids /\ crashes \in 0..MaxCrashes

\* The invariant of the processes.
Core ==
    /\ Typed
    /\ \A p \in Processes : (pc[p] \in Open <=> writer = p) /\ Ok(p)

(* A draft has the version of the file or that of today.                   *)
LEMMA DraftTyped == Core => TypeOK
<1> SUFFICES ASSUME Core, writer # None
             PROVE  draft.version \in {disk.version, 2}
  BY DEF Core, Typed, TypeOK
<1>1. PICK p \in Processes : pc[p] \in Open /\ Ok(p)
  BY DEF Core, Typed
<1>2. disk \in Files
  BY DEF Core, Typed
<1>3. CASE pc[p] \in {"create_models", "alter", "write"}
  BY <1>1, <1>3 DEF Ok, Drafted
<1>4. CASE pc[p] = "create_datasources"
  BY <1>1, <1>2, <1>4 DEF Ok, Drafted, Files
<1>5. CASE pc[p] \in {"set_version", "commit_schema"}
  BY <1>1, <1>2, <1>5 DEF Ok, Drafted, Files
<1>6. CASE pc[p] = "commit"
  <2>1. target[p] \in [op : Ops, id : Ids]
    BY <1>1, <1>6 DEF Ok, Written, Writing
  <2> QED
    BY <1>1, <1>2, <1>6, <2>1 DEF Ok, Written, Files
<1> QED
  BY <1>1, <1>3, <1>4, <1>5, <1>6 DEF Open

(* The initial file is ours or another program's, and nobody runs.         *)
LEMMA InitIInv ==
    ASSUME StoreAssumption, Init
    PROVE  IInv
<1>1. disk \in Files
  BY FilesTyped DEF Init
<1>2. Typed /\ writer = None
  BY <1>1 DEF Init, Typed, StoreAssumption, Files
<1>3. TypeOK
  BY <1>2 DEF Typed, TypeOK
<1>4. VersionTrue /\ Durable
  BY DEF Init, VersionTrue, Durable
<1>5. \A p \in Processes : pc[p] = "down" /\ writer # p
  BY DEF Init, StoreAssumption
<1>6. \A p \in Processes : pc[p] \notin Open /\ Ok(p)
  BY <1>5 DEF Open, Ok, Found, Drafted, Written, Writing
<1> QED
  BY <1>3, <1>4, <1>5, <1>6 DEF IInv

(* What is to be shown of a step of p that leaves the file alone.          *)
LEMMA StepKeeps ==
    ASSUME IInv, NEW p \in Processes, StepOf(p), Typed', disk' = disk,
           present' = present,
           \A o \in Processes \ {p} : pc[o] \in Open => draft' = draft,
           pc'[p] \in Open <=> writer' = p,
           Ok(p)'
    PROVE  IInv'
<1>1. \A o \in Processes : (pc'[o] \in Open <=> writer' = o) /\ Ok(o)'
  BY OthersKeep
<1>2. Core'
  BY <1>1 DEF Core
<1>3. TypeOK'
  BY <1>2, DraftTyped, PTL
<1> QED
  BY <1>1, <1>3 DEF IInv, VersionTrue, Durable

(* A step that leaves file, draft, lock and rows alone, and takes p out of *)
(* any place but those of a transaction.                                   *)
LEMMA Walks ==
    ASSUME IInv, NEW p \in Processes, StepOf(p), Typed',
           UNCHANGED <<disk, draft, writer, present>>,
           pc[p] \notin Open, pc'[p] \notin Open, Found(pc[p])',
           pc'[p] \in Writing => target'[p] \in [op : Ops, id : Ids]
                                 /\ answer'[p] = "none"
    PROVE  IInv'
<1>1. pc'[p] \in Open <=> writer' = p
  BY DEF IInv
<1>2. Drafted(pc[p])' /\ Written(p)'
  BY DEF Drafted, Written, Open
<1> QED
  BY <1>1, <1>2, StepKeeps DEF Ok

(* The start of a process: what it reads it finds, later too.              *)
LEMMA StartIInv ==
    ASSUME IInv, NEW p \in Processes, Start(p)
    PROVE  IInv'
<1> USE DEF Start, Goes
<1>1. StepOf(p) /\ Typed'
  BY DEF StepOf, IInv, TypeOK, Typed, Starting
<1>2. pc'[p] = "version"
  BY DEF IInv, TypeOK
<1>3. Found(pc[p])'
  BY <1>2 DEF Found, Writing
<1> QED
  BY <1>1, <1>2, <1>3, Walks DEF Open, Writing

LEMMA MovesIInv ==
    ASSUME IInv, NEW p \in Processes, NEW from \in Starting \ Open,
           NEW to \in Starting \ Open, Moves(p, from, to), Found(to)
    PROVE  IInv'
<1> USE DEF Moves, Goes
<1>1. StepOf(p) /\ Typed'
  BY DEF StepOf, IInv, TypeOK, Typed
<1>2. pc'[p] = to
  BY DEF IInv, TypeOK
<1>3. Found(pc[p])'
  BY <1>2 DEF Found, IsV1, IsV2
<1> QED
  BY <1>1, <1>2, <1>3, Walks DEF Open, Writing, Starting

LEMMA RefusesIInv ==
    ASSUME IInv, NEW p \in Processes, NEW code, Refuses(p, code),
           code \in {"corrupt", "busy", "unavailable"}, pc[p] \notin Open
    PROVE  IInv'
<1> USE DEF Refuses, Goes, Answers
<1>1. StepOf(p) /\ Typed'
  BY DEF StepOf, IInv, TypeOK, Typed
<1>2. pc'[p] = "down"
  BY DEF IInv, TypeOK
<1>3. Found(pc[p])'
  BY <1>2 DEF Found, Writing
<1> QED
  BY <1>1, <1>2, <1>3, Walks DEF Open, Writing

(* The version is read.                                                    *)
LEMMA VersionIInv ==
    ASSUME IInv, NEW p \in Processes, Version(p)
    PROVE  IInv'
<1>1. disk \in Ours \cup Foreign
  BY DEF IInv, VersionTrue
<1>2. CASE disk.version = 0 /\ Moves(p, "version", "objects")
  BY <1>1, <1>2, Shapes, MovesIInv DEF Found, Starting, Open, Writing
<1>3. CASE disk.version = 1 /\ Moves(p, "version", "check_v1")
  BY <1>1, <1>3, Shapes, MovesIInv DEF Found, Starting, Open, Writing
<1>4. CASE disk.version = 2 /\ Moves(p, "version", "validate")
  BY <1>1, <1>4, Shapes, MovesIInv DEF Found, Starting, Open, Writing
<1>5. CASE pc[p] = "version" /\ Refuses(p, "corrupt")
  BY <1>5, RefusesIInv DEF Open
<1> QED
  BY <1>2, <1>3, <1>4, <1>5 DEF Version

(* A file without a version has no tables, unless it was made meanwhile.   *)
LEMMA ObjectsIInv ==
    ASSUME IInv, NEW p \in Processes, Objects(p)
    PROVE  IInv'
<1>1. CASE disk.tables = {} /\ Moves(p, "objects", "begin_create")
  <2>1. Found("objects")
    BY <1>1 DEF IInv, Ok, Moves
  <2>2. disk = Empty
    BY <1>1, <2>1 DEF Found, IsV2, Tables
  <2> QED
    BY <1>1, <2>2, MovesIInv DEF Found, Starting, Open, Writing
<1>2. CASE pc[p] = "objects" /\ Refuses(p, "corrupt")
  BY <1>2, RefusesIInv DEF Open
<1> QED
  BY <1>1, <1>2 DEF Objects

LEMMA ChecksIInv ==
    ASSUME IInv, NEW p \in Processes, CheckV1(p) \/ CheckEmbedding(p)
    PROVE  IInv'
<1>1. CASE Moves(p, "check_v1", "check_embedding")
  <2>1. Found("check_v1")
    BY <1>1 DEF IInv, Ok, Moves
  <2> QED
    BY <1>1, <2>1, MovesIInv DEF Found, Starting, Open, Writing
<1>2. CASE Moves(p, "check_embedding", "begin_migrate")
  <2>1. Found("check_embedding")
    BY <1>2 DEF IInv, Ok, Moves
  <2> QED
    BY <1>2, <2>1, MovesIInv DEF Found, Starting, Open, Writing
<1>3. CASE pc[p] \in {"check_v1", "check_embedding"} /\ Refuses(p, "corrupt")
  BY <1>3, RefusesIInv DEF Open
<1> QED
  BY <1>1, <1>2, <1>3 DEF CheckV1, CheckEmbedding

LEMMA ReadyIInv ==
    ASSUME IInv, NEW p \in Processes, Validate(p) \/ Journal(p)
    PROVE  IInv'
<1>1. CASE disk.tables = Tables /\ Moves(p, "validate", "journal")
  <2>1. Found("validate")
    BY <1>1 DEF IInv, Ok, Moves
  <2>2. IsV2(disk)
    BY <1>1, <2>1 DEF Found, Tables
  <2> QED
    BY <1>1, <2>2, MovesIInv DEF Found, Starting, Open, Writing
<1>2. CASE pc[p] \in {"validate", "journal"}
           /\ \E code \in {"corrupt", "unavailable"} : Refuses(p, code)
  BY <1>2, RefusesIInv DEF Open
<1>3. CASE /\ pc[p] = "journal" /\ Goes(p, "serving") /\ Answers(p, "ready")
           /\ UNCHANGED <<disk, draft, writer, target, present, crashes>>
  <2> USE DEF Goes, Answers
  <2>1. StepOf(p) /\ Typed'
    BY <1>3 DEF StepOf, IInv, TypeOK, Typed
  <2>2. pc'[p] = "serving"
    BY <1>3 DEF IInv, TypeOK
  <2>3. Found("journal")
    BY <1>3 DEF IInv, Ok
  <2>4. Found(pc[p])'
    BY <1>3, <2>2, <2>3 DEF Found, IsV2, Writing
  <2> QED
    BY <1>3, <2>1, <2>2, <2>4, Walks DEF Open, Writing
<1> QED
  BY <1>1, <1>2, <1>3 DEF Validate, Journal

-----------------------------------------------------------------------------
(* Writes                                                                  *)

LEMMA CallIInv ==
    ASSUME IInv, NEW p \in Processes, Call(p)
    PROVE  IInv'
<1> USE DEF Goes, Answers
<1>1. PICK op \in Ops, id \in Ids :
          /\ pc[p] = "serving" /\ Goes(p, "begin_write")
          /\ target' = [target EXCEPT ![p] = [op |-> op, id |-> id]]
          /\ Answers(p, "none")
          /\ UNCHANGED <<disk, draft, writer, present, crashes>>
  BY DEF Call
<1>2. StepOf(p) /\ Typed'
  BY <1>1 DEF StepOf, IInv, TypeOK, Typed, Writing
<1>3. /\ pc'[p] = "begin_write" /\ answer'[p] = "none"
      /\ target'[p] = [op |-> op, id |-> id]
  BY <1>1 DEF IInv, TypeOK
<1>4. Found("serving")
  BY <1>1 DEF IInv, Ok
<1>5. Found(pc[p])'
  BY <1>1, <1>3, <1>4 DEF Found, IsV2, Writing
<1> QED
  BY <1>1, <1>2, <1>3, <1>5, Walks DEF Open, Writing

(* The store is busy: the start or the call ends.                          *)
LEMMA BusyIInv ==
    ASSUME IInv, NEW p \in Processes, Busy(p)
    PROVE  IInv'
<1> USE DEF Goes, Answers
<1>1. CASE pc[p] \in {"begin_create", "begin_migrate"} /\ Refuses(p, "busy")
  BY <1>1, RefusesIInv DEF Open
<1>2. CASE /\ pc[p] = "begin_write" /\ Goes(p, "serving") /\ Answers(p, "busy")
           /\ target' = [target EXCEPT ![p] = NoTarget]
           /\ UNCHANGED <<disk, draft, writer, present, crashes>>
  <2>1. StepOf(p) /\ Typed'
    BY <1>2 DEF StepOf, IInv, TypeOK, Typed
  <2>2. pc'[p] = "serving"
    BY <1>2 DEF IInv, TypeOK
  <2>3. Found("begin_write")
    BY <1>2 DEF IInv, Ok
  <2>4. Found(pc[p])'
    BY <1>2, <2>2, <2>3 DEF Found, IsV2, Writing
  <2> QED
    BY <1>2, <2>1, <2>2, <2>4, Walks DEF Open, Writing
<1> QED
  BY <1>1, <1>2 DEF Busy

(* A transaction begins: nobody else has one, and it sees the file.        *)
LEMMA BeginsIInv ==
    ASSUME StoreAssumption, IInv, NEW p \in Processes,
           BeginCreate(p) \/ BeginMigrate(p) \/ BeginWrite(p)
    PROVE  IInv'
<1> DEFINE From == {"begin_create", "begin_migrate", "begin_write"}
           To == {"create_models", "alter", "write"}
<1>1. PICK from \in From, to \in To :
          /\ Begins(p, from, to)
          /\ from = "begin_create" <=> to = "create_models"
          /\ from = "begin_migrate" <=> to = "alter"
  BY DEF BeginCreate, BeginMigrate, BeginWrite
<1> USE DEF Begins, Goes
<1>2. pc'[p] = to /\ writer = None /\ writer' = p /\ pc[p] = from
  BY <1>1 DEF IInv, TypeOK
<1>3. \A o \in Processes : writer # o
  BY <1>2 DEF StoreAssumption
<1>4. Typed'
  BY <1>1 DEF IInv, TypeOK, Typed, Starting, Writing
<1>5. StepOf(p)
  BY <1>1, <1>2, <1>3 DEF StepOf, IInv, TypeOK
<1>6. \A o \in Processes \ {p} : pc[o] \notin Open
  BY <1>3 DEF IInv
<1>7. Found(from) /\ Written(p)
  BY <1>2 DEF IInv, Ok
<1>8. Found(pc[p])'
  BY <1>1, <1>2, <1>7 DEF Found, IsV1, IsV2, Writing
<1>9. Drafted(pc[p])' /\ Written(p)'
  BY <1>1, <1>2, <1>7 DEF Drafted, Written, Writing
<1>10. Ok(p)' /\ pc'[p] \in Open
  BY <1>1, <1>2, <1>8, <1>9 DEF Ok, Open
<1> QED
  BY <1>1, <1>2, <1>4, <1>5, <1>6, <1>10, StepKeeps

(* One statement of a transaction: the others have none.                   *)
LEMMA DraftsIInv ==
    ASSUME IInv, NEW p \in Processes, NEW from \in Open, NEW to \in Open,
           NEW d \in Files, Drafts(p, from, to, d), Found(to),
           Drafted(pc[p])', Written(p)'
    PROVE  IInv'
<1> USE DEF Drafts, Goes
<1>1. pc'[p] = to /\ pc[p] = from /\ writer = p
  BY DEF IInv, TypeOK
<1>2. Typed'
  BY DEF IInv, TypeOK, Typed, Open, Starting, Writing
<1>3. StepOf(p)
  BY DEF StepOf, IInv, TypeOK
<1>4. \A o \in Processes \ {p} : pc[o] \notin Open
  BY <1>1 DEF IInv
<1>5. Found(pc[p])'
  BY <1>1 DEF Found, IsV1, IsV2
<1>6. Ok(p)' /\ writer' = p
  BY <1>1, <1>5 DEF Ok
<1> QED
  BY <1>1, <1>2, <1>3, <1>4, <1>6, StepKeeps

(* The tables are created, or were created by another process meanwhile.   *)
LEMMA CreateIInv ==
    ASSUME IInv, NEW p \in Processes, CreateModels(p) \/ CreateDatasources(p)
    PROVE  IInv'
<1>1. disk \in Files /\ draft \in Files
  BY DEF IInv, TypeOK
<1>2. CASE CreateModels(p)
  <2> DEFINE d == IF "model_profiles" \in draft.tables THEN draft
                  ELSE [draft EXCEPT !.tables = @ \cup {"model_profiles"},
                                     !.dimension = TRUE]
  <2>1. Drafts(p, "create_models", "create_datasources", d)
    BY <1>2 DEF CreateModels
  <2>2. d \in Files
    BY <1>1 DEF Files, Tables
  <2>3. pc[p] = "create_models" /\ pc'[p] = "create_datasources"
    BY <2>1 DEF Drafts, Goes, IInv, TypeOK
  <2>4. Found("create_models") /\ draft = disk
    BY <2>3 DEF IInv, Ok, Drafted
  <2>5. ASSUME disk = Empty
        PROVE  Drafted(pc[p])'
    <3>1. d = [disk EXCEPT !.tables = {"model_profiles"}, !.dimension = TRUE]
      BY <2>4, <2>5, <1>1 DEF Empty, Files
    <3> QED
      BY <2>1, <2>3, <2>5, <3>1 DEF Drafts, Drafted
  <2>6. ASSUME IsV2(disk)
        PROVE  Drafted(pc[p])'
    <3>1. d = disk
      BY <2>4, <2>6 DEF IsV2, Tables
    <3> QED
      BY <2>1, <2>3, <2>6, <3>1 DEF Drafts, Drafted, IsV2
  <2>7. Drafted(pc[p])'
    BY <2>4, <2>5, <2>6 DEF Found
  <2>8. Found("create_datasources") /\ Written(p)'
    BY <2>3, <2>4 DEF Found, Written, Writing
  <2> HIDE DEF d
  <2> QED
    BY <2>1, <2>2, <2>7, <2>8, DraftsIInv DEF Open
<1>3. CASE CreateDatasources(p)
  <2> DEFINE d == [draft EXCEPT !.tables = @ \cup {"datasource_profiles"}]
  <2>1. Drafts(p, "create_datasources", "set_version", d)
    BY <1>3 DEF CreateDatasources
  <2>2. d \in Files
    BY <1>1 DEF Files, Tables
  <2>3. pc[p] = "create_datasources" /\ pc'[p] = "set_version"
    BY <2>1 DEF Drafts, Goes, IInv, TypeOK
  <2>4. Found("create_datasources") /\ Drafted("create_datasources")
    BY <2>3 DEF IInv, Ok
  <2>5. d = [disk EXCEPT !.tables = Tables, !.dimension = TRUE]
    BY <2>4, <1>1 DEF Drafted, IsV2, Empty, Files, Tables
  <2>6. Drafted(pc[p])'
    BY <2>1, <2>3, <2>5 DEF Drafts, Drafted
  <2>7. Found("set_version") /\ Written(p)'
    BY <2>3, <2>4 DEF Found, Written, Writing
  <2> HIDE DEF d
  <2> QED
    BY <2>1, <2>2, <2>6, <2>7, DraftsIInv DEF Open
<1> QED
  BY <1>2, <1>3

(* The migration adds its column; a file that was migrated meanwhile has   *)
(* it already, and the statement fails.                                    *)
LEMMA AlterIInv ==
    ASSUME IInv, NEW p \in Processes, Alter(p) \/ SetVersion(p)
    PROVE  IInv'
<1>1. disk \in Files /\ draft \in Files
  BY DEF IInv, TypeOK
<1>2. CASE Alter(p)
  <2> DEFINE d == [draft EXCEPT !.dimension = TRUE]
  <2>1. Drafts(p, "alter", "set_version", d) /\ ~draft.dimension
    BY <1>2 DEF Alter
  <2>2. d \in Files
    BY <1>1 DEF Files
  <2>3. pc[p] = "alter" /\ pc'[p] = "set_version"
    BY <2>1 DEF Drafts, Goes, IInv, TypeOK
  <2>4. Found("alter") /\ draft = disk
    BY <2>3 DEF IInv, Ok, Drafted
  <2>5. IsV1(disk)
    BY <2>1, <2>4 DEF Found, IsV2
  <2>6. d = [disk EXCEPT !.tables = Tables, !.dimension = TRUE]
    BY <2>4, <2>5, <1>1 DEF IsV1, Files
  <2>7. Drafted(pc[p])'
    BY <2>1, <2>3, <2>6 DEF Drafts, Drafted
  <2>8. Found("set_version") /\ Written(p)'
    BY <2>3, <2>5 DEF Found, Written, Writing
  <2> HIDE DEF d
  <2> QED
    BY <2>1, <2>2, <2>7, <2>8, DraftsIInv DEF Open
<1>3. CASE SetVersion(p)
  <2> DEFINE d == [draft EXCEPT !.version = 2]
  <2>1. Drafts(p, "set_version", "commit_schema", d)
    BY <1>3 DEF SetVersion
  <2>2. d \in Files
    BY <1>1 DEF Files
  <2>3. pc[p] = "set_version" /\ pc'[p] = "commit_schema"
    BY <2>1 DEF Drafts, Goes, IInv, TypeOK
  <2>4. Found("set_version") /\ Drafted("set_version")
    BY <2>3 DEF IInv, Ok
  <2>5. d = [disk EXCEPT !.version = 2, !.tables = Tables,
                         !.dimension = TRUE]
    BY <2>4, <1>1 DEF Drafted, Files
  <2>6. Drafted(pc[p])'
    BY <2>1, <2>3, <2>5 DEF Drafts, Drafted
  <2>7. Found("commit_schema") /\ Written(p)'
    BY <2>3, <2>4 DEF Found, Written, Writing
  <2> HIDE DEF d
  <2> QED
    BY <2>1, <2>2, <2>6, <2>7, DraftsIInv DEF Open
<1> QED
  BY <1>2, <1>3

(* INSERT, UPDATE or DELETE in a transaction.                              *)
LEMMA WriteIInv ==
    ASSUME IInv, NEW p \in Processes, Write(p)
    PROVE  IInv'
<1> DEFINE d == [draft EXCEPT !.rows =
                     IF target[p].op = "delete" THEN @ \ {target[p].id}
                     ELSE @ \cup {target[p].id}]
<1>1. Drafts(p, "write", "commit", d)
  BY DEF Write
<1>2. pc[p] = "write" /\ pc'[p] = "commit"
  BY <1>1 DEF Drafts, Goes, IInv, TypeOK
<1>3. Found("write") /\ draft = disk /\ Written(p)
  BY <1>2 DEF IInv, Ok, Drafted
<1>4. target[p] \in [op : Ops, id : Ids] /\ answer[p] = "none"
  BY <1>2, <1>3 DEF Written, Writing
<1>5. disk \in Files
  BY DEF IInv, TypeOK
<1>6. d \in Files
  BY <1>3, <1>4, <1>5 DEF Files
<1>7. /\ target[p].op = "delete" =>
             d = [disk EXCEPT !.rows = @ \ {target[p].id}]
      /\ target[p].op # "delete" =>
             d = [disk EXCEPT !.rows = @ \cup {target[p].id}]
  BY <1>3
<1>8. target[p].op = "create" => target[p].id \notin disk.rows
  BY <1>3 DEF Write, Exists
<1>9. /\ draft' = d /\ disk' = disk /\ target'[p] = target[p]
      /\ answer'[p] = answer[p]
  BY <1>1 DEF Drafts
<1>10. Drafted(pc[p])'
  BY <1>2 DEF Drafted
<1> HIDE DEF d
<1>11. Written(p)'
  BY <1>2, <1>4, <1>7, <1>8, <1>9 DEF Written
<1>12. Found("commit")
  BY <1>3 DEF Found, Writing
<1> QED
  BY <1>1, <1>6, <1>10, <1>11, <1>12, DraftsIInv DEF Open

(* A transaction is rolled back: its draft is forgotten.                   *)
LEMMA RollsBack ==
    ASSUME StoreAssumption, IInv, NEW p \in Processes, StepOf(p), Typed',
           UNCHANGED <<disk, draft, present>>, writer' = None,
           pc'[p] \in {"down", "serving"}, Found(pc[p])'
    PROVE  IInv'
<1>1. writer' # p /\ pc'[p] \notin Open
  BY DEF StoreAssumption, Open
<1>2. Drafted(pc[p])' /\ Written(p)'
  BY DEF Drafted, Written, Writing
<1> QED
  BY <1>1, <1>2, StepKeeps DEF Ok

LEMMA FailsIInv ==
    ASSUME StoreAssumption, IInv, NEW p \in Processes,
           SchemaFails(p) \/ Rollback(p)
    PROVE  IInv'
<1> USE DEF Goes, Answers
<1>1. pc[p] \in Open /\ writer' = None
  BY DEF SchemaFails, Rollback, Open
<1>2. writer = p
  BY <1>1 DEF IInv
<1>3. CASE SchemaFails(p)
  <2>1. Typed'
    BY <1>3 DEF SchemaFails, IInv, TypeOK, Typed
  <2>2. StepOf(p)
    BY <1>2, <1>3 DEF SchemaFails, StepOf, IInv, TypeOK, StoreAssumption
  <2>3. pc'[p] = "down"
    BY <1>3 DEF SchemaFails, IInv, TypeOK
  <2>4. Found(pc[p])'
    BY <2>3 DEF Found, Writing
  <2> QED
    BY <1>1, <1>3, <2>1, <2>2, <2>3, <2>4, RollsBack DEF SchemaFails
<1>4. CASE Rollback(p)
  <2>1. Typed'
    BY <1>4 DEF Rollback, IInv, TypeOK, Typed
  <2>2. StepOf(p)
    BY <1>2, <1>4 DEF Rollback, StepOf, IInv, TypeOK, StoreAssumption
  <2>3. pc'[p] = "serving" /\ pc[p] \in Writing
    BY <1>4 DEF Rollback, IInv, TypeOK, Writing
  <2>4. IsV2(disk)
    BY <2>3 DEF IInv, Ok, Found
  <2>5. Found(pc[p])'
    BY <1>4, <2>3, <2>4 DEF Rollback, Found, IsV2, Writing
  <2> QED
    BY <1>1, <1>4, <2>1, <2>2, <2>3, <2>5, RollsBack DEF Rollback
<1> QED
  BY <1>3, <1>4

(* The process dies.                                                       *)
LEMMA CrashIInv ==
    ASSUME StoreAssumption, IInv, NEW p \in Processes, Crash(p)
    PROVE  IInv'
<1> USE DEF Crash, Goes, Answers
<1>1. Typed'
  BY DEF IInv, TypeOK, Typed, StoreAssumption
<1>2. pc'[p] = "down" /\ writer' # p
  BY DEF IInv, TypeOK, StoreAssumption
<1>3. StepOf(p)
  BY DEF StepOf, IInv, TypeOK, StoreAssumption
<1>4. Ok(p)' /\ pc'[p] \notin Open
  BY <1>2 DEF Ok, Found, Drafted, Written, Open, Writing
<1> QED
  BY <1>1, <1>2, <1>3, <1>4, StepKeeps

(* What is to be shown of a commit of p.                                   *)
LEMMA CommitKeeps ==
    ASSUME StoreAssumption, IInv, NEW p \in Processes, pc[p] \in Open,
           StepOf(p), Typed', writer' = None, IsV2(disk)', Durable',
           pc'[p] \in {"validate", "serving"}
    PROVE  IInv'
<1>1. writer = p
  BY DEF IInv
<1>2. \A o \in Processes \ {p} : (pc'[o] \in Open <=> writer' = o) /\ Ok(o)'
  BY <1>1, OthersFindToday
<1>3. writer' # p /\ pc'[p] \notin Open
  BY DEF StoreAssumption, Open
<1>4. Ok(p)'
  BY DEF Ok, Found, Drafted, Written, Writing
<1>5. Core'
  BY <1>2, <1>3, <1>4 DEF Core
<1>6. TypeOK'
  BY <1>5, DraftTyped, PTL
<1>7. VersionTrue'
  BY TodayIsOurs DEF Typed, VersionTrue
<1> QED
  BY <1>5, <1>6, <1>7 DEF Core, IInv

(* The schema of today becomes durable and loses no row.                   *)
LEMMA CommitSchemaIInv ==
    ASSUME StoreAssumption, IInv, NEW p \in Processes, CommitSchema(p)
    PROVE  IInv'
<1> USE DEF CommitSchema, Goes
<1>1. pc[p] \in Open /\ pc'[p] = "validate" /\ writer = p
  BY DEF IInv, TypeOK, Open
<1>2. Typed'
  BY DEF IInv, TypeOK, Typed, Starting
<1>3. StepOf(p)
  BY <1>1 DEF StepOf, IInv, TypeOK, StoreAssumption
<1>4. Drafted("commit_schema") /\ disk \in Files
  BY DEF IInv, Ok, TypeOK
<1>5. IsV2(disk') /\ disk'.rows = disk.rows
  BY <1>4 DEF Drafted, IsV2, Files
<1>6. Durable'
  BY <1>5 DEF IInv, Durable
<1> QED
  BY <1>1, <1>2, <1>3, <1>5, <1>6, CommitKeeps DEF IsV2

(* The row becomes durable and the call says so.                           *)
LEMMA CommitIInv ==
    ASSUME StoreAssumption, IInv, NEW p \in Processes, Commit(p)
    PROVE  IInv'
<1> USE DEF Commit, Goes, Answers
<1>1. pc[p] \in Open /\ pc'[p] = "serving" /\ writer = p
  BY DEF IInv, TypeOK, Open
<1>2. /\ Found("commit") /\ Written(p) /\ disk \in Files
      /\ disk.rows = present /\ present \in SUBSET Ids
  BY DEF IInv, Ok, TypeOK, Durable
<1>3. target[p] \in [op : Ops, id : Ids] /\ IsV2(disk)
  BY <1>2 DEF Written, Found, Writing
<1>4. Typed'
  BY <1>2, <1>3 DEF IInv, TypeOK, Typed
<1>5. StepOf(p)
  BY <1>1 DEF StepOf, IInv, TypeOK, StoreAssumption
<1>6. IsV2(disk')
  BY <1>2, <1>3 DEF Written, IsV2, Files
<1>7. Durable'
  <2>1. CASE target[p].op = "delete"
    BY <1>2, <2>1 DEF Written, Durable, Files
  <2>2. CASE target[p].op # "delete"
    BY <1>2, <2>2 DEF Written, Durable, Files
  <2> QED
    BY <2>1, <2>2
<1> QED
  BY <1>1, <1>4, <1>5, <1>6, <1>7, CommitKeeps DEF IsV2

-----------------------------------------------------------------------------
(* The theorems                                                            *)

LEMMA NextIInv ==
    ASSUME StoreAssumption, IInv, [Next]_vars
    PROVE  IInv'
<1>1. CASE UNCHANGED vars
  BY <1>1 DEF vars, IInv, TypeOK, VersionTrue, Durable, Ok, Found, Drafted,
              Written, IsV1, IsV2
<1>2. ASSUME NEW p \in Processes, Start(p) \/ Call(p) \/ Crash(p)
      PROVE  IInv'
  BY <1>2, StartIInv, CallIInv, CrashIInv
<1>3. ASSUME NEW p \in Processes, Initialize(p)
      PROVE  IInv'
  BY <1>3, VersionIInv, ObjectsIInv, ChecksIInv, BeginsIInv, CreateIInv,
     AlterIInv, CommitSchemaIInv, FailsIInv, ReadyIInv DEF Initialize
<1>4. ASSUME NEW p \in Processes, Works(p)
      PROVE  IInv'
  BY <1>3, <1>4, BusyIInv, BeginsIInv, WriteIInv, FailsIInv, CommitIInv
     DEF Works
<1> QED
  BY <1>1, <1>2, <1>4 DEF Next

(* The invariant of the file: what a process found may be old, but only    *)
(* because another made it a file of today (_initialize).                  *)
THEOREM Invariant ==
    ASSUME StoreAssumption
    PROVE  Spec => []IInv
<1>1. Init => IInv
  BY InitIInv
<1>2. IInv /\ [Next]_vars => IInv'
  BY NextIInv
<1> QED
  BY <1>1, <1>2, PTL DEF Spec

(* The fields of the file, of its draft and of the processes keep their    *)
(* types (profile_store.py).                                               *)
THEOREM TypeCorrect ==
    ASSUME StoreAssumption
    PROVE  Spec => []TypeOK
<1>1. IInv => TypeOK
  BY DEF IInv
<1> QED
  BY <1>1, Invariant, PTL

(* A step that changes the file found one of ours, and one that reports a  *)
(* creation found no such row.                                             *)
LEMMA StepsTrue ==
    ASSUME IInv, [Next]_vars
    PROVE  ForeignUntouched /\ CreatedOnce
<1>1. ForeignUntouched
  <2> SUFFICES ASSUME disk' # disk
               PROVE  disk \notin Foreign
    BY DEF ForeignUntouched
  <2>1. PICK p \in Processes : CommitSchema(p) \/ Commit(p)
    BY DEF Next, vars, Start, Call, Works, Crash, Initialize, Version, Objects,
           CheckV1, CheckEmbedding, BeginCreate, BeginMigrate, CreateModels,
           CreateDatasources, Alter, SetVersion, SchemaFails, Validate,
           Journal, Busy, BeginWrite, Write, Rollback, Begins, Drafts, Moves,
           Refuses
  <2>2. pc[p] \in {"commit_schema", "commit"}
    BY <2>1 DEF CommitSchema, Commit
  <2>3. Found(pc[p])
    BY DEF IInv, Ok
  <2>4. disk = Empty \/ IsV1(disk) \/ IsV2(disk)
    BY <2>2, <2>3 DEF Found, Writing
  <2> QED
    BY <2>4, Shapes DEF IInv, VersionTrue
<1>2. CreatedOnce
  BY DEF CreatedOnce, IInv, Ok, Written, Durable
<1> QED
  BY <1>1, <1>2

(* The file, for any number of processes that start together, write, fail  *)
(* and die at any statement: its version tells its schema at every moment, *)
(* a process serves only the schema of today, what was reported as stored  *)
(* is there, a file that is not ours is never written to, and no two calls *)
(* report that they created the same profile (profile_store.py).           *)
THEOREM StoreKept ==
    ASSUME StoreAssumption
    PROVE  Spec => StoreTrue
<1>1. IInv => VersionTrue /\ ServesToday /\ Durable
  <2>1. IInv => ServesToday
    BY DEF IInv, ServesToday, Ok, Found, IsV2
  <2> QED
    BY <2>1 DEF IInv
<1>2. IInv /\ [Next]_vars => [ForeignUntouched /\ CreatedOnce]_vars
  BY StepsTrue
<1> QED
  BY <1>1, <1>2, Invariant, PTL DEF Spec, StoreTrue

-----------------------------------------------------------------------------
(* The parts that MCProfiles runs side by side.                            *)

\* Each part keeps the inductive invariant of its component.
PartsInv ==
    /\ part = "datasource loop" => DatasourceLoop!IInv
    /\ part = "datasource threads" => Datasource!IInv
    /\ part = "datasource ends" => DatasourceEnds!IInv
    /\ part = "model loop" => ModelLoop!ModelIInv
    /\ part = "model threads" => Model!ModelIInv
    /\ part = "model ends" => ModelEnds!ModelIInv
    /\ part = "store" => IInv

\* A step is one of the part that runs.
LEMMA PartSteps ==
    ASSUME [MCNext]_mcVars
    PROVE  /\ part' = part
           /\ part = "datasource loop" =>
                  [DatasourceLoop!Next]_(DatasourceLoop!vars)
           /\ part = "datasource threads" =>
                  [Datasource!Next]_(Datasource!vars)
           /\ part = "datasource ends" =>
                  [DatasourceEnds!Next]_(DatasourceEnds!vars)
           /\ part = "model loop" => [ModelLoop!M!Next]_(ModelLoop!M!vars)
           /\ part = "model threads" => [Model!M!Next]_(Model!M!vars)
           /\ part = "model ends" => [ModelEnds!M!Next]_(ModelEnds!M!vars)
           /\ part = "store" => [Next]_vars
<1>1. CASE MCNext
  BY <1>1 DEF MCNext
<1>2. CASE UNCHANGED mcVars
  <2>1. UNCHANGED DatasourceLoop!vars
    BY <1>2
    DEF mcVars, DatasourceLoop!vars, DatasourceLoop!memory,
        DatasourceLoop!editVars, DatasourceLoop!readVars
  <2>2. UNCHANGED Datasource!vars
    BY <1>2
    DEF mcVars, Datasource!vars, Datasource!memory, Datasource!editVars,
         Datasource!readVars
  <2>3. UNCHANGED DatasourceEnds!vars
    BY <1>2
    DEF mcVars, DatasourceEnds!vars, DatasourceEnds!memory,
        DatasourceEnds!editVars, DatasourceEnds!readVars
  <2>4. UNCHANGED ModelLoop!M!vars
    BY <1>2
    DEF mcVars, ModelLoop!M!vars, ModelLoop!M!memory, ModelLoop!M!editVars,
         ModelLoop!M!readVars
  <2>5. UNCHANGED Model!M!vars
    BY <1>2
    DEF mcVars, Model!M!vars, Model!M!memory, Model!M!editVars,
         Model!M!readVars
  <2>6. UNCHANGED ModelEnds!M!vars
    BY <1>2
    DEF mcVars, ModelEnds!M!vars, ModelEnds!M!memory, ModelEnds!M!editVars,
         ModelEnds!M!readVars
  <2>7. UNCHANGED vars
    BY <1>2 DEF mcVars, vars
  <2>8. QED
    BY <1>2, <2>1, <2>2, <2>3, <2>4, <2>5, <2>6, <2>7 DEF mcVars
<1>3. QED
  BY <1>1, <1>2

LEMMA PartsBegin == MCInit => PartsInv
<1> SUFFICES ASSUME MCInit PROVE PartsInv
  OBVIOUS
<1>1. part = "datasource loop" => DatasourceLoop!IInv
  BY MCAssumption, DatasourceLoop!InitIInv DEF MCInit, MCAssumption
<1>2. part = "datasource threads" => Datasource!IInv
  BY MCAssumption, Datasource!InitIInv DEF MCInit, MCAssumption
<1>3. part = "datasource ends" => DatasourceEnds!IInv
  BY MCAssumption, DatasourceEnds!InitIInv DEF MCInit, MCAssumption
<1>4. part = "model loop" => ModelLoop!ModelIInv
  BY MCAssumption, ModelLoop!ModelInitIInv DEF MCInit, MCAssumption
<1>5. part = "model threads" => Model!ModelIInv
  BY MCAssumption, Model!ModelInitIInv DEF MCInit, MCAssumption
<1>6. part = "model ends" => ModelEnds!ModelIInv
  BY MCAssumption, ModelEnds!ModelInitIInv DEF MCInit, MCAssumption
<1>7. part = "store" => IInv
  BY MCAssumption, InitIInv DEF MCInit, MCAssumption
<1>8. QED
  BY <1>1, <1>2, <1>3, <1>4, <1>5, <1>6, <1>7 DEF PartsInv

LEMMA PartsKeep == PartsInv /\ [MCNext]_mcVars => PartsInv'
<1> SUFFICES ASSUME PartsInv, [MCNext]_mcVars PROVE PartsInv'
  OBVIOUS
<1>1. part = "datasource loop" => DatasourceLoop!IInv'
  BY PartSteps, MCAssumption, DatasourceLoop!NextIInv
     DEF PartsInv, MCAssumption
<1>2. part = "datasource threads" => Datasource!IInv'
  BY PartSteps, MCAssumption, Datasource!NextIInv
     DEF PartsInv, MCAssumption
<1>3. part = "datasource ends" => DatasourceEnds!IInv'
  BY PartSteps, MCAssumption, DatasourceEnds!NextIInv
     DEF PartsInv, MCAssumption
<1>4. part = "model loop" => ModelLoop!ModelIInv'
  BY PartSteps, MCAssumption, ModelLoop!ModelNextIInv
     DEF PartsInv, MCAssumption
<1>5. part = "model threads" => Model!ModelIInv'
  BY PartSteps, MCAssumption, Model!ModelNextIInv
     DEF PartsInv, MCAssumption
<1>6. part = "model ends" => ModelEnds!ModelIInv'
  BY PartSteps, MCAssumption, ModelEnds!ModelNextIInv
     DEF PartsInv, MCAssumption
<1>7. part = "store" => IInv'
  BY PartSteps, MCAssumption, NextIInv DEF PartsInv, MCAssumption
<1>8. QED
  BY PartSteps, <1>1, <1>2, <1>3, <1>4, <1>5, <1>6, <1>7 DEF PartsInv

LEMMA PartsInvariant == MCSpec => []PartsInv
BY PartsBegin, PartsKeep, PTL DEF MCSpec

(* The values of each component are of the declared kinds.                 *)
THEOREM ProfilesTyped == MCSpec => []MCTypeOK
<1>1. PartsInv => MCTypeOK
  BY DEF PartsInv, MCTypeOK, IInv, DatasourceLoop!IInv, DatasourceLoop!Typed,
     Datasource!IInv, Datasource!Typed, DatasourceEnds!IInv,
     DatasourceEnds!Typed, ModelLoop!ModelIInv, ModelLoop!ModelTyped,
     Model!ModelIInv, Model!ModelTyped, ModelEnds!ModelIInv,
     ModelEnds!ModelTyped
<1>2. QED
  BY <1>1, PartsInvariant, PTL

(* Every open connector is the cached one or is being built: one that is   *)
(* replaced, refused or deleted is closed, whatever queries hold it        *)
(* (RuntimeRegistry), and an edit that fails has changed nothing           *)
(* (DatasourceProfileService).                                             *)
THEOREM ConnectorsClosed == MCSpec => []ConnectorsOwned
<1>1. PartsInv => ConnectorsOwned
  BY DEF PartsInv, ConnectorsOwned, DatasourceLoop!IInv,
     DatasourceLoop!Owners, DatasourceLoop!Loop,
     DatasourceLoop!FailedChangesNothing, Datasource!IInv, Datasource!Owners
<1>2. QED
  BY <1>1, PartsInvariant, PTL

(* Nothing stale is served once no edit is under way: the cached runtime   *)
(* is that of the profile in the store and of its credentials, no query    *)
(* starts an operation on a configuration that was replaced, and one that  *)
(* no edit disturbs gets what is current and is not refused                *)
(* (runtime_registry.py, model_runtime_registry.py).                       *)
THEOREM CurrentServed == MCSpec => []NothingStale
<1>1. PartsInv => NothingStale
  <2> SUFFICES ASSUME PartsInv PROVE NothingStale
    OBVIOUS
  <2>1. part = "datasource loop" =>
            DatasourceLoop!CachedIsCurrent /\ DatasourceLoop!NoOldData
    BY MCAssumption, DatasourceLoop!NoneStale
    DEF PartsInv, MCAssumption, DatasourceLoop!Apart
  <2>2. part = "datasource threads" =>
            Datasource!CachedIsCurrent /\ Datasource!NoOldData
    BY MCAssumption, Datasource!NoneStale
    DEF PartsInv, MCAssumption, Datasource!Apart
  <2>3. part = "model loop" => ModelLoop!M!CachedIsCurrent
    BY MCAssumption, ModelLoop!ModelNoneStale DEF PartsInv, MCAssumption
  <2>4. part = "model threads" =>
            /\ Model!M!CachedIsCurrent /\ Model!M!FreshIsCurrent
            /\ Model!M!NeverStaleAlone
    BY MCAssumption, Model!ModelNoneStale DEF PartsInv, MCAssumption
  <2>5. QED
    BY <2>1, <2>2, <2>3, <2>4 DEF NothingStale
<1>2. QED
  BY <1>1, PartsInvariant, PTL

(* On one event loop no runtime uses a key with an endpoint it was not     *)
(* given for (ModelProfileService.replace).                                *)
THEOREM KeysAtHome == MCSpec => []KeysStayHome
<1>1. PartsInv => KeysStayHome
  BY DEF PartsInv, KeysStayHome, ModelLoop!ModelIInv, ModelLoop!Homes
<1>2. QED
  BY <1>1, PartsInvariant, PTL

=============================================================================
