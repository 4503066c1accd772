------------------------------ MODULE ObdLogger ------------------------------
(***************************************************************************)
(* The data logger (components/obd_logger): a task that stores changed     *)
(* values in an SQLite file on the card and goes on to a new file when     *)
(* that one is full (obd_logger.c, obd_logger_db_manager.c), the web       *)
(* server that sends files, and the task that answers queries              *)
(* (obd_logger_iface.c).  They share the database under db_mutex.  The     *)
(* device may be reset at any moment; what is on the card stays.           *)
(*                                                                         *)
(* A file's param_info names the parameters of its param_data; the table   *)
(* param_lookup, filled at boot, is what the logger goes by.  Of a row     *)
(* only its parameter is modelled, and of the times of files which of two  *)
(* was modified later: the clock is taken to be right.                     *)
(***************************************************************************)
EXTENDS Naturals, FiniteSets

CONSTANTS
    Files,        \* names of database files (one may be used again),
    NoFile,       \* and none of them,
    Params,       \* the configured parameters
    Limit,        \* how often one file is written before it is full
    MaxDbFiles,   \* max_db_files
    MaxResets     \* bound: resets

ASSUME LoggerAssumption ==
    /\ NoFile \notin Files /\ IsFiniteSet(Files)
    /\ Limit \in Nat \ {0} /\ MaxDbFiles \in Nat \ {0}
    /\ MaxResets \in Nat

VARIABLES
    calm,      \* the card never fails, and no reset ruins a file
    resets,
    (* on the card *)
    files,     \* the database files,
    fresher,   \* for each, those that were modified after it,
    ruined,    \* those that SQLite cannot read any more,
    tables,    \* those that have their two tables,
    info,      \* their param_info
    data,      \* and param_data,
    size,      \* how often they were written,
    index,     \* and the file that db_index.json calls current
    (* in memory *)
    path,      \* current_db_path
    handle,    \* the file that db_file has open,
    lookup,    \* param_lookup,
    mutex,     \* the holder of db_mutex,
    enabled,   \* OBD_LOGGER_ENABLED_BIT
    logger,    \* where obd_logger_task is,
    web,       \* the web server,
    query      \* and sql_execution_task

world == <<calm, resets>>
contents == <<ruined, tables, info, data, size>>
listing == <<files, fresher>>
card == <<listing, contents, index>>
users == <<web, query>>
vars == <<world, card, path, handle, lookup, mutex, enabled, logger, users>>

-----------------------------------------------------------------------------
(* odb_logger_init.                                                        *)
Booting == {"boot", "first", "tables"}

(* load_json_index; an index that cannot be read, or whose file is not     *)
(* there, is replaced by one that lists a new file only.                   *)
LoadIndex ==
    /\ logger = "boot" /\ index \in files
    /\ path' = index
    /\ logger' = "tables"
    /\ UNCHANGED <<world, card, handle, lookup, mutex, enabled, users>>

(* generate_db_filename.                                                   *)
TakesNewName ==
    /\ files # Files
    /\ path' = CHOOSE f \in Files : f \notin files

(* fopen with "w" empties the file.                                        *)
FirstIndex ==
    /\ logger = "boot" /\ index \notin files
    /\ TakesNewName
    /\ index' = NoFile
    /\ logger' = "first"
    /\ UNCHANGED <<world, listing, contents, handle, lookup, mutex, enabled, users>>

WriteFirstIndex ==
    /\ logger = "first"
    /\ index' = path
    /\ logger' = "tables"
    /\ UNCHANGED <<world, listing, contents, path, handle, lookup, mutex, enabled, users>>

(* seeded fault: a file that is there keeps its place, too                 *)
TouchAgain(f) ==
    /\ files' = files \cup {f}
    /\ fresher' = [g \in Files |-> IF g \in files THEN fresher[g] \cup {f} ELSE {}]

(* A file is written, and modified later than any other.                   *)
Touch(f) ==
    /\ files' = files \cup {f}
    /\ fresher' = [g \in Files |-> IF g \in files \ {f} THEN fresher[g] \cup {f} ELSE {}]

(* The file appears on the card when it is first written.                  *)
Create(f) == IF f \in files THEN UNCHANGED listing ELSE Touch(f)

(* obd_logger_init_params; only here are names given to a file.            *)
NamesParams ==
    /\ info' = [info EXCEPT ![path] = Params]
    /\ lookup' = info'[path]

(* init_db_tables.  A file that lacks nothing need not be written.         *)
OpenAtBoot ==
    /\ logger = "tables" /\ path \notin ruined
    /\ Create(path) \/ Touch(path)
    /\ tables' = tables \cup {path}
    /\ NamesParams
    /\ handle' = path
    /\ enabled' = TRUE
    /\ logger' = "idle"
    /\ UNCHANGED <<world, ruined, data, size, index, path, mutex, users>>

(* The card fails, or the file is ruined: there is no logger in this boot. *)
InitFails ==
    /\ \/ logger \in Booting /\ ~calm
       \/ logger = "tables" /\ path \in ruined
    /\ logger' = "off"
    /\ UNCHANGED <<world, card, path, handle, lookup, mutex, enabled, users>>

Init ==
    /\ calm \in BOOLEAN /\ resets = 0
    /\ files = {} /\ fresher = [f \in Files |-> {}]
    /\ ruined = {} /\ tables = {}
    /\ info = [f \in Files |-> {}] /\ data = [f \in Files |-> {}]
    /\ size = [f \in Files |-> 0] /\ index = NoFile
    /\ path = NoFile /\ handle = NoFile /\ lookup = {}
    /\ mutex = "none" /\ enabled = FALSE
    /\ logger = "boot" /\ web = "idle" /\ query = "idle"

-----------------------------------------------------------------------------
Writable == handle \in tables \ ruined

(* The memory is lost.                                                     *)
Restart ==
    /\ path' = NoFile /\ handle' = NoFile /\ lookup' = {} /\ mutex' = "none"
    /\ enabled' = FALSE /\ logger' = "boot" /\ web' = "idle" /\ query' = "idle"
    /\ UNCHANGED <<calm, listing, tables, info, data, size, index>>

(* A transaction is written with journal_mode MEMORY and synchronous OFF:  *)
(* a reset in it may leave the file unreadable.                            *)
Reset ==
    /\ resets < MaxResets /\ resets' = resets + 1
    /\ \/ UNCHANGED ruined
       \/ logger = "store" /\ Writable /\ ~calm /\ ruined' = ruined \cup {handle}
    /\ Restart

(* seeded fault: FreeRTOS lets anybody give a mutex                        *)
PanicsNever == FALSE

(* xSemaphoreGive(db_mutex), whether or not obd_logger_task has taken it:  *)
(* it has no effect on a free mutex, and FreeRTOS asserts that another's   *)
(* is not given.                                                           *)
Panics == mutex \notin {"logger", "none"}

-----------------------------------------------------------------------------
(* obd_logger_task.  It looks at db_file before it has the mutex.          *)
At(s) == logger = s
Goto(s) == logger' = s

Sample ==
    /\ At("idle") /\ enabled /\ handle # NoFile
    /\ Goto("check")
    /\ UNCHANGED <<world, card, path, handle, lookup, mutex, enabled, users>>

Full == path \in files /\ size[path] = Limit

(* obd_db_manager_check_and_rotate; what it returns is not looked at.      *)
CheckSize ==
    /\ At("check")
    /\ Goto(IF Full THEN "rotate" ELSE "lock")
    /\ UNCHANGED <<world, card, path, handle, lookup, mutex, enabled, users>>

(* OBD_DB_ROTATION_STARTED: a database that a download has closed just     *)
(* now is taken for one that needs no mutex.                               *)
RotationStarts ==
    /\ At("rotate")
    /\ Goto(IF handle = NoFile THEN "create" ELSE "await")
    /\ UNCHANGED <<world, card, path, handle, lookup, mutex, enabled, users>>

CloseForRotation ==
    /\ At("await") /\ mutex = "none"
    /\ mutex' = "logger" /\ handle' = NoFile
    /\ Goto("create")
    /\ UNCHANGED <<world, card, path, lookup, enabled, users>>

(* create_new_db_file and update_json_index, twice with the same result,   *)
(* under db_manager_mutex.                                                 *)
Managing == {"index", "recreate", "reindex"}

NameNewFile ==
    /\ At("create")
    /\ TakesNewName
    /\ index' = NoFile
    /\ Goto("index")
    /\ UNCHANGED <<world, listing, contents, handle, lookup, mutex, enabled, users>>

EmptyIndex(from, to) ==
    /\ At(from) /\ index' = NoFile /\ Goto(to)
    /\ UNCHANGED <<world, listing, contents, path, handle, lookup, mutex, enabled, users>>

(* seeded fault: the newest file on the card is called current             *)
WriteIndexOfCard(from, to) ==
    /\ At(from)
    /\ index' = IF files = {} THEN NoFile ELSE CHOOSE f \in files : fresher[f] = {}
    /\ Goto(to)
    /\ UNCHANGED <<world, listing, contents, path, handle, lookup, mutex, enabled, users>>

WriteIndex(from, to) ==
    /\ At(from)
    /\ index' = path
    /\ Goto(to)
    /\ UNCHANGED <<world, listing, contents, path, handle, lookup, mutex, enabled, users>>

(* It is opened or written in vain.                                        *)
IndexFails(from, to) ==
    /\ At(from) /\ ~calm /\ Goto(to)
    /\ UNCHANGED <<world, card, path, handle, lookup, mutex, enabled, users>>

(* OBD_DB_ROTATION_FAILED.  The database stays closed.                     *)
NamedInVain ==
    /\ At("create") /\ ~calm
    /\ TakesNewName
    /\ Goto("failed")
    /\ UNCHANGED <<world, card, handle, lookup, mutex, enabled, users>>

GiveUpRotation ==
    /\ At("failed") /\ ~Panics
    /\ mutex' = "none"
    /\ Goto("lock")
    /\ UNCHANGED <<world, card, path, handle, lookup, enabled, users>>

UpdateIndex ==
    \/ WriteIndex("index", "recreate") \/ IndexFails("index", "failed")
    \/ EmptyIndex("recreate", "reindex") \/ IndexFails("recreate", "cleanup")
    \/ WriteIndex("reindex", "cleanup") \/ IndexFails("reindex", "cleanup")
    \/ EmptyIndex("prune", "pruned") \/ IndexFails("prune", "open")
    \/ WriteIndex("pruned", "open") \/ IndexFails("pruned", "open")

(* obd_db_manager_cleanup_old_files, while the new file is not on the card *)
(* yet.  Its list has room for twice as many files as are kept.            *)
Listed ==
    IF Cardinality(files) > 2 * MaxDbFiles THEN 2 * MaxDbFiles ELSE Cardinality(files)

Surplus(list) ==
    {f \in list : Cardinality(fresher[f] \cap list) >= MaxDbFiles} \ {path}

CleanUp ==
    /\ At("cleanup")
    /\ \E list \in SUBSET files : \E gone \in SUBSET Surplus(list) :
          /\ Cardinality(list) = Listed
          /\ calm => gone = Surplus(list)
          /\ files' = files \ gone
          /\ fresher' = [f \in Files |-> IF f \in gone THEN {} ELSE fresher[f] \ gone]
          /\ ruined' = ruined \ gone /\ tables' = tables \ gone
          /\ info' = [f \in Files |-> IF f \in gone THEN {} ELSE info[f]]
          /\ data' = [f \in Files |-> IF f \in gone THEN {} ELSE data[f]]
          /\ size' = [f \in Files |-> IF f \in gone THEN 0 ELSE size[f]]
    /\ Goto(IF Cardinality(files) > MaxDbFiles THEN "prune" ELSE "open")
    /\ UNCHANGED <<world, index, path, handle, lookup, mutex, enabled, users>>

(* OBD_DB_ROTATION_COMPLETED.  Nobody tells param_lookup or param_info.    *)
OpenNew ==
    /\ At("open")
    /\ handle' = path
    /\ \/ Create(path) /\ tables' = tables \cup {path}
       \/ ~calm /\ UNCHANGED <<listing, tables>>
    /\ Goto("opened")
    /\ UNCHANGED <<world, ruined, info, data, size, index, path, lookup, mutex, enabled, users>>

RotationEnds ==
    /\ At("opened") /\ ~Panics
    /\ mutex' = "none"
    /\ Goto("lock")
    /\ UNCHANGED <<world, card, path, handle, lookup, enabled, users>>

RotationPanics ==
    /\ logger \in {"opened", "failed"} /\ Panics
    /\ UNCHANGED <<resets, ruined>>
    /\ Restart

(* The rest of obd_logger_store_params.                                    *)
LockToStore ==
    /\ At("lock") /\ mutex = "none"
    /\ mutex' = "logger"
    /\ Goto("store")
    /\ UNCHANGED <<world, card, path, handle, lookup, enabled, users>>

Store ==
    /\ At("store") /\ Writable
    /\ \E changed \in SUBSET Params \ {{}} :
          data' = [data EXCEPT ![handle] = @ \cup (changed \cap lookup)]
    /\ Touch(handle)
    /\ size' = [size EXCEPT ![handle] = IF @ = Limit THEN Limit ELSE @ + 1]
    /\ mutex' = "none"
    /\ Goto("idle")
    /\ UNCHANGED <<world, ruined, tables, info, index, path, handle, lookup, enabled, users>>

(* BEGIN, or the statement, fails.  SQLite has then made an empty file of  *)
(* one that was not there.                                                 *)
StoreFails ==
    /\ At("store") /\ (~Writable \/ ~calm)
    /\ IF handle = NoFile THEN UNCHANGED listing ELSE Create(handle)
    /\ mutex' = "none"
    /\ Goto("idle")
    /\ UNCHANGED <<world, contents, index, path, handle, lookup, enabled, users>>

Rotate ==
    \/ RotationStarts \/ CloseForRotation \/ NameNewFile \/ NamedInVain
    \/ UpdateIndex \/ CleanUp \/ OpenNew \/ RotationEnds \/ GiveUpRotation

Boot ==
    LoadIndex \/ FirstIndex \/ WriteFirstIndex \/ OpenAtBoot \/ InitFails

LoggerTask ==
    \/ Boot \/ Sample \/ CheckSize \/ Rotate \/ RotationPanics
    \/ LockToStore \/ Store \/ StoreFails

-----------------------------------------------------------------------------
(* The other tasks, once the logger runs.                                  *)
Running == logger \notin Booting \cup {"off"}

(* obd_logger_disable and obd_logger_enable, called by autopid_task.       *)
Toggle ==
    /\ logger \notin Booting
    /\ enabled' = ~enabled
    /\ UNCHANGED <<world, card, path, handle, lookup, mutex, logger, users>>

(* obd_logger_lock_close, before a file is sent,                           *)
LockClose ==
    /\ Running /\ web = "idle" /\ mutex = "none"
    /\ mutex' = "web" /\ handle' = NoFile
    /\ web' = "sending"
    /\ UNCHANGED <<world, card, path, lookup, enabled, logger, query>>

(* seeded fault: the database is not opened again after a download         *)
UnlockOnly ==
    /\ web = "sending"
    /\ mutex' = "none"
    /\ web' = "idle"
    /\ UNCHANGED <<world, card, path, handle, lookup, enabled, logger, query>>

(* and obd_logger_unlock_open after it.                                    *)
UnlockOpen ==
    /\ web = "sending" /\ logger \notin Managing
    /\ handle' = path
    /\ mutex' = "none"
    /\ web' = "idle"
    /\ UNCHANGED <<world, card, path, lookup, enabled, logger, query>>

(* sql_execution_task: a statement that reads.                             *)
QueryLocks ==
    /\ Running /\ query = "idle" /\ mutex = "none"
    /\ mutex' = "query" /\ query' = "using"
    /\ UNCHANGED <<world, card, path, handle, lookup, enabled, logger, web>>

QueryEnds ==
    /\ query = "using"
    /\ mutex' = "none" /\ query' = "idle"
    /\ UNCHANGED <<world, card, path, handle, lookup, enabled, logger, web>>

Next ==
    \/ LoggerTask \/ Toggle \/ LockClose \/ UnlockOpen \/ QueryLocks \/ QueryEnds
    \/ Reset

Spec == Init /\ [][Next]_vars

(* The task runs, in its turn gets a mutex that is free again and again    *)
(* (tasks of one priority wait for it in order), and a download or a query *)
(* comes to its end.                                                       *)
Fairness ==
    /\ WF_vars(LoggerTask)
    /\ SF_vars(CloseForRotation) /\ SF_vars(LockToStore)
    /\ WF_vars(UnlockOpen) /\ WF_vars(QueryEnds)

FairSpec == Spec /\ Fairness

-----------------------------------------------------------------------------
(* Every variable keeps its type, and no file is fresher than itself.      *)
TypeOK ==
    /\ calm \in BOOLEAN /\ resets \in 0..MaxResets
    /\ files \subseteq Files /\ fresher \in [Files -> SUBSET files]
    /\ \A f \in Files : f \notin fresher[f] /\ (f \notin files => fresher[f] = {})
    /\ ruined \subseteq Files /\ tables \subseteq Files
    /\ info \in [Files -> SUBSET Params] /\ data \in [Files -> SUBSET Params]
    /\ size \in [Files -> 0..Limit]
    /\ index \in Files \cup {NoFile}
    /\ path \in Files \cup {NoFile} /\ handle \in Files \cup {NoFile}
    /\ lookup \subseteq Params
    /\ mutex \in {"none", "logger", "web", "query"} /\ enabled \in BOOLEAN
    /\ logger \in Booting \cup Managing \cup
          {"off", "idle", "check", "rotate", "await", "create", "failed", "cleanup",
           "prune", "pruned", "open", "opened", "lock", "store"}
    /\ web \in {"idle", "sending"} /\ query \in {"idle", "using"}

(* Whoever stores, sends a file or queries has db_mutex, although a        *)
(* rotation may begin without it (db_file was NULL) and gives it whether   *)
(* it has taken it or not; and no database is open while a file is sent,   *)
(* but in a rotation that is about to panic.                               *)
OneUser ==
    /\ logger = "store" => mutex = "logger"
    /\ query = "using" => mutex = "query"
    /\ web = "sending" => mutex = "web" /\ (handle = NoFile \/ logger = "opened")

(* Rows are stored in a file only while no file that was written after it  *)
(* has any: neither a reset in the middle of a rotation, nor a rotation    *)
(* that fails, nor a download that reopens the database in the middle of   *)
(* it, sends the logger back to a file whose successor has rows already.   *)
RowsInOrder ==
    [][Store => \A f \in fresher[handle] : data[f] = {}]_vars

(* With a card that works, logging that stays enabled, and downloads that  *)
(* come to an end, the logger stores again and again: it outlives full     *)
(* files, resets, and downloads and queries at any point of a rotation.    *)
LoggingGoesOn ==
    calm /\ <>[]enabled /\ <>[](web = "idle") => []<><<Store>>_vars

(* A file names the parameters of all its rows: without a name the         *)
(* dashboard does not list them ("a searchable list of available           *)
(* parameters will appear", docs/content/5.Web_Interface/8.dashboard.md).  *)
RowsNamed == \A f \in files : data[f] \subseteq info[f]
=============================================================================
