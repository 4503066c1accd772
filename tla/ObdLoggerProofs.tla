-------------------------- MODULE ObdLoggerProofs ---------------------------
(* Proofs about ObdLogger, for any files, parameters and bounds.           *)
EXTENDS ObdLogger, TLAPS

(* OneUser with what makes it inductive: a rotation under way has db_mutex *)
(* from CloseForRotation on or has none at all, and while a file is sent   *)
(* the database can only be opened by a rotation that had no mutex;        *)
(* nobody sends one while the device starts.                               *)
UserInv ==
    /\ logger = "store" => mutex = "logger"
    /\ query = "using" <=> mutex = "query"
    /\ web = "sending" <=> mutex = "web"
    /\ web = "sending" => handle = NoFile \/ logger = "opened"
    /\ logger \in Booting => web = "idle"
    /\ mutex \in {"none", "logger", "web", "query"}
    /\ web \in {"idle", "sending"} /\ query \in {"idle", "using"}

LEMMA InitUser == Init => UserInv
  BY DEF Init, UserInv

LEMMA UserIndex ==
    ASSUME UserInv, NEW from, NEW to, from # "opened", to \notin Booting \cup {"store"},
           \/ EmptyIndex(from, to) \/ WriteIndex(from, to) \/ IndexFails(from, to)
    PROVE  UserInv'
  BY DEF UserInv, EmptyIndex, WriteIndex, IndexFails, At, Goto, users, Booting

LEMMA UserStep == UserInv /\ [Next]_vars => UserInv'
<1> SUFFICES ASSUME UserInv, [Next]_vars PROVE UserInv'
  OBVIOUS
<1> USE DEF UserInv, users, world, card, contents, At, Goto, Booting
<1>1. CASE Boot
  BY <1>1 DEF Boot, LoadIndex, FirstIndex, WriteFirstIndex, OpenAtBoot, InitFails,
              TakesNewName
<1>2. CASE Sample \/ CheckSize
  BY <1>2 DEF Sample, CheckSize
<1>3. CASE Rotate
  <2>1. CASE RotationStarts
    BY <2>1 DEF RotationStarts
  <2>2. CASE CloseForRotation
    BY <2>2 DEF CloseForRotation
  <2>3. CASE NameNewFile \/ NamedInVain
    BY <2>3 DEF NameNewFile, NamedInVain, TakesNewName
  <2>4. CASE UpdateIndex
    BY <2>4, UserIndex DEF UpdateIndex
  <2>5. CASE CleanUp
    BY <2>5 DEF CleanUp
  <2>6. CASE OpenNew
    BY <2>6 DEF OpenNew
  <2>7. CASE RotationEnds \/ GiveUpRotation
    BY <2>7 DEF RotationEnds, GiveUpRotation, Panics
  <2> QED
    BY <1>3, <2>1, <2>2, <2>3, <2>4, <2>5, <2>6, <2>7 DEF Rotate
<1>4. CASE RotationPanics \/ Reset
  BY <1>4 DEF RotationPanics, Reset, Restart
<1>5. CASE LockToStore \/ Store \/ StoreFails
  BY <1>5 DEF LockToStore, Store, StoreFails
<1>6. CASE Toggle
  BY <1>6 DEF Toggle
<1>7. CASE LockClose \/ UnlockOpen
  BY <1>7 DEF LockClose, UnlockOpen, Running
<1>8. CASE QueryLocks \/ QueryEnds
  BY <1>8 DEF QueryLocks, QueryEnds
<1>9. CASE UNCHANGED vars
  BY <1>9 DEF vars
<1> QED
  BY <1>1, <1>2, <1>3, <1>4, <1>5, <1>6, <1>7, <1>8, <1>9 DEF Next, LoggerTask

(* OneUser (obd_logger_db_event_handler, obd_logger_lock_close) for any    *)
(* number of files and parameters, any limits and any number of resets.    *)
THEOREM OneUserAlways == Spec => []OneUser
<1>1. UserInv => OneUser
  BY DEF UserInv, OneUser
<1> QED
  BY <1>1, InitUser, UserStep, PTL DEF Spec

-----------------------------------------------------------------------------
(* The files on the card, and the file the logger goes by.                 *)
ListingOK ==
    /\ files \subseteq Files /\ fresher \in [Files -> SUBSET files]
    /\ \A f \in Files : f \notin fresher[f] /\ (f \notin files => fresher[f] = {})

PathInv == logger \notin {"boot", "off"} => path \in Files

(* What a write does to the files: one more at most, and nothing is        *)
(* fresher than the one that is written.                                   *)
LEMMA TouchListing ==
    ASSUME ListingOK, NEW f \in Files, Touch(f)
    PROVE  /\ ListingOK'
           /\ files' = files \cup {f}
           /\ fresher'[f] = {}
           /\ \A g \in Files : fresher'[g] \subseteq fresher[g] \cup {f}
<1>1. /\ files' = files \cup {f} /\ files' \subseteq Files
      /\ fresher' = [g \in Files |-> IF g \in files \ {f} THEN fresher[g] \cup {f} ELSE {}]
  BY DEF ListingOK, Touch
<1>2. \A g \in Files : fresher[g] \subseteq files
  BY DEF ListingOK
<1>3. \A g \in Files : fresher'[g] = IF g \in files \ {f} THEN fresher[g] \cup {f} ELSE {}
  BY <1>1
<1>4. fresher' \in [Files -> SUBSET files']
  BY <1>1, <1>2
<1>5. \A g \in Files : g \notin fresher'[g] /\ (g \notin files' => fresher'[g] = {})
  BY <1>1, <1>3 DEF ListingOK
<1> QED
  BY <1>1, <1>3, <1>4, <1>5 DEF ListingOK

LEMMA CreateListing ==
    ASSUME ListingOK, NEW f \in Files, Create(f)
    PROVE  /\ ListingOK'
           /\ files' = files \cup {f}
           /\ \A g \in Files : fresher'[g] \subseteq fresher[g] \cup {f}
           /\ f \in files => fresher' = fresher
           /\ f \notin files => fresher'[f] = {}
<1>1. CASE f \in files
  <2>1. UNCHANGED listing
    BY <1>1 DEF Create
  <2> QED
    BY <1>1, <2>1 DEF listing, ListingOK
<1>2. CASE f \notin files
  BY <1>2, TouchListing DEF Create
<1> QED
  BY <1>1, <1>2

(* create_new_db_file takes a name that is not on the card.                *)
LEMMA NewName ==
    ASSUME ListingOK, TakesNewName
    PROVE  path' \in Files /\ path' \notin files
  BY DEF ListingOK, TakesNewName

(* Deleting files forgets all about them, and nothing about the others.    *)
LEMMA CleanUpCard ==
    ASSUME TypeOK, CleanUp
    PROVE  \E gone \in SUBSET files :
              /\ files' = files \ gone /\ tables' = tables \ gone
              /\ ruined' = ruined \ gone /\ path \notin gone
              /\ \A f \in Files :
                    /\ fresher'[f] = IF f \in gone THEN {} ELSE fresher[f] \ gone
                    /\ data'[f] = IF f \in gone THEN {} ELSE data[f]
                    /\ size'[f] = IF f \in gone THEN 0 ELSE size[f]
              /\ fresher' \in [Files -> SUBSET files'] /\ ListingOK'
              /\ info' \in [Files -> SUBSET Params]
              /\ data' \in [Files -> SUBSET Params] /\ size' \in [Files -> 0..Limit]
<1>1. PICK list \in SUBSET files : \E gone \in SUBSET Surplus(list) :
          /\ files' = files \ gone
          /\ fresher' = [f \in Files |-> IF f \in gone THEN {} ELSE fresher[f] \ gone]
          /\ ruined' = ruined \ gone /\ tables' = tables \ gone
          /\ info' = [f \in Files |-> IF f \in gone THEN {} ELSE info[f]]
          /\ data' = [f \in Files |-> IF f \in gone THEN {} ELSE data[f]]
          /\ size' = [f \in Files |-> IF f \in gone THEN 0 ELSE size[f]]
  BY Zenon DEF CleanUp
<1>2. PICK gone \in SUBSET Surplus(list) :
          /\ files' = files \ gone
          /\ fresher' = [f \in Files |-> IF f \in gone THEN {} ELSE fresher[f] \ gone]
          /\ ruined' = ruined \ gone /\ tables' = tables \ gone
          /\ info' = [f \in Files |-> IF f \in gone THEN {} ELSE info[f]]
          /\ data' = [f \in Files |-> IF f \in gone THEN {} ELSE data[f]]
          /\ size' = [f \in Files |-> IF f \in gone THEN 0 ELSE size[f]]
  BY <1>1, Zenon
<1>3. gone \in SUBSET files /\ path \notin gone
  BY DEF Surplus
<1>4. \A f \in Files : fresher[f] \subseteq files
  BY DEF TypeOK
<1>5. /\ info' \in [Files -> SUBSET Params] /\ data' \in [Files -> SUBSET Params]
      /\ size' \in [Files -> 0..Limit]
  BY <1>2, LoggerAssumption DEF TypeOK
<1>6. \A f \in Files : fresher'[f] = IF f \in gone THEN {} ELSE fresher[f] \ gone
  BY <1>2
<1>7. fresher' \in [Files -> SUBSET files']
  BY <1>2, <1>4
<1>8. ListingOK'
  BY <1>2, <1>3, <1>6, <1>7 DEF TypeOK, ListingOK
<1>9. \A f \in Files : data'[f] = (IF f \in gone THEN {} ELSE data[f])
                    /\ size'[f] = (IF f \in gone THEN 0 ELSE size[f])
  BY <1>2
<1> QED
  BY <1>2, <1>3, <1>5, <1>6, <1>7, <1>8, <1>9

(* Whatever happens to the index file, it names the current file, none, or *)
(* what it named before.                                                   *)
LEMMA IndexSteps ==
    ASSUME UpdateIndex
    PROVE  /\ index' \in {index, NoFile, path}
           /\ UNCHANGED <<world, listing, contents, path, handle, lookup, mutex, enabled, users>>
           /\ logger \in {"index", "recreate", "reindex", "prune", "pruned"}
           /\ logger' \in {"recreate", "reindex", "cleanup", "pruned", "open", "failed"}
<1> DEFINE Kept == UNCHANGED <<world, listing, contents, path, handle, lookup, mutex, enabled, users>>
<1>1. ASSUME NEW from, NEW to, EmptyIndex(from, to) \/ WriteIndex(from, to) \/ IndexFails(from, to)
      PROVE  index' \in {index, NoFile, path} /\ Kept /\ logger = from /\ logger' = to
  BY <1>1 DEF EmptyIndex, WriteIndex, IndexFails, At, Goto, card
<1> HIDE DEF Kept
<1>2. /\ index' \in {index, NoFile, path} /\ Kept
      /\ logger \in {"index", "recreate", "reindex", "prune", "pruned"}
      /\ logger' \in {"recreate", "reindex", "cleanup", "pruned", "open", "failed"}
  BY <1>1 DEF UpdateIndex
<1> QED
  BY <1>2 DEF Kept

(* Type correctness of the logger.                                         *)
LEMMA InitType == Init => TypeOK /\ PathInv
<1> SUFFICES ASSUME Init PROVE TypeOK /\ PathInv
  OBVIOUS
<1>1. size \in [Files -> 0..Limit] /\ resets \in 0..MaxResets /\ Limit \in Nat
  BY LoggerAssumption DEF Init
<1>2. /\ info \in [Files -> SUBSET Params] /\ data \in [Files -> SUBSET Params]
      /\ fresher \in [Files -> SUBSET files]
      /\ \A f \in Files : fresher[f] = {}
  BY DEF Init
<1>3. calm \in BOOLEAN /\ enabled \in BOOLEAN
  BY DEF Init
<1> QED
  BY <1>1, <1>2, <1>3 DEF Init, TypeOK, PathInv, Booting, Managing

LEMMA TypeListing == TypeOK => ListingOK
  BY DEF TypeOK, ListingOK

LEMMA TypeStep == TypeOK /\ PathInv /\ [Next]_vars => TypeOK' /\ PathInv'
<1> SUFFICES ASSUME TypeOK, PathInv, [Next]_vars PROVE TypeOK' /\ PathInv'
  OBVIOUS
<1> USE LoggerAssumption
<1> USE DEF users, world, card, listing, contents, At, Goto, Booting, Managing
<1>0. ListingOK
  BY TypeListing
<1>1. CASE LoadIndex \/ FirstIndex \/ WriteFirstIndex \/ InitFails
  <2>1. CASE LoadIndex
    BY <2>1 DEF LoadIndex, TypeOK, PathInv
  <2>2. CASE FirstIndex
    BY <2>2, <1>0, NewName DEF FirstIndex, TypeOK, PathInv
  <2>3. CASE WriteFirstIndex \/ InitFails
    BY <2>3 DEF WriteFirstIndex, InitFails, TypeOK, PathInv
  <2> QED
    BY <1>1, <2>1, <2>2, <2>3
<1>2. CASE OpenAtBoot
  <2>1. path \in Files
    BY <1>2 DEF OpenAtBoot, PathInv
  <2>2. ListingOK'
    BY <1>0, <1>2, <2>1, TouchListing, CreateListing DEF OpenAtBoot
  <2>3. info' \in [Files -> SUBSET Params] /\ lookup' \subseteq Params
    BY <1>2, <2>1 DEF OpenAtBoot, NamesParams, TypeOK
  <2> QED
    BY <1>2, <2>1, <2>2, <2>3 DEF OpenAtBoot, TypeOK, ListingOK, PathInv
<1>3. CASE Sample \/ CheckSize
  BY <1>3 DEF Sample, CheckSize, TypeOK, PathInv
<1>4. CASE Rotate
  <2>1. CASE RotationStarts \/ CloseForRotation
    BY <2>1 DEF RotationStarts, CloseForRotation, TypeOK, PathInv
  <2>2. CASE NameNewFile \/ NamedInVain
    BY <2>2, <1>0, NewName DEF NameNewFile, NamedInVain, TypeOK, PathInv
  <2>3. CASE UpdateIndex
    BY <2>3, IndexSteps DEF TypeOK, PathInv
  <2>4. CASE CleanUp
    <3>1. /\ UNCHANGED <<world, index, path, handle, lookup, mutex, enabled, users>>
          /\ logger = "cleanup" /\ logger' \in {"prune", "open"}
      BY <2>4 DEF CleanUp
    <3>2. ListingOK' /\ ruined' \subseteq Files /\ tables' \subseteq Files
      BY <2>4, CleanUpCard DEF TypeOK
    <3>3. /\ info' \in [Files -> SUBSET Params] /\ data' \in [Files -> SUBSET Params]
          /\ size' \in [Files -> 0..Limit]
      BY <2>4, CleanUpCard
    <3> QED
      BY <3>1, <3>2, <3>3 DEF TypeOK, ListingOK, PathInv
  <2>5. CASE OpenNew
    <3>1. path \in Files
      BY <2>5 DEF OpenNew, PathInv
    <3>2. ListingOK'
      BY <1>0, <2>5, <3>1, CreateListing DEF OpenNew, ListingOK
    <3> QED
      BY <2>5, <3>1, <3>2 DEF OpenNew, TypeOK, ListingOK, PathInv
  <2>6. CASE RotationEnds \/ GiveUpRotation
    BY <2>6 DEF RotationEnds, GiveUpRotation, TypeOK, PathInv
  <2> QED
    BY <1>4, <2>1, <2>2, <2>3, <2>4, <2>5, <2>6 DEF Rotate
<1>5. CASE RotationPanics \/ Reset
  <2>1. /\ calm' = calm /\ UNCHANGED <<listing, tables, info, data, size, index>>
        /\ path' = NoFile /\ handle' = NoFile /\ lookup' = {} /\ mutex' = "none"
        /\ enabled' = FALSE /\ logger' = "boot" /\ web' = "idle" /\ query' = "idle"
    BY <1>5, Zenon DEF RotationPanics, Reset, Restart
  <2>2. ruined' \subseteq Files
    BY <1>5 DEF RotationPanics, Reset, Writable, TypeOK
  <2>3. resets' \in 0..MaxResets
    BY <1>5 DEF RotationPanics, Reset, TypeOK
  <2>4. calm' \in BOOLEAN
    BY <2>1 DEF TypeOK
  <2> QED
    BY <2>1, <2>2, <2>3, <2>4 DEF TypeOK, PathInv
<1>6. CASE LockToStore
  BY <1>6 DEF LockToStore, TypeOK, PathInv
<1>7. CASE Store
  <2>1. handle \in Files
    BY <1>7 DEF Store, Writable, TypeOK
  <2>2. ListingOK'
    BY <1>0, <1>7, <2>1, TouchListing DEF Store
  <2>3. data' \in [Files -> SUBSET Params] /\ size' \in [Files -> 0..Limit]
    BY <1>7, <2>1 DEF Store, TypeOK
  <2> QED
    BY <1>7, <2>2, <2>3 DEF Store, TypeOK, ListingOK, PathInv
<1>8. CASE StoreFails
  <2>1. ListingOK'
    BY <1>0, <1>8, CreateListing DEF StoreFails, ListingOK, TypeOK
  <2> QED
    BY <1>8, <2>1 DEF StoreFails, TypeOK, ListingOK, PathInv
<1>9. CASE Toggle
  BY <1>9 DEF Toggle, TypeOK, PathInv
<1>10. CASE LockClose \/ UnlockOpen
  BY <1>10 DEF LockClose, UnlockOpen, TypeOK, PathInv
<1>11. CASE QueryLocks \/ QueryEnds
  BY <1>11 DEF QueryLocks, QueryEnds, TypeOK, PathInv
<1>12. CASE UNCHANGED vars
  BY <1>12 DEF vars, TypeOK, PathInv
<1> QED
  BY <1>1, <1>2, <1>3, <1>4, <1>5, <1>6, <1>7, <1>8, <1>9, <1>10, <1>11, <1>12
  DEF Next, LoggerTask, Boot

(* Every variable of the logger keeps its type, for any number of files    *)
(* and resets; no file is ever fresher than itself.                        *)
THEOREM TypeCorrect == Spec => []TypeOK
  BY InitType, TypeStep, PTL DEF Spec

-----------------------------------------------------------------------------
(* Which file the logger is on.  What has rows is a database on the card,  *)
(* and so is what is full.                                                 *)
CardInv ==
    /\ tables \subseteq files
    /\ \A f \in Files : data[f] # {} \/ size[f] > 0 => f \in tables

(* From the new name to the new database, the index can only call that     *)
(* name current, or nothing; an open database is the current one, unless   *)
(* that one is not there yet; and no other file on the card than an open   *)
(* database is called current.                                             *)
NewFile == {"first", "tables"} \cup Managing \cup {"cleanup", "prune", "pruned", "open"}

PlaceInv ==
    /\ logger \in Booting => handle = NoFile
    /\ logger \in {"rotate", "await", "create"} => path \in tables
    /\ handle # NoFile /\ path \in files => handle = path
    /\ handle \in tables /\ index \in files => index = handle
    /\ path \in tables \/ logger \in NewFile => index \in {NoFile, path}

(* No file has rows that was modified after one the logger may go on with. *)
LatestInv ==
    \A f \in {handle, path, index} \cap files : \A g \in fresher[f] : data[g] = {}

(* Only five steps change what is on the card.                             *)
LEMMA OthersKeepCard ==
    ASSUME [Next]_vars, ~OpenAtBoot, ~CleanUp, ~OpenNew, ~Store, ~StoreFails
    PROVE  UNCHANGED <<files, fresher, tables, data, size>>
<1> USE DEF card, listing, contents
<1>1. CASE Boot
  BY <1>1 DEF Boot, LoadIndex, FirstIndex, WriteFirstIndex, InitFails
<1>2. CASE Sample \/ CheckSize \/ LockToStore
  BY <1>2 DEF Sample, CheckSize, LockToStore
<1>3. CASE Rotate
  <2>1. CASE UpdateIndex
    BY <2>1, IndexSteps
  <2> QED
    BY <1>3, <2>1 DEF Rotate, RotationStarts, CloseForRotation, NameNewFile, NamedInVain,
                      RotationEnds, GiveUpRotation
<1>4. CASE RotationPanics \/ Reset
  BY <1>4, Zenon DEF RotationPanics, Reset, Restart
<1>5. CASE Toggle \/ LockClose \/ UnlockOpen \/ QueryLocks \/ QueryEnds
  BY <1>5 DEF Toggle, LockClose, UnlockOpen, QueryLocks, QueryEnds
<1>6. CASE UNCHANGED vars
  BY <1>6 DEF vars
<1> QED
  BY <1>1, <1>2, <1>3, <1>4, <1>5, <1>6 DEF Next, LoggerTask

(* A name the logger goes by is one it went by, none, or a new one.        *)
LEMMA NamesKept ==
    ASSUME ListingOK, [Next]_vars
    PROVE  \A f \in {handle', path', index'} :
              f \in {handle, path, index, NoFile} \/ f \notin files
<1> USE DEF card, users
<1>1. CASE Boot
  BY <1>1, NewName DEF Boot, LoadIndex, FirstIndex, WriteFirstIndex, OpenAtBoot, InitFails
<1>2. CASE Sample \/ CheckSize \/ LockToStore \/ Store \/ StoreFails
  BY <1>2 DEF Sample, CheckSize, LockToStore, Store, StoreFails
<1>3. CASE Rotate
  <2>1. CASE UpdateIndex
    BY <2>1, IndexSteps
  <2>2. CASE NameNewFile \/ NamedInVain
    BY <2>2, NewName DEF NameNewFile, NamedInVain
  <2> QED
    BY <1>3, <2>1, <2>2 DEF Rotate, RotationStarts, CloseForRotation, CleanUp, OpenNew,
                            RotationEnds, GiveUpRotation
<1>4. CASE RotationPanics \/ Reset
  BY <1>4, Zenon DEF RotationPanics, Reset, Restart
<1>5. CASE Toggle \/ LockClose \/ UnlockOpen \/ QueryLocks \/ QueryEnds
  BY <1>5 DEF Toggle, LockClose, UnlockOpen, QueryLocks, QueryEnds
<1>6. CASE UNCHANGED vars
  BY <1>6 DEF vars
<1> QED
  BY <1>1, <1>2, <1>3, <1>4, <1>5, <1>6 DEF Next, LoggerTask

LEMMA CardStep == TypeOK /\ PathInv /\ CardInv /\ [Next]_vars => CardInv'
<1> SUFFICES ASSUME TypeOK, PathInv, CardInv, [Next]_vars PROVE CardInv'
  OBVIOUS
<1>0. ListingOK
  BY TypeListing
<1>1. CASE OpenAtBoot
  <2>1. path \in Files
    BY <1>1 DEF OpenAtBoot, PathInv, At, Booting
  <2>2. files' = files \cup {path} /\ tables' = tables \cup {path}
        /\ data' = data /\ size' = size
    BY <1>0, <1>1, <2>1, TouchListing, CreateListing DEF OpenAtBoot
  <2> QED
    BY <2>2 DEF CardInv
<1>2. CASE OpenNew
  <2>1. path \in Files
    BY <1>2 DEF OpenNew, PathInv, At
  <2>2. \/ files' = files \cup {path} /\ tables' = tables \cup {path}
        \/ files' = files /\ tables' = tables
    BY <1>0, <1>2, <2>1, CreateListing DEF OpenNew, listing
  <2>3. data' = data /\ size' = size
    BY <1>2 DEF OpenNew
  <2> QED
    BY <2>2, <2>3 DEF CardInv
<1>3. CASE CleanUp
  <2>1. PICK gone \in SUBSET files :
              /\ files' = files \ gone /\ tables' = tables \ gone
              /\ \A f \in Files : /\ data'[f] = IF f \in gone THEN {} ELSE data[f]
                                  /\ size'[f] = IF f \in gone THEN 0 ELSE size[f]
    BY <1>3, CleanUpCard
  <2> QED
    BY <2>1 DEF CardInv
<1>4. CASE Store
  <2>1. handle \in tables /\ handle \in Files
    BY <1>4 DEF Store, Writable, TypeOK
  <2>2. files' = files \cup {handle} /\ tables' = tables
    BY <1>0, <1>4, <2>1, TouchListing DEF Store
  <2>3. \A f \in Files \ {handle} : data'[f] = data[f] /\ size'[f] = size[f]
    BY <1>4 DEF Store, TypeOK
  <2> QED
    BY <2>1, <2>2, <2>3 DEF CardInv
<1>5. CASE StoreFails
  <2>1. handle # NoFile => handle \in Files
    BY DEF TypeOK
  <2>2. files \subseteq files'
    BY <1>0, <1>5, <2>1, CreateListing DEF StoreFails, listing
  <2>3. tables' = tables /\ data' = data /\ size' = size
    BY <1>5 DEF StoreFails, contents
  <2> QED
    BY <2>2, <2>3 DEF CardInv
<1> QED
  BY <1>1, <1>2, <1>3, <1>4, <1>5, OthersKeepCard DEF CardInv

LEMMA LatestStep ==
    TypeOK /\ PathInv /\ CardInv /\ PlaceInv /\ LatestInv /\ [Next]_vars => LatestInv'
<1> SUFFICES ASSUME TypeOK, PathInv, CardInv, PlaceInv, LatestInv, [Next]_vars,
                    NEW f \in {handle', path', index'} \cap files', NEW g \in fresher'[f]
             PROVE  data'[g] = {}
  BY DEF LatestInv
<1>0. ListingOK /\ NoFile \notin Files
  BY TypeListing, LoggerAssumption
<1>n. f \in {handle, path, index, NoFile} \/ f \notin files
  BY <1>0, NamesKept
<1>1. CASE OpenAtBoot \/ OpenNew
  <2>1. path \in Files
    BY <1>1 DEF OpenAtBoot, OpenNew, PathInv, At, Booting
  <2>2. index \in {NoFile, path}
    BY <1>1 DEF OpenAtBoot, OpenNew, PlaceInv, NewFile, At
  <2>3. handle' = path /\ path' = path /\ index' = index /\ data' = data
    BY <1>1 DEF OpenAtBoot, OpenNew
  <2>4. /\ files' \subseteq Files
        /\ fresher'[path] = {} \/ (path \in files /\ fresher'[path] = fresher[path])
           \/ (path \notin files')
    <3>1. CASE Touch(path)
      BY <1>0, <2>1, <3>1, TouchListing DEF ListingOK
    <3>2. CASE Create(path)
      BY <1>0, <2>1, <3>2, CreateListing DEF ListingOK
    <3>3. CASE UNCHANGED listing
      BY <1>0, <3>3 DEF listing, ListingOK
    <3> QED
      BY <1>1, <3>1, <3>2, <3>3 DEF OpenAtBoot, OpenNew, listing
  <2>5. f = path
    BY <1>0, <2>2, <2>3, <2>4
  <2> QED
    BY <2>3, <2>4, <2>5 DEF LatestInv
<1>2. CASE CleanUp
  <2>1. handle' = handle /\ path' = path /\ index' = index
    BY <1>2 DEF CleanUp
  <2>2. PICK gone \in SUBSET files :
              /\ files' = files \ gone
              /\ \A h \in Files : /\ fresher'[h] = IF h \in gone THEN {} ELSE fresher[h] \ gone
                                  /\ data'[h] = IF h \in gone THEN {} ELSE data[h]
    BY <1>2, CleanUpCard
  <2>3. f \in {handle, path, index} \cap files /\ f \in Files /\ f \notin gone
    BY <1>0, <2>1, <2>2 DEF ListingOK
  <2>4. g \in fresher[f] /\ g \in Files
    BY <1>0, <2>2, <2>3 DEF ListingOK
  <2> QED
    BY <2>2, <2>3, <2>4 DEF LatestInv
<1>3. CASE Store
  <2>1. handle \in tables /\ handle \in files /\ handle \in Files
    BY <1>3 DEF Store, Writable, TypeOK, CardInv
  <2>2. handle' = handle /\ path' = path /\ index' = index
    BY <1>3 DEF Store
  <2>3. files' = files \cup {handle} /\ fresher'[handle] = {}
    BY <1>0, <1>3, <2>1, TouchListing DEF Store
  <2>4. f = handle
    BY <1>0, <2>1, <2>2, <2>3 DEF PlaceInv
  <2> QED
    BY <2>3, <2>4
<1>4. CASE StoreFails
  <2>1. handle' = handle /\ path' = path /\ index' = index /\ data' = data
    BY <1>4 DEF StoreFails, contents
  <2>2. CASE handle = NoFile
    BY <1>4, <2>1, <2>2 DEF StoreFails, listing, LatestInv
  <2>3. CASE handle # NoFile
    <3>1. handle \in Files
      BY <2>3 DEF TypeOK
    <3>2. /\ files' = files \cup {handle}
          /\ \A h \in Files : fresher'[h] \subseteq fresher[h] \cup {handle}
          /\ handle \in files => fresher' = fresher
          /\ handle \notin files => fresher'[handle] = {}
      BY <1>0, <1>4, <2>3, <3>1, CreateListing DEF StoreFails
    <3>3. CASE handle \in files
      BY <2>1, <3>2, <3>3 DEF LatestInv
    <3>4. CASE handle \notin files
      <4>1. data[handle] = {}
        BY <3>1, <3>4 DEF CardInv
      <4>2. f # handle /\ f \in files /\ f \in Files
        BY <1>0, <3>2, <3>4 DEF ListingOK
      <4>3. g \in fresher[f] \cup {handle}
        BY <3>2, <4>2
      <4> QED
        BY <2>1, <4>1, <4>2, <4>3 DEF LatestInv
    <3> QED
      BY <3>3, <3>4
  <2> QED
    BY <2>2, <2>3
<1>5. CASE UNCHANGED <<files, fresher, tables, data, size>>
  <2>1. f \in {handle, path, index}
    BY <1>0, <1>n, <1>5 DEF ListingOK
  <2> QED
    BY <1>5, <2>1 DEF LatestInv
<1> QED
  BY <1>1, <1>2, <1>3, <1>4, <1>5, OthersKeepCard

LEMMA PlaceStep ==
    TypeOK /\ PathInv /\ CardInv /\ UserInv /\ PlaceInv /\ [Next]_vars => PlaceInv'
<1> SUFFICES ASSUME TypeOK, PathInv, CardInv, UserInv, PlaceInv, [Next]_vars PROVE PlaceInv'
  OBVIOUS
<1>0. /\ ListingOK /\ NoFile \notin Files /\ Limit > 0
      /\ tables \subseteq files /\ files \subseteq Files
  BY TypeListing, LoggerAssumption DEF CardInv, ListingOK
<1>f. NoFile \notin files'
  BY <1>0, TypeStep DEF TypeOK
<1> USE DEF PlaceInv, NewFile, Managing, Booting, At, Goto, users, card, contents
<1>1. CASE LoadIndex \/ FirstIndex \/ WriteFirstIndex \/ InitFails
  <2>1. CASE LoadIndex \/ WriteFirstIndex \/ InitFails
    BY <1>0, <2>1 DEF LoadIndex, WriteFirstIndex, InitFails, listing
  <2>2. CASE FirstIndex
    BY <1>0, <2>2, NewName DEF FirstIndex, listing
  <2> QED
    BY <1>1, <2>1, <2>2
<1>2. CASE OpenAtBoot
  BY <1>0, <1>2, <1>f DEF OpenAtBoot
<1>3. CASE CheckSize
  <2>1. Full => path \in tables
    BY <1>0 DEF Full, CardInv
  <2> QED
    BY <1>3, <2>1 DEF CheckSize, listing
<1>4. CASE Sample \/ LockToStore \/ Toggle \/ QueryLocks \/ QueryEnds
  BY <1>4 DEF Sample, LockToStore, Toggle, QueryLocks, QueryEnds, listing
<1>5. CASE Rotate
  <2>1. CASE RotationStarts \/ CloseForRotation
    BY <1>0, <2>1 DEF RotationStarts, CloseForRotation, listing
  <2>2. CASE NameNewFile \/ NamedInVain
    BY <1>0, <2>2, NewName DEF NameNewFile, NamedInVain, listing
  <2>3. CASE UpdateIndex
    <3>1. /\ index' \in {index, NoFile, path}
          /\ files' = files /\ tables' = tables /\ path' = path /\ handle' = handle
          /\ logger \in NewFile /\ logger' \notin Booting \cup {"rotate", "await", "create"}
      BY <2>3, IndexSteps DEF listing
    <3> QED
      BY <1>0, <3>1
  <2>4. CASE CleanUp
    <3>1. /\ index' = index /\ path' = path /\ handle' = handle
          /\ logger = "cleanup" /\ logger' \in {"prune", "open"}
      BY <2>4 DEF CleanUp
    <3>2. files' \subseteq files /\ tables' \subseteq tables
      BY <2>4, CleanUpCard
    <3> QED
      BY <1>0, <3>1, <3>2
  <2>5. CASE OpenNew
    BY <1>0, <2>5, <1>f DEF OpenNew
  <2>6. CASE RotationEnds \/ GiveUpRotation
    BY <2>6 DEF RotationEnds, GiveUpRotation, listing
  <2> QED
    BY <1>5, <2>1, <2>2, <2>3, <2>4, <2>5, <2>6 DEF Rotate
<1>6. CASE RotationPanics \/ Reset
  <2>1. /\ path' = NoFile /\ handle' = NoFile /\ logger' = "boot" /\ tables' = tables
    BY <1>6, Zenon DEF RotationPanics, Reset, Restart
  <2> QED
    BY <1>0, <2>1
<1>7. CASE Store
  <2>1. handle \in tables /\ handle \in Files
    BY <1>0, <1>7 DEF Store, Writable
  <2>2. files' = files \cup {handle}
    BY <1>0, <1>7, <2>1, TouchListing DEF Store
  <2> QED
    BY <1>0, <1>7, <2>1, <2>2 DEF Store
<1>8. CASE StoreFails
  <2>1. handle # NoFile => handle \in Files
    BY DEF TypeOK
  <2>2. files' = files \/ (files' = files \cup {handle} /\ handle \notin files)
    BY <1>0, <1>8, <2>1, CreateListing DEF StoreFails, listing
  <2> QED
    BY <1>0, <1>8, <2>2 DEF StoreFails
<1>9. CASE LockClose \/ UnlockOpen
  BY <1>0, <1>9 DEF LockClose, UnlockOpen, Running, UserInv, listing
<1>10. CASE UNCHANGED vars
  BY <1>10 DEF vars, listing
<1> QED
  BY <1>1, <1>2, <1>3, <1>4, <1>5, <1>6, <1>7, <1>8, <1>9, <1>10
  DEF Next, LoggerTask, Boot

(* Rows are stored in order (check_and_rotate, load_json_index,            *)
(* unlock_open) for any number of files, any limits, failures of the card  *)
(* and resets.                                                             *)
THEOREM RowsStayInOrder == Spec => RowsInOrder
<1> DEFINE Inv == TypeOK /\ PathInv /\ CardInv /\ UserInv /\ PlaceInv /\ LatestInv
<1>1. Init => Inv
  <2> SUFFICES ASSUME Init PROVE Inv
    OBVIOUS
  <2>1. TypeOK /\ PathInv /\ UserInv
    BY InitType, InitUser
  <2>2. \A f \in Files : data[f] = {} /\ size[f] = 0
    BY DEF Init
  <2> QED
    BY <2>1, <2>2 DEF Init, CardInv, PlaceInv, LatestInv, NewFile, Managing
<1>2. Inv /\ [Next]_vars => Inv'
  BY TypeStep, CardStep, UserStep, PlaceStep, LatestStep
<1>3. Inv /\ [Next]_vars => [Store => \A f \in fresher[handle] : data[f] = {}]_vars
  <2> SUFFICES ASSUME Inv, Store
               PROVE  \A f \in fresher[handle] : data[f] = {}
    OBVIOUS
  <2>1. handle \in files
    BY DEF Store, Writable, CardInv
  <2> QED
    BY <2>1 DEF LatestInv
<1> QED
  BY <1>1, <1>2, <1>3, PTL DEF Spec, RowsInOrder
=============================================================================
