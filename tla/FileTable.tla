------------------------------- MODULE FileTable -------------------------------
(***************************************************************************)
(* HttpFileContainer: the files of four directories, loaded when the       *)
(* process starts and looked up by name ever after.  The table is keyed by *)
(* the djb2 hash of a name, a name being its sequence of characters.       *)
(***************************************************************************)
EXTENDS Integers, Sequences, SequencesExt

CONSTANTS
  Directories,    \* per location, in the order of the constructor: its files
  HashModulus,    \* 2^32 in the code
  Null

(* A file knows where it is from; the code keeps its bytes and their number. *)
ASSUME DirectoriesAssumption ==
  /\ Directories \in Seq(SUBSET UNION {Directories[d] : d \in DOMAIN Directories})
  /\ \A d \in DOMAIN Directories : \A f \in Directories[d] : f.dir = d

VARIABLES
  mBinaryFileContainer,  \* hash -> file
  toLoad,                \* per location, the entries still ahead
  opened                 \* history: the files that could be read

tableVars == <<mBinaryFileContainer, toLoad, opened>>

Files == UNION {Directories[d] : d \in DOMAIN Directories}

GetHashValue(name) ==
  FoldLeft(LAMBDA hashValue, c : (33 * hashValue + c) % HashModulus, 5381, name)

TableInit ==
  /\ mBinaryFileContainer = [h \in {} |-> Null]
  /\ toLoad = Directories
  /\ opened = {}

(* Mutant: assigned, not inserted. *)
InsertOver(map, k, v) == [h \in DOMAIN map \union {k} |-> IF h = k THEN v ELSE map[h]]

(* unordered_map::insert keeps what is there; the new File is forgotten.   *)
Insert(map, k, v) ==
  [h \in DOMAIN map \union {k} |-> IF h \in DOMAIN map THEN map[h] ELSE v]

(* The next entry of a location: directory_iterator leaves the order open, *)
(* but the locations follow each other.                                    *)
Ahead(d, f) ==
  /\ f \in toLoad[d]
  /\ \A e \in 1 .. d - 1 : toLoad[e] = {}

Passed(d, f) == toLoad' = [toLoad EXCEPT ![d] = @ \ {f}]

LoadFile(d, f) ==
  /\ Ahead(d, f) /\ Passed(d, f)
  /\ mBinaryFileContainer' =
       Insert(mBinaryFileContainer, GetHashValue(f.name), f)
  /\ opened' = opened \union {f}

(* The assertion is compiled out, and the entry left aside. *)
OpenFails(d, f) ==
  /\ Ahead(d, f) /\ Passed(d, f)
  /\ UNCHANGED <<mBinaryFileContainer, opened>>

Load == \E d \in DOMAIN Directories, f \in Files : LoadFile(d, f) \/ OpenFails(d, f)

Loaded == \A d \in DOMAIN Directories : toLoad[d] = {}

GetFile(name) ==
  IF GetHashValue(name) \in DOMAIN mBinaryFileContainer
  THEN mBinaryFileContainer[GetHashValue(name)] ELSE Null

TableSpec == TableInit /\ [][Load]_tableVars

-----------------------------------------------------------------------------
(* Whatever the order of the entries, a file that was read is found under  *)
(* its name, unless a file of the same hash hides it; one hides it only    *)
(* from the same location or an earlier one.                               *)
FirstLocationWins ==
  \A f \in opened :
    /\ GetFile(f.name) \in opened
    /\ GetHashValue(GetFile(f.name).name) = GetHashValue(f.name)
    /\ GetFile(f.name).dir <= f.dir

(* HttpFileContainer.h: "file names will be key for unordered_map" - what  *)
(* a name finds is a file of that name.                                    *)
NameIsKey ==
  \A f \in Files : GetFile(f.name) # Null => GetFile(f.name).name = f.name
=============================================================================
