------------------------ MODULE ResponseGeneratorProofs ------------------------
(***************************************************************************)
(* Which file a name finds, for any directories, any order of their        *)
(* entries and any file that cannot be opened; and what a request is then  *)
(* answered with, for any services and sizes.                              *)
(***************************************************************************)
EXTENDS ResponseGenerator, TLAPS

(* Every entry knows its location, and the locations are numbered. *)
LEMMA FilesHaveLocations ==
  /\ DOMAIN Directories \subseteq Nat
  /\ \A f \in Files : f.dir \in DOMAIN Directories
  /\ \A d \in DOMAIN Directories : \A f \in Directories[d] : f.dir = d
BY DirectoriesAssumption DEF Files

(* What is opened came from the locations behind the one being read. *)
InOrder ==
  \A f \in opened, d \in DOMAIN Directories : toLoad[d] # {} => f.dir <= d

(* The files ahead are entries of their locations. *)
AheadIsListed ==
  /\ DOMAIN toLoad = DOMAIN Directories
  /\ \A d \in DOMAIN Directories : toLoad[d] \subseteq Directories[d]

(* The table holds files that were opened, each under its hash. *)
Keyed ==
  \A h \in DOMAIN mBinaryFileContainer :
    /\ mBinaryFileContainer[h] \in opened
    /\ GetHashValue(mBinaryFileContainer[h].name) = h

Hides ==
  \A f \in opened :
    /\ GetHashValue(f.name) \in DOMAIN mBinaryFileContainer
    /\ mBinaryFileContainer[GetHashValue(f.name)].dir <= f.dir

IInv == opened \subseteq Files /\ AheadIsListed /\ InOrder /\ Keyed /\ Hides

LEMMA IsInit == TableInit => IInv
  BY DEF TableInit, IInv, AheadIsListed, InOrder, Keyed, Hides

(* A file that is read lies behind no file opened before. *)
LEMMA LoadInOrder ==
  ASSUME IInv, NEW d \in DOMAIN Directories, NEW f \in Files, Ahead(d, f)
  PROVE  f.dir = d /\ \A g \in opened : g.dir <= f.dir
<1>1. f \in Directories[d] /\ toLoad[d] # {}
  BY DEF IInv, AheadIsListed, Ahead
<1>2. f.dir = d
  BY <1>1, FilesHaveLocations
<1> QED BY <1>1, <1>2 DEF IInv, InOrder

(* Taking an entry off keeps the rest listed. *)
LEMMA PassedKeeps ==
  ASSUME IInv, NEW d \in DOMAIN Directories, NEW f \in Files, Passed(d, f)
  PROVE  /\ AheadIsListed'
         /\ \A e \in DOMAIN Directories : toLoad'[e] # {} => toLoad[e] # {}
  BY DEF IInv, AheadIsListed, Passed

LEMMA IsInductive == IInv /\ [Load]_tableVars => IInv'
<1> SUFFICES ASSUME IInv, [Load]_tableVars PROVE IInv'
  OBVIOUS
<1>1. ASSUME NEW d \in DOMAIN Directories, NEW f \in Files, LoadFile(d, f)
      PROVE  IInv'
  <2> DEFINE key == GetHashValue(f.name)
  <2>1. Ahead(d, f) /\ Passed(d, f) /\ opened' = opened \union {f}
        /\ mBinaryFileContainer' = Insert(mBinaryFileContainer, key, f)
    BY <1>1 DEF LoadFile
  <2>2. f.dir = d /\ \A g \in opened : g.dir <= f.dir
    BY <2>1, LoadInOrder
  <2>3. /\ DOMAIN mBinaryFileContainer' = DOMAIN mBinaryFileContainer \union {key}
        /\ \A h \in DOMAIN mBinaryFileContainer :
             mBinaryFileContainer'[h] = mBinaryFileContainer[h]
        /\ key \notin DOMAIN mBinaryFileContainer => mBinaryFileContainer'[key] = f
    BY <2>1 DEF Insert
  <2> HIDE DEF key
  <2>4. f.dir \in Nat
    BY FilesHaveLocations
  <2>5. opened' \subseteq Files
    BY <2>1 DEF IInv
  <2>6. AheadIsListed'
    BY <2>1, PassedKeeps
  <2>7. InOrder'
    <3> SUFFICES ASSUME NEW g \in opened', NEW e \in DOMAIN Directories,
                        toLoad'[e] # {}
                 PROVE  g.dir <= e
      BY DEF InOrder
    <3>1. toLoad[e] # {}
      BY <2>1, PassedKeeps
    <3>2. CASE g \in opened
      BY <3>1, <3>2 DEF IInv, InOrder
    <3>3. CASE g = f
      <4>1. ~(e < d)
        <5>1. ASSUME e < d PROVE FALSE
          <6>1. e \in 1 .. d - 1
            BY <5>1, DirectoriesAssumption
          <6> QED BY <6>1, <3>1, <2>1 DEF Ahead
        <5> QED BY <5>1
      <4>2. e \in Nat /\ d \in Nat
        BY FilesHaveLocations
      <4> QED BY <3>3, <4>1, <4>2, <2>2
    <3> QED BY <3>2, <3>3, <2>1
  <2>8. Keyed'
    <3> SUFFICES ASSUME NEW h \in DOMAIN mBinaryFileContainer'
                 PROVE  /\ mBinaryFileContainer'[h] \in opened'
                        /\ GetHashValue(mBinaryFileContainer'[h].name) = h
      BY DEF Keyed
    <3>1. CASE h \in DOMAIN mBinaryFileContainer
      BY <3>1, <2>1, <2>3 DEF IInv, Keyed
    <3>2. CASE h \notin DOMAIN mBinaryFileContainer
      BY <3>2, <2>1, <2>3 DEF key
    <3> QED BY <3>1, <3>2
  <2>9. Hides'
    <3> SUFFICES ASSUME NEW g \in opened'
                 PROVE  /\ GetHashValue(g.name) \in DOMAIN mBinaryFileContainer'
                        /\ mBinaryFileContainer'[GetHashValue(g.name)].dir <= g.dir
      BY DEF Hides
    <3>1. CASE g \in opened
      BY <3>1, <2>3 DEF IInv, Hides
    <3>2. CASE g = f /\ key \in DOMAIN mBinaryFileContainer
      <4>1. mBinaryFileContainer[key] \in opened
        BY <3>2 DEF IInv, Keyed
      <4> QED BY <3>2, <4>1, <2>2, <2>3 DEF key
    <3>3. CASE g = f /\ key \notin DOMAIN mBinaryFileContainer
      BY <3>3, <2>3, <2>4 DEF key
    <3> QED BY <3>1, <3>2, <3>3, <2>1
  <2> QED BY <2>5, <2>6, <2>7, <2>8, <2>9 DEF IInv
<1>2. ASSUME NEW d \in DOMAIN Directories, NEW f \in Files, OpenFails(d, f)
      PROVE  IInv'
  <2>1. Passed(d, f) /\ UNCHANGED <<mBinaryFileContainer, opened>>
    BY <1>2 DEF OpenFails
  <2>2. AheadIsListed'
        /\ \A e \in DOMAIN Directories : toLoad'[e] # {} => toLoad[e] # {}
    BY <2>1, PassedKeeps
  <2> QED BY <2>1, <2>2 DEF IInv, InOrder, Keyed, Hides
<1>3. ASSUME UNCHANGED tableVars PROVE IInv'
  BY <1>3 DEF tableVars, IInv, AheadIsListed, InOrder, Keyed, Hides
<1> QED BY <1>1, <1>2, <1>3 DEF Load

LEMMA Invariant == TableSpec => []IInv
BY IsInit, IsInductive, PTL DEF TableSpec

(* A file that was read is found under its name, or hidden by one with the *)
(* same hash from no later location, whatever the order of the entries.    *)
THEOREM FirstIsFound == TableSpec => []FirstLocationWins
<1>1. IInv => FirstLocationWins
  BY DEF IInv, Keyed, Hides, FirstLocationWins, GetFile
<1> QED BY <1>1, Invariant, PTL

NoCollision ==
  \A f, g \in Files : GetHashValue(f.name) = GetHashValue(g.name) => f.name = g.name

(* As long as no two names in the four directories share a hash, the names *)
(* are the keys of the table, as the header says.                          *)
THEOREM KeyedByName ==
  ASSUME NoCollision
  PROVE  TableSpec => []NameIsKey
<1>1. IInv => NameIsKey
  BY DEF IInv, Keyed, NameIsKey, GetFile, NoCollision
<1> QED BY <1>1, Invariant, PTL

-----------------------------------------------------------------------------
(* The generator reads the table and never changes it. *)
LEMMA GeneratorLoads ==
  /\ Init => TableInit
  /\ [Next]_generatorVars => [Load]_tableVars
<1>1. Init => TableInit
  BY DEF Init
<1>2. ASSUME [Next]_generatorVars PROVE [Load]_tableVars
  BY <1>2
  DEF Next, LoadStep, InsertServices, Generate, generatorVars, tableVars
<1> QED BY <1>1, <1>2

(* The table that requests are answered from is the one that was loaded:   *)
(* what FileTable promises holds of the whole generator.                   *)
THEOREM ImplementsTable == Spec => TableSpec
BY GeneratorLoads, PTL DEF Spec, TableSpec

(* Requests are answered with the file of that name that was read first,   *)
(* or with one that hides it, for as long as the server runs.              *)
THEOREM FirstIsServed == Spec => []FirstLocationWins
BY ImplementsTable, FirstIsFound, PTL

(* Only what the directories hold is found, and a file is no null pointer. *)
LEMMA FoundIsFile ==
  ASSUME IInv, NEW name, GetFile(name) # Null
  PROVE  GetFile(name) \in Files /\ GetFile(name).size \in Nat
<1>1. GetFile(name) \in Files
  BY DEF IInv, Keyed, GetFile
<1> QED BY <1>1, GeneratorAssumption

Names == {<<>>, ServiceNames["GetArticle"], ServiceNames["GetArticleList"]}

Types ==
  /\ at \in {"loading", "idle", "generated", "null", "crashed"}
  /\ DOMAIN mServices \subseteq {GetHashValue(n) : n \in Names}
  /\ request.page \in Pages
  /\ response \in Nat \union {Null}
  /\ index \in Nat /\ inBuffer \in 0 .. 1 /\ returned \in Nat

(* No request comes before the table and the services are complete. *)
Unasked == at = "loading" => request = NoRequest

GInv ==
  /\ IInv /\ Types /\ Unasked
  /\ UnsetOnlyIfMissing /\ BufferReaches /\ NullOnlyIfUnread

LEMMA GInit == Init => GInv
<1> SUFFICES ASSUME Init PROVE GInv
  OBVIOUS
<1>1. IInv
  BY GeneratorLoads, IsInit
<1> QED
  BY <1>1
  DEF Init, GInv, Types, Unasked, NoRequest, Pages, UnsetOnlyIfMissing, BufferReaches,
      NullOnlyIfUnread

(* A name that finds nothing is of no file that was read. *)
LEMMA NullIsUnread ==
  ASSUME IInv, NEW name, GetFile(name) = Null
  PROVE  \A f \in opened : f.name # name
<1> SUFFICES ASSUME NEW f \in opened, f.name = name PROVE FALSE
  OBVIOUS
<1>1. GetFile(name) \in Files
  BY DEF IInv, Hides, Keyed, GetFile
<1> QED BY <1>1, GeneratorAssumption

LEMMA LoadingKeeps ==
  ASSUME GInv, LoadStep \/ InsertServices
  PROVE  Types' /\ at' # "generated" /\ NullOnlyIfUnread'
<1>1. CASE LoadStep
  BY <1>1 DEF LoadStep, GInv, Types, NullOnlyIfUnread
<1>2. CASE InsertServices
  <2>1. /\ at = "loading" /\ at' \in {"null", "idle"}
        /\ at' = "null" => GetFile(IndexPage) = Null
        /\ UNCHANGED <<opened, request, response, index, inBuffer, returned>>
    BY <1>2 DEF InsertServices, tableVars
  <2>2. DOMAIN mServices' \subseteq {GetHashValue(n) : n \in Names}
    BY <1>2 DEF InsertServices, Insert, GInv, Types, Names, IndexServiceName
  <2>3. Types'
    BY <2>1, <2>2 DEF GInv, Types
  <2>4. request' = NoRequest
    BY <2>1 DEF GInv, Unasked
  <2>5. NullOnlyIfUnread'
    BY <2>1, <2>4, NullIsUnread DEF GInv, NullOnlyIfUnread
  <2> QED BY <2>1, <2>3, <2>5
<1> QED BY <1>1, <1>2

(* The answers: what *response is set to, what is written and returned.    *)
Answered(dest) ==
  /\ at' \in {"generated", "null", "crashed"}
  /\ response' \in Nat \union {Null}
  /\ index' \in Nat /\ inBuffer' \in 0 .. 1 /\ returned' \in Nat
  /\ at' = "generated" =>
       response' = Null <=> ~isServiceRequest(dest) /\ GetFile(dest) = Null
  /\ at' = "generated" /\ response' # Null =>
       /\ \/ inBuffer' <= response'
          \/ ~isServiceRequest(dest) /\ GetFile(dest).size = 0
       /\ \/ returned' <= response'
          \/ /\ isServiceRequest(dest) /\ GetFile(NotFoundPage) # Null
             /\ GetFile(NotFoundPage).size > SERVICE_OUTPUT_SIZE - 113
  /\ at' = "null" =>
       isServiceRequest(dest) /\ \A f \in opened : f.name # NotFoundPage

LEMMA InBufferType ==
  ASSUME NEW n \in Nat
  PROVE  InBuffer(n) \in 0 .. 1
BY DEF InBuffer

LEMMA FileAnswered ==
  ASSUME GInv, NEW dest \in Dests, ~isServiceRequest(dest),
         createFileRequestResponse(dest)
  PROVE  Answered(dest)
<1>1. returned \in Nat
  BY DEF GInv, Types
<1>2. CASE GetFile(dest) = Null
  BY <1>1, <1>2 DEF createFileRequestResponse, MissingFile, Answered
<1>3. CASE GetFile(dest) # Null
  <2>1. GetFile(dest).size \in Nat
    BY <1>3, FoundIsFile DEF GInv
  <2>2. PICK n : n = ResponseSize(HTTP_200_SIZE, ContentTypeSize(dest), GetFile(dest).size)
    OBVIOUS
  <2>3. /\ response' = 2 * GetFile(dest).size
        /\ index' = n /\ inBuffer' = InBuffer(n)
        /\ \/ at' = "generated" /\ returned' = 0
           \/ at' = "crashed" /\ returned' = returned
    BY <1>3, <2>2
    DEF createFileRequestResponse, FileResponse, Written, SizeOfFileResponse
  <2>4. n \in Nat
    BY <2>1, <2>2, GeneratorAssumption
    DEF ResponseSize, HTTP_200_SIZE, FieldsSize
  <2>5. /\ response' \in Nat /\ response' # Null
        /\ GetFile(dest).size = 0 \/ response' >= 1
    BY <2>1, <2>3, GeneratorAssumption
  <2>6. inBuffer' \in 0 .. 1
    BY <2>3, <2>4, InBufferType
  <2>7. /\ returned' \in Nat /\ at' \in {"generated", "crashed"} /\ index' \in Nat
        /\ at' = "generated" => returned' <= response'
    BY <1>1, <2>3, <2>4, <2>5
  <2>8. GetFile(dest).size = 0 \/ inBuffer' <= response'
    BY <2>5, <2>6
  <2> QED BY <1>3, <2>5, <2>6, <2>7, <2>8 DEF Answered
<1> QED BY <1>2, <1>3

LEMMA NotFoundAnswered ==
  ASSUME GInv, NEW dest \in Dests, isServiceRequest(dest), createNotFoundResponse
  PROVE  Answered(dest)
<1>1. returned \in Nat /\ index \in Nat /\ inBuffer \in 0 .. 1
  BY DEF GInv, Types
<1>2. /\ SERVICE_OUTPUT_SIZE \in Nat /\ SERVICE_OUTPUT_SIZE # Null
      /\ SERVICE_OUTPUT_SIZE >= 1
  BY GeneratorAssumption
<1>3. CASE GetFile(NotFoundPage) = Null
  <2>1. \A f \in opened : f.name # NotFoundPage
    BY <1>3, NullIsUnread DEF GInv
  <2> QED BY <1>1, <1>2, <1>3, <2>1 DEF createNotFoundResponse, NullFile, Answered
<1>4. CASE GetFile(NotFoundPage) # Null
  <2>1. GetFile(NotFoundPage).size \in Nat
    BY <1>4, FoundIsFile DEF GInv
  <2>2. PICK n : n = ResponseSize(HTTP_404_SIZE, TextHtmlSize, GetFile(NotFoundPage).size)
    OBVIOUS
  <2>3. /\ response' = SERVICE_OUTPUT_SIZE
        /\ index' = n /\ inBuffer' = InBuffer(n)
        /\ \/ at' = "generated" /\ returned' = n
           \/ at' = "crashed" /\ returned' = returned
    BY <1>4, <2>2 DEF createNotFoundResponse, Written
  <2>4. n \in Nat /\ n = GetFile(NotFoundPage).size + 113
    BY <2>1, <2>2 DEF ResponseSize, HTTP_404_SIZE, TextHtmlSize, FieldsSize
  <2>5. n <= SERVICE_OUTPUT_SIZE
        \/ GetFile(NotFoundPage).size > SERVICE_OUTPUT_SIZE - 113
    BY <1>2, <2>1, <2>4
  <2>6. inBuffer' \in 0 .. 1
    BY <2>3, <2>4, InBufferType
  <2>7. /\ returned' \in Nat /\ (at' = "generated" => returned' = n)
        /\ at' \in {"generated", "crashed"} /\ index' \in Nat
        /\ inBuffer' <= response'
    BY <1>1, <1>2, <2>3, <2>4, <2>6
  <2> QED BY <1>2, <1>4, <2>3, <2>5, <2>6, <2>7 DEF Answered
<1> QED BY <1>3, <1>4

LEMMA ServiceAnswered ==
  ASSUME GInv, NEW dest \in Dests, NEW pg \in Pages, isServiceRequest(dest),
         createServiceResponse(dest, pg)
  PROVE  Answered(dest)
<1>1. returned \in Nat
  BY DEF GInv, Types
<1>2. SERVICE_OUTPUT_SIZE \in Nat /\ SERVICE_OUTPUT_SIZE >= 128
      /\ SERVICE_OUTPUT_SIZE # Null /\ ContentTypeSize(dest) \in 0 .. 16
  BY GeneratorAssumption
<1>3. PICK body : body = IF GetHashValue(dest) \in DOMAIN mServices
                         THEN RunService(mServices[GetHashValue(dest)], pg) ELSE Null
  OBVIOUS
<1>4. CASE body = Null
  BY <1>3, <1>4, NotFoundAnswered DEF createServiceResponse
<1>5. CASE body # Null
  <2>1. body \in {1, 4}
    BY <1>3, <1>5 DEF RunService
  <2>2. PICK n : n = ResponseSize(HTTP_200_SIZE, ContentTypeSize(dest), body)
    OBVIOUS
  <2>3. /\ response' = SERVICE_OUTPUT_SIZE
        /\ index' = n /\ inBuffer' = InBuffer(n)
        /\ \/ at' = "generated" /\ returned' = n
           \/ at' = "crashed" /\ returned' = returned
    BY <1>3, <1>5, <2>2 DEF createServiceResponse, Written
  <2>4. n \in Nat /\ n <= SERVICE_OUTPUT_SIZE
    BY <1>2, <2>1, <2>2 DEF ResponseSize, HTTP_200_SIZE, FieldsSize
  <2>5. inBuffer' \in 0 .. 1
    BY <2>3, <2>4, InBufferType
  <2>6. /\ returned' \in Nat /\ (at' = "generated" => returned' = n)
        /\ at' \in {"generated", "crashed"} /\ index' \in Nat
        /\ inBuffer' <= response'
    BY <1>1, <1>2, <2>3, <2>4, <2>5
  <2> QED BY <1>2, <2>3, <2>4, <2>5, <2>6 DEF Answered
<1> QED BY <1>4, <1>5

LEMMA GInductive == GInv /\ [Next]_generatorVars => GInv'
<1> SUFFICES ASSUME GInv, [Next]_generatorVars PROVE GInv'
  OBVIOUS
<1>1. IInv'
  BY GeneratorLoads, IsInductive DEF GInv
<1>2. CASE LoadStep \/ InsertServices
  <2>1. Types' /\ at' # "generated" /\ NullOnlyIfUnread'
    BY <1>2, LoadingKeeps
  <2>2. Unasked'
    BY <1>2 DEF LoadStep, InsertServices, GInv, Unasked
  <2> QED BY <1>1, <2>1, <2>2 DEF GInv, UnsetOnlyIfMissing, BufferReaches
<1>3. ASSUME NEW dest \in Dests, NEW pg \in Pages, Generate(dest, pg)
      PROVE  GInv'
  <2>1. /\ request' = [dest |-> dest, page |-> pg]
        /\ at # "loading" /\ UNCHANGED <<mBinaryFileContainer, opened, mServices>>
    BY <1>3 DEF Generate, tableVars
  <2>2. Answered(dest)
    BY <1>3, FileAnswered, ServiceAnswered DEF Generate
  <2>3. request'.dest = dest /\ request'.page = pg
    BY <2>1
  <2>4. \A name : GetFile(name)' = GetFile(name)
    BY <2>1 DEF GetFile
  <2>5. Types'
    BY <1>3, <2>1, <2>2, <2>3 DEF GInv, Types, Answered
  <2>6. UnsetOnlyIfMissing'
    BY <2>2, <2>3, <2>4 DEF UnsetOnlyIfMissing, Answered
  <2>7. BufferReaches'
    BY <2>2, <2>3, <2>4 DEF BufferReaches, Answered
  <2>8. request' # NoRequest
    BY <2>3, GeneratorAssumption DEF NoRequest
  <2>9. NullOnlyIfUnread'
    BY <2>1, <2>2, <2>3, <2>8 DEF NullOnlyIfUnread, Answered
  <2>10. Unasked'
    BY <2>2 DEF Answered, Unasked
  <2> QED BY <1>1, <2>5, <2>6, <2>7, <2>9, <2>10 DEF GInv
<1>4. CASE UNCHANGED generatorVars
  BY <1>1, <1>4
  DEF generatorVars, tableVars, GInv, Types, Unasked, UnsetOnlyIfMissing,
      BufferReaches, NullOnlyIfUnread, GetFile
<1> QED BY <1>2, <1>3, <1>4 DEF Next

LEMMA GInvariant == Spec => []GInv
BY GInit, GInductive, PTL DEF Spec

(* The variables have their types: the keys of the services are hashes of  *)
(* their names, and what is returned is a length, not a negative number.   *)
THEOREM TypeCorrect == Spec => []TypeOK
<1>1. GInv => TypeOK
  BY DEF GInv, Types, Names, TypeOK
<1> QED BY <1>1, GInvariant, PTL

(* The pointer that the worker deletes is unset only after a request for a *)
(* file that is not there, whatever the directories and services are.      *)
THEOREM UnsetIsMissing == Spec => []UnsetOnlyIfMissing
<1>1. GInv => UnsetOnlyIfMissing
  BY DEF GInv
<1> QED BY <1>1, GInvariant, PTL

(* Neither the one byte that is written to the buffer nor what the worker  *)
(* is told to send from it lies past its end, for any files and sizes, but *)
(* for an empty file and a page for 404 that is too large.                 *)
THEOREM BufferAlwaysReaches == Spec => []BufferReaches
<1>1. GInv => BufferReaches
  BY DEF GInv
<1> QED BY <1>1, GInvariant, PTL

(* Once the index page and the page for 404 have been read, no null file   *)
(* is ever dereferenced, whatever collides with their names.               *)
THEOREM NullIsNeverRead == Spec => []NullOnlyIfUnread
<1>1. GInv => NullOnlyIfUnread
  BY DEF GInv
<1> QED BY <1>1, GInvariant, PTL
=============================================================================
