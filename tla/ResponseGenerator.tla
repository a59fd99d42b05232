--------------------------- MODULE ResponseGenerator ---------------------------
(***************************************************************************)
(* HttpResponseGenerator and the services behind it: from the HttpObject   *)
(* of a request to a buffer and the size that the worker is told to send.  *)
(* Only sizes are kept of what is written.                                 *)
(*                                                                         *)
(* http::Memcpy and http::WriteLength write through response[index], the   *)
(* pointer that lies index places after the caller's own: only index 0     *)
(* is the buffer, so of a response the first byte reaches it and the rest  *)
(* of what is sent is what the heap held.  What every other write hits     *)
(* depends on the stack of the worker: it may do no harm or end the        *)
(* process.                                                                *)
(***************************************************************************)
EXTENDS FileTable

CONSTANTS
  Dests,             \* what the parser may find as the destination
  ContentTypeSize(_),      \* characters of the content type of a destination
  IndexPage, NotFoundPage, \* names of files
  ServiceNames,      \* services.json: kind of service -> name
  SERVICE_OUTPUT_SIZE

(* "application/json" is the longest content type; the size is 1024.       *)
ASSUME GeneratorAssumption ==
  /\ Null \notin Nat \union Files \union Dests
  /\ \A f \in Files : f.size \in Nat
  /\ \A dest \in Dests : ContentTypeSize(dest) \in 0 .. 16
  /\ SERVICE_OUTPUT_SIZE \in Nat /\ SERVICE_OUTPUT_SIZE >= 128

VARIABLES
  at,             \* "loading", "idle", "generated"; how the process ended:
                  \* "null" file dereferenced, or "crashed" by a stray write
  mServices,      \* hash -> kind of service
  request,        \* [dest, page]: what Generate was called with
  response,       \* what *response points to: Null (unset), or a buffer's size
  index,          \* of writeHeaderToResponse in the end: the bytes meant for it
  inBuffer,       \* the bytes that were written to it
  returned        \* what Generate returned

generatorVars == <<tableVars, at, mServices, request, response, index, inBuffer,
                   returned>>

DOT == 46

(* The value of the header that a service looks for: none, not a number, a *)
(* page of articles that is empty or not.                                  *)
Pages == {"none", "no number", "empty", "articles"}

NoRequest == [dest |-> Null, page |-> "none"]

Init ==
  /\ TableInit
  /\ at = "loading"
  /\ mServices = [h \in {} |-> Null]
  /\ request = NoRequest
  /\ response = Null /\ index = 0 /\ inBuffer = 0 /\ returned = 0

LoadStep ==
  /\ at = "loading" /\ Load
  /\ UNCHANGED <<at, mServices, request, response, index, inBuffer, returned>>

(* Mutant: the name of the page for the name of its service. *)
IndexPageName == IndexPage

IndexServiceName == <<>>

(* The index page is dereferenced to build its service.                    *)
InsertServices ==
  /\ at = "loading" /\ Loaded
  /\ IF GetFile(IndexPage) = Null
       THEN at' = "null" /\ UNCHANGED mServices
       ELSE /\ at' = "idle"
            /\ mServices' =
                 Insert(Insert(Insert(mServices, GetHashValue(IndexServiceName), "IndexPage"),
                   GetHashValue(ServiceNames["GetArticle"]), "GetArticle"),
                   GetHashValue(ServiceNames["GetArticleList"]), "GetArticleList")
  /\ UNCHANGED <<tableVars, request, response, index, inBuffer, returned>>

(* writeHeaderToResponse: what index is in the end.  The digits of the     *)
(* length are overwritten by what follows, for WriteLength leaves index.   *)
FieldsSize == 16 + 2 + 16 + 24 + 14 + 4

ResponseSize(messageLength, typeSize, bodySize) ==
  messageLength + FieldsSize + typeSize + bodySize + 4

HTTP_200_SIZE == 17
HTTP_404_SIZE == 24
TextHtmlSize == 9

(* Of n writes in order, those that hit the buffer.                        *)
InBuffer(n) == IF n = 0 THEN 0 ELSE 1

(* A response of n bytes: the process may end at any write but the first.  *)
Written(buffer, n, result) ==
  /\ response' = buffer /\ index' = n /\ inBuffer' = InBuffer(n)
  /\ \/ at' = "generated" /\ returned' = result
     \/ at' = "crashed" /\ UNCHANGED returned

(* Mutant: index is the response's size, as the comment says. *)
SizeAsCommented(file, size) == size

(* The size that writeHeaderToResponse returns is dropped; index is 0.     *)
SizeOfFileResponse(file, size) == 0

(* Mutant: a missing file is answered like a missing service. *)
MissingFileAllocates ==
  /\ at' = "generated" /\ response' = SERVICE_OUTPUT_SIZE
  /\ index' = 0 /\ inBuffer' = 0 /\ returned' = 0

MissingFile ==
  /\ at' = "generated" /\ response' = Null
  /\ index' = 0 /\ inBuffer' = 0 /\ returned' = 0

NullFile(buffer) ==
  /\ at' = "null" /\ response' = buffer
  /\ UNCHANGED <<index, inBuffer, returned>>

FileResponse(dest) ==
  LET file == GetFile(dest)
      size == ResponseSize(HTTP_200_SIZE, ContentTypeSize(dest), file.size)
  IN Written(2 * file.size, size, SizeOfFileResponse(file, size))

(* Mutant: the file is used without a test. *)
createFileRequestUntested(dest) ==
  IF GetFile(dest) = Null THEN NullFile(Null) ELSE FileResponse(dest)

createFileRequestResponse(dest) ==
  IF GetFile(dest) = Null THEN MissingFile ELSE FileResponse(dest)

createNotFoundResponse ==
  LET page == GetFile(NotFoundPage)
      size == ResponseSize(HTTP_404_SIZE, TextHtmlSize, page.size)
  IN IF page = Null
     THEN NullFile(SERVICE_OUTPUT_SIZE)
     ELSE Written(SERVICE_OUTPUT_SIZE, size, size)

(* Service::Run(httpObject, string), or Null where it returns false: the   *)
(* index page and the single article are written for the other Run; of the *)
(* list its first word comes back, "[" or "null".                          *)
RunService(kind, page) ==
  IF kind # "GetArticleList" \/ page \in {"none", "no number"} THEN Null
  ELSE IF page = "empty" THEN 4 ELSE 1

createServiceResponse(dest, page) ==
  LET h    == GetHashValue(dest)
      body == IF h \in DOMAIN mServices THEN RunService(mServices[h], page) ELSE Null
      size == ResponseSize(HTTP_200_SIZE, ContentTypeSize(dest), body)
  IN IF body = Null THEN createNotFoundResponse
     ELSE Written(SERVICE_OUTPUT_SIZE, size, size)

isServiceRequest(dest) == \A n \in DOMAIN dest : dest[n] # DOT

(* The pointer is a fresh local variable of the worker for every request.  *)
Generate(dest, page) ==
  /\ at \in {"idle", "generated"}
  /\ request' = [dest |-> dest, page |-> page]
  /\ IF isServiceRequest(dest)
       THEN createServiceResponse(dest, page)
       ELSE createFileRequestResponse(dest)
  /\ UNCHANGED <<tableVars, mServices>>

Next ==
  \/ LoadStep \/ InsertServices
  \/ \E dest \in Dests, page \in Pages : Generate(dest, page)

Spec == Init /\ [][Next]_generatorVars

-----------------------------------------------------------------------------
TypeOK ==
  /\ at \in {"loading", "idle", "generated", "null", "crashed"}
  /\ DOMAIN mServices \subseteq
       {GetHashValue(n) : n \in {<<>>, ServiceNames["GetArticle"],
                                 ServiceNames["GetArticleList"]}}
  /\ request.page \in Pages
  /\ response = Null \/ response \in Nat
  /\ index \in Nat /\ inBuffer \in 0 .. 1 /\ returned \in Nat

(* The worker deletes a pointer that was never set only after a request    *)
(* for a file that is not there, and it then sends nothing.                *)
UnsetOnlyIfMissing ==
  at = "generated" =>
    (response = Null <=>
       ~isServiceRequest(request.dest) /\ GetFile(request.dest) = Null)

(* What is written to the buffer lies inside it, but for the first byte of *)
(* the answer with an empty file; and what the worker is told to send of   *)
(* it does, but for a page for 404 that is too large.                      *)
BufferReaches ==
  at = "generated" /\ response # Null =>
    /\ \/ inBuffer <= response
       \/ ~isServiceRequest(request.dest) /\ GetFile(request.dest).size = 0
    /\ \/ returned <= response
       \/ /\ isServiceRequest(request.dest) /\ GetFile(NotFoundPage) # Null
          /\ GetFile(NotFoundPage).size > SERVICE_OUTPUT_SIZE - 113

(* A null file ends the process at its start only if the index page could  *)
(* not be read, and at a request only if it is one for a service and the   *)
(* page for 404 could not be read: never once both were, not even when     *)
(* another file hides them.                                                *)
NullOnlyIfUnread ==
  at = "null" =>
    IF request = NoRequest
    THEN \A f \in opened : f.name # IndexPage
    ELSE isServiceRequest(request.dest) /\ \A f \in opened : f.name # NotFoundPage

(* HttpResponseGenerator.cpp: "also indicates response's size" - of a file *)
(* that was found, what Generate returns.                                  *)
FileSizeReturned ==
  at = "generated" /\ ~isServiceRequest(request.dest)
    /\ GetFile(request.dest) # Null
  => returned = index

(* Service.h: "for file services (like index page)" - the index page is    *)
(* answered with the page.                                                 *)
IndexPageServed ==
  at = "generated" /\ request.dest = <<>> =>
    returned = ResponseSize(HTTP_200_SIZE, ContentTypeSize(<<>>),
                            GetFile(IndexPage).size)
=============================================================================
