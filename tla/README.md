# rapid-winsock-server in TLA+

A model of the server under `src/MainServer`: the event loop, the worker pool, the
life of client sessions and the shutdown of the HTTPS server, the redirect server,
and the path of a request through a worker, from the records that are read to the
response that is written. Checked with TLC on small instances and, in part, proved
with TLAPS for all of them.

## The system

One process, three kinds of threads.

| part | source | state | operations | talks to |
|---|---|---|---|---|
| event loop (main thread) | `HttpsServer.cpp`, `main.cpp` | `mClientSessions` and `mClientEventHandles`, `mbIsQuitButtonPressed`, local variables of `Run` | wait over the handles in chunks of 64, accept, handshake, queue READ and CLOSE works, on a timeout signal again and invalidate idle sessions; the destructor | Winsock events; the pool's queue and event; sessions by raw pointer |
| console thread | `HttpsServer::checkQuitMessage` | - | sets `mbIsQuitButtonPressed` | the main thread, unlocked |
| pool and queue | `ClientThreadPool.cpp`, `ThreadSafeQueue.h` | the queue, two events, `mThreadRunningCount`, the pool's lock | `Run` per worker, `QueueWork`, `Signal`, `cancelWorks`, the destructor | the main thread through the queue |
| work | `ClientWork.cpp` | session pointer, type, `misbProcessing` | `Run`: READ (receive, parse, respond) or CLOSE (delete the session) | the session under its own lock, for single updates only |
| session and timer | `ClientSession.h`, `SessionTimer.cpp` | `processingCount`, `bIsSSLConnected`, the timer, the SSL object | reset, check, delete | both kinds of threads |
| network layer | `network.cpp` | - | accept, open, redirect | Winsock |
| redirect server | `HttpServer.cpp` | one listening socket | accepts and answers 302 | nothing else |
| request parsing | `HttpHelper.cpp`, `HttpObject.cpp` | one request | `PrepareResponse` | work |
| response generation | `HttpResponseGenerator.cpp`, `http.cpp`, the services | tables of files and services | `Generate` | work, files, database |
| files, hash | `HttpFileContainer.cpp`, `Hash.cpp` | files by hash | `GetFile` | response generation |
| database | `SQLiteConnector.cpp`, `json.cpp` | prepared statements | `GetArticle`, `GetArticles` | services |

The picture in the repository's README shows several workers and the parsing in
the main thread; the code has `THREAD_COUNT = 1` and parses in the worker. The
code is what is modelled. The pool is written for more threads, so the number of
workers is a constant (one or two, the size of its event array).

What makes each part correct, and what is hard about it:

- **Event loop.** No session is lost or closed twice although the list is erased
  by index from three places. Hard: indices used after other calls, a switch on
  the whole event mask (`FD_READ | FD_CLOSE` matches no case), a last chunk of
  size zero when the handles are a multiple of 64, an erase inside an index loop.
- **Pool.** Every queued work runs, once, or is cancelled. Hard: auto-reset events
  that coalesce, `cancelWorks` rotating the queue while the main thread adds to
  it, a refused CLOSE going to the back of the queue.
- **Session.** Nobody uses it after it is deleted; its count of running READs is
  right. Hard: raw pointers in queued works, a count lowered for READs that never
  raised it.
- **Shutdown.** Every session is closed once, and `Run` returns. Hard: the wait for
  the workers looks at a counter that a worker raises after popping its work; the
  event that ends the workers is never created with one thread.
- **Reading and writing.** A request is read to its end and a response written to
  its end. Hard: OpenSSL holds data back that no event announces, the length of
  the last chunk is right only as long as no write was partial, lengths and status
  codes share one integer, and a full socket leaves a record behind.
- **Parsing.** The fields of the request are what the client wrote, wherever the
  record that carries it was cut. Hard: offsets that may be `npos`, a stream whose
  end is cleared inside the loop that waits for it, buffers that keep old text.
- **Responses.** What is sent lies in a buffer that was allocated for it, and no null
  file is used. Hard: each branch allocates, measures and returns in its own way, and
  of what is written only the first byte reaches the buffer.
- **Files and services.** A name finds its own file. Hard: a hash is the only key.
- **Database.** A page is right although an editor works on the same file; a
  statement is reset on every path. Hard: a reset of its own on every way out, and
  results that mean neither yes nor no.

## Modules

| module | models | state |
|---|---|---|
| `Winsock` | clients and network events as Winsock shows them (external, from how the code uses it) | `link`, `unread`, `recvArmed`, `netEvents`, `hungUp`, `sendsLeft` |
| `ClientSession` | `struct ClientSession`, `SessionTimer`, deletion | `processingCount`, `bIsSSLConnected`, `expired`, `closeNotified`, `sslFailed`, `released`, `process` |
| `ClientWork` | `ClientWork::Run` in a worker | `pc`, `work`, `errorCode` |
| `ClientThreadPool` | `ThreadSafeQueue`, the events, `ClientThreadPool::Run`, `cancelWorks` | `mClientWorks`, `signalled`, `closeSlot`, `closeSignalled`, `handlesOpen`, `mThreadRunningCount`, `remaining`, `held`, `seen` |
| `HttpsServer` | `HttpsServer::Run`, `~HttpsServer`, `~ClientThreadPool`, the console thread | `mClientSessions`, `mbIsQuitButtonPressed`, `main`, `overtaken` (history) |
| `WebServer` | all of them interleaved; fairness and the properties | - |
| `SessionLifecycle` | the abstract specification: what the server promises of a session | `phase`, `reads` |
| `MCWebServer` | symmetry and constraints for TLC | - |
| `WebServerProofs` | proofs: the invariant of the whole server, types, counters, rotation | - |
| `SessionProofs` | proofs: owners of a session, the refinement of `SessionLifecycle`, data and memory; EXTENDS `WebServerProofs` | - |
| `RedirectServer` | `HttpServer`, `ProcessRedirect`, and the listening socket as they use it | `pc`, `client`, `pending`, `armed`, `recorded` |
| `RedirectProofs` | the proofs about it | - |
| `RequestReceiver` | `ClientWork::receiveData`, and how `ProcessRequest` reads its result | `sent`, `peer`, `taken`, `pending`, `at`, `content`, `received`, `outcome` |
| `RequestParser` | `httpHelper::PrepareResponse`, `HttpObject` | the stream `is`, the buffers and offsets of the function, the fields of the object |
| `FileTable` | `HttpFileContainer`, `Hash` | `mBinaryFileContainer`, `toLoad`, `opened` (history) |
| `ResponseGenerator` | `HttpResponseGenerator`, `http::Memcpy`, the services; EXTENDS `FileTable` | `mServices`, `request`, `response`, `index`, `inBuffer`, `returned` |
| `ResponseWriter` | the loop of `ClientWork::writeHttpResponse`, over OpenSSL as the loop uses it | `responseSize`, `wroteSize`, `kept`, `stale` |
| `ArticlesDatabase` | `SQLiteConnector`, over SQLite as it uses it, and an editor of the file | `articles`, the statements (`bound`, `stepped`, `snapshot`), the call (`at`, `arg`, `turn`, `page`) |
| `MCRequestParser`, `MCResponseGenerator` | requests; directories and services for TLC | - |
| `RequestReceiverProofs`, `RequestParserProofs`, `ResponseGeneratorProofs` (with `FileTable`), `ResponseWriterProofs`, `ArticlesProofs` | proofs about each | - |

From `Winsock` to `WebServer` each module EXTENDS the one above it; the redirect
server shares no state with them and stands alone.

The modules of a request's path are what `ClientWork` abstracts: its `Receive` chooses
among the results that `RequestReceiver` and `RequestParser` derive from bytes, its
`Respond` among those of `ResponseGenerator` and `ResponseWriter`. With one worker they
run one after the other and share no state but what they hand on (a text, an
`HttpObject`, a buffer and its size), so each is a module of its own with every
value that it may be handed. How the model reads the code:

- **A step is what no other thread can see half of**: one call on the queue, one
  critical section, one event call, one recv, one update under the session's
  lock. Between a push and the `Signal` that follows it, between
  `IsProcessing` and the deletion, between a pop and `mThreadRunningCount += 1`,
  and at every turn of `cancelWorks`, other threads may run. Where `cancelWorks` lowers
  the count of a session without its lock, the read (`CancelReadCount`) and the write
  (`CancelDrop`) are two steps, so a second worker's update may be lost. `Requeue` and
  `Finish` join calls made under one holding of the pool's lock, or that no other
  thread can tell apart.
- **The main thread's local variables** are one record, `main`: where it is
  (`at`), the chunk, the index, the event mask, and where a signal returns to
  (`resume`: the sweep, or the scan of `invalidateSession`).
  Index 0 of the code is index 1 of the model: the dummy session of the listening
  socket (`Listener`).
- **Deleted sessions** stay known in `released`. A step that would read or write
  one is `UseReleased` or `CancelUseReleased`, and ends the behaviour
  (`process = "crashed"`): what C++ does then is undefined, and no more is said.
  `cancelWorks` compares the session IDs through both works' sessions, and reads
  only the type of a CLOSE.
- **Uninitialised memory.** With one thread, `mEventHandles[THREAD_CLOSE]` holds
  what `new HANDLE[2]` left there: `closeSlot` is chosen among an invalid handle,
  the handle of some event, and one that is never signalled.
- **Data races.** `mbIsQuitButtonPressed`, `mThreadRunningCount` (in the
  destructor) and the queue's `size()` are read without a lock; they are aligned
  words, and each read is a step that sees the current value. The functions that
  read them are in other translation units than their loops, and the project sets
  no whole-program optimisation, so the reads are repeated.
- **Contents.** A burst of data is a unit of `unread`; what it holds is chosen when
  it is read: a good request, a rejected one, a bad record, `close_notify`, or a
  request whose length equals `HTTPS_CLIENT_ZERO_RETURN`. A response ends with
  success, an error, `ZERO_RETURN`, a crash (a stray write of `http::Memcpy`) or
  never (a chunk length of zero).
- **An SSL object that has failed** (`sslFailed`: a bad record, or a write that OpenSSL
  refuses) answers every later `SSL_read_ex` with an error and never comes to its recv.
  `ClientWork.cpp:247` returns a status that is taken for a length: the session stays
  listed, its data stays in the socket, and FD_READ is not armed again.
- **`http::Memcpy`** writes through `*response[index]`, the pointer that lies `index`
  places behind the caller's own. Of a response only the first byte reaches the buffer
  (`InBuffer`); what is sent behind it is what the heap held. Every other write may do no
  harm or end the process, by what the stack holds.
- **Sizes instead of bytes** in `ResponseGenerator` and `ResponseWriter`; in
  `RequestReceiver` a byte is its record and its place there. `RequestParser` keeps
  every character that the code looks for (space, slash, dot, question mark, equals
  sign, ampersand, colon, line end), other characters are letters, and a method, a
  version or an extension is one token.
- **Libraries** are modelled as they are used, and marked external: OpenSSL in the
  two loops (no read-ahead; partial writes on; the same address for a retry is
  demanded and its length may not shrink), `std::getline` and `ignore` with their
  bits in `RequestParser`, SQLite in `ArticlesDatabase` (a snapshot from the first row
  to the reset, `SQLITE_BUSY` only before it, no bind until the reset); a bind, a step and
  the reset of each way out of `GetArticle` and `GetArticles` are actions of their own.
- **Release build.** `assert` is compiled out (`NDEBUG`); two assertions are checked
  as properties instead.
- **Mutants.** The definitions marked as such change one action the way a slip in
  the code would, and show that the property they are for can fail.

## Properties and runs

The properties of the HTTPS server are in `WebServer.tla`, the others in the module
they are about, each with the code it speaks of.

| run | instance | checks | distinct states |
|---|---|---|---|
| `service` | 2 sessions, 1 worker, 3 bursts (the third only while no session is idle too long), chunks of 2, nobody quits | `TypeOK`, `IndicesInside`, `OneOwner`, `NotLost`, `UnreadAnnounced`, `NoUseAfterFree` | 1 106 000 |
| `lifecycle` | 2 sessions and 1 burst, or 1 session and 2 bursts; 1 worker, q at any moment, every content of the close slot | `LifecycleSpec`, `OneOwner`, `NoUseAfterFree` | 553 000 |
| `two_workers` | 1 session, 2 workers, 2 bursts, q at any moment | `OneOwner`, `BusyIsReal`, `RotationSafe` | 68 800 |
| `liveness` | 2 sessions, 1 worker, 1 burst, chunks of 3, fair | `ClosedAreReleased`, `GoneAreUnlisted` | 92 600 |
| `redirect` | 3 clients that come back, a backlog of 2, fair | `TypeOK`, `NoClientForgotten`, `EveryClientServed` | 912 |
| `receive` | a buffer of 3, 2 records of up to 7 bytes | `TypeOK`, `NothingLeftBehind`, `OneRecord`, `ZeroReturnIsReal` | 2 064 |
| `parse` | 1 008 requests, cut off after every token | `TypeOK`, `TargetAsSent`, `HeadersAsSent`, `OneHeaderCut`, `TurnsAdvance` | 197 000 |
| `generate` | 7 files in 3 directories, 3 services, 10 destinations, names that collide | `TypeOK`, `FirstLocationWins`, `UnsetOnlyIfMissing`, `BufferReaches`, `NullOnlyIfUnread` | 11 000 |
| `response` | chunks of 4, records of 1, 2 or 4, 2 responses of up to 13 bytes | `TypeOK`, `WritesInside`, `OkIsDelivered`, `EndsUnlessMultiple` | 2 381 |
| `articles` | 4 indices, 3 rows, pages of 2, words of 16 values | `TypeOK`, `BindsSucceed`, `PageIsRight`, `ThrowsOnlyIf` | 1 418 000 |
| `violation_quit` | 1 session, 1 worker, 1 burst, fair | `QuitReturns` fails | - |
| `violation_size` | as `generate` | `FileSizeReturned` fails | - |

- **`IndicesInside`**: the index that the main thread took from a chunk of the wait, or
  has come to in the scan or the destructor, is one of its list at every later step
  that uses it; what it closes or erases there is not the listening socket.
- **`OneOwner`, `NotLost`**: an open session is on the main thread's list or in
  exactly one CLOSE work; a deleted one in neither. So it is deleted once.
- **`LifecycleSpec`**: the server implements `SessionLifecycle` under the mapping
  `Phase` (unborn, listed, closing, released) and the number of a session's READs
  that are queued, taken or held. `cancelWorks`, a rotation of the queue, is
  invisible there but for the READs it drops.
- **`UnreadAnnounced`**: data that has arrived is announced by a recorded event, a
  dispatch under way, or a READ that will receive it. The exceptions are part of
  the statement: the peer has hung up (the lost `FD_READ | FD_CLOSE`), has sent
  `close_notify`, the SSL object has failed, or a READ was cancelled.
- **`NoUseAfterFree`**: with one worker, a worker comes to a deleted session in two
  ways only: the CLOSE was queued during a rotation and overtook READs, or the
  destructor closed the session while a READ of it was queued, or taken and not yet
  counted. Both really happen; the property says there is no third, and that a READ
  which is being run when q is pressed is waited for. (With two workers there are more:
  the check of `processingCount` and the deletion are not atomic, and a READ that
  was popped is not counted yet. `THREAD_COUNT = 1` hides this.)
- **`BusyIsReal`**: `processingCount` never exceeds the READs that run. It may be
  less, even negative, because of `cancelWorks`.
- **`RotationSafe`**: `cancelWorks` counts the queue first and pops that many
  works without a null test; it never finds it empty.
- **`ClosedAreReleased`, `GoneAreUnlisted`**: the timeout of the wait makes up for
  coalesced `SetEvent`s, for the dropped event mask and for an SSL object that has
  failed, unless the number of
  handles stays at a multiple of `WSA_MAXIMUM_WAIT_EVENTS`, where the wait of the
  last, empty chunk fails and the timeout branch never runs.

- **`NoClientForgotten`, `EveryClientServed`**: the redirect thread clears FD_ACCEPT
  before it accepts and takes one connection per event; it still never sleeps over
  a waiting client, whether the client came before `WSAEventSelect` or its
  predecessor left before `accept`, and serves every client although the others
  come back without end.
- **`NothingLeftBehind`, `OneRecord`**: what OpenSSL has decrypted and not handed out
  is announced by no event, so the loop of `receiveData` must empty it; a request is
  then one record. **`ZeroReturnIsReal`**: a session is told to close by its client, or
  by a request of exactly 4 bytes, and by nothing else.
- **`TargetAsSent`**: destination and arguments are what the client wrote, for names
  and values without `=`, `&`, `/`, `?`, with repeated and empty ones. **`HeadersAsSent`**,
  **`OneHeaderCut`**: when the text ends with a line the headers are those that
  arrived, less the first; wherever it ends, at most one is other than the client sent
  it behind the first. **`TurnsAdvance`**:
  each turn of the loop over the headers takes text or finds its end, so that the
  loop returns although `clear` takes its end away.
- **`FirstLocationWins`**: a file that was read is found by its name, or hidden by one
  of the same hash from the same directory or an earlier one.
- **`UnsetOnlyIfMissing`**: the worker deletes a pointer that was never set only after
  a request for a file that is not there. **`BufferReaches`**: what it sends lies in
  the buffer, unless the page for 404 is too large for it; the buffer of a file is twice
  the file and too small for a small one with its header, which only the dropped size
  hides. **`NullOnlyIfUnread`**: a null file ends the process only if the index page, at
  start-up, or the page for 404, at a request, could not be read.
- **`WritesInside`, `OkIsDelivered`**: the arithmetic of the chunks is right as long as
  no write is partial. **`EndsUnlessMultiple`**: the loop ends for every size that is
  no multiple of the chunk, partial writes and failures included.
- **`BindsSucceed`**: every path, through an early return or a locked file, leaves the
  statements it stepped reset before the next bind. **`PageIsRight`**: a page is
  the rows of one state of the table, less one per turn that found the file locked,
  as long as its offset does not wrap. **`ThrowsOnlyIf`**: an exception of jsoncpp, which
  ends the process, needs a broken row, a removal between the two statements of
  `GetArticle`, or a locked file.

Two lines of the repository that the code does not keep, each with a run:

- `HttpsServer.h:53` says that `Run` returns 0 when q is pressed; the worker may
  never see `THREAD_CLOSE`, and `~ClientThreadPool` waits for it without a limit
  (`violation_quit`).
- `HttpResponseGenerator.cpp:86` says that `index` is the size of the response; for a
  file it is 0 and nothing is sent (`violation_size`).

More such lines are stated as properties in the modules (`DestroyAssertion` as an
action property, the others as invariants); TLC refutes each of them when it is put
into the configuration of the run named here:

| line | says | definition | refuted with | because |
|---|---|---|---|---|
| `ClientWork.cpp:198` | `assert(processingCount == 0)` | `CloseAssertion` | `service` | `ClientThreadPool.cpp:173` lowers the count for queued READs that had not raised it |
| `HttpsServer.cpp:290` | no close is refused in the destructor | `DestroyAssertion` | `lifecycle` | a worker has popped a READ and not yet counted itself when the destructor stops waiting |
| `ClientWork.h:54` | OK on success | `OkMeansSent` | `response` | after a partial write, or a failed one on the same connection, more, or other, bytes were sent |
| `ClientWork.h:55` | ERROR on an error | `ErrorIsReported` | `receive` | an error of `SSL_read_ex` is taken for a request of one byte |
| `HttpObject.h:3` | the object has the headers | `AllHeadersRead` | `parse` | `HttpHelper.cpp:105` drops the first one, so a service whose header comes first answers 404 |
| `HttpFileContainer.h:4` | file names are the keys | `NameIsKey` | `generate` | their hashes are |
| `Service.h:11` | the first `Run` serves the index page | `IndexPageServed` | `generate` | only the second `Run` is called, and the index page is answered with 404 |

### Bounds

`MaxSends` bounds the bursts of data all clients send together; a session is one
connection, so the number of sessions bounds the connections of a run; a chunk
holds 2 or 3 handles instead of 64. Nothing else is bounded by a guard:
timers expire and clients hang up at any moment.

- Two sessions are the fewest with a neighbour on the list to shift or skip and a
  queue with works of two sessions to rotate. With chunks of 2 the list (with the
  listening socket, 1 to 3 entries) takes one chunk, an exact chunk and a chunk
  and a rest.
- Two bursts give one session two READs, or a READ that runs and one queued
  behind it. An overtaking CLOSE needs a third: handshake, a READ that returns
  `ZERO_RETURN` and a READ behind it in the queue. The third comes only while no
  session is idle too long (`InBusyService`): the CLOSE is left to the hang-up.
- `lifecycle` has the shutdown, with a second burst as long as only one session is
  used (`InOneSession`).
- `redirect`: with three clients and room for two one is refused, one is in front
  and one behind. Nothing is bounded there: clients return, and the states repeat.
- `two_workers` has one session, because shutdown and the second worker do not relate
  sessions to one another.
- The constraints cut the behaviours at the states they exclude, among them in
  `service` those where q is pressed or the close slot is not inert; they are used
  with invariants and the safety property `LifecycleSpec` only. `liveness` uses none:
  its specification leaves q out and fixes the slot.
- `receive`: a record of 7 bytes takes a buffer of 3 three times, one of 6 fills it
  exactly, and 1, 2 and 4 are the lengths that are also codes. `MaxRecord` and
  `MaxRecords` bound them.
- `response`: sizes 0 to 13 with chunks of 4 are below, at and around one, two and
  three chunks; `MaxSize` is that 13. The second response (`MaxResponses`) meets the
  record that the first left behind. A record of the connection divides the
  chunk, as the sizes that TLS peers agree upon do.
- `parse`: the names, queries and headers of `MCRequestParser` have each separator in
  the wrong place once, and each part empty or repeated once; the cut makes every
  prefix a request.
- `generate`: a hash of 16 bits instead of 32, for TLC's integers are 32 bits
  wide. Names that collide do so for any modulus; the page for 404 fits the buffer in one
  directory and not in the other.
- `articles`: words of 16 values and pages of 2 instead of 2^32 and 6; the page
  numbers include the first that wraps to a negative offset, the first that wraps
  to a small one, and -1. `MaxRows` makes a full page, half a page and none;
  `MaxBusy` is how often a call finds the file locked.
- `generate` and `articles` do not check for deadlock: the process may end there.

### Fairness

Weak fairness of the main thread's step and of each worker's, because Windows
schedules every runnable thread; of the clock of each session, because time
passes. A thread that is blocked has no step. Clients and the console owe
nothing: a client may stay silent forever. The liveness properties promise
nothing once the process has crashed or a worker writes a response forever.
`violation_quit` states the same fairness: its counterexample is not a thread that
was never scheduled. `redirect` assumes weak fairness of its thread only, which blocks
nowhere but in its wait. `response` assumes weak fairness of a turn of the loop that
succeeds, and of one that OpenSSL must refuse: the socket does not block, and the
loop makes its calls as long as the worker is scheduled; that a call fails for another
reason is never assumed. The other modules need none: that the parser ends is
`TurnsAdvance`, an action property.

## Proofs

Every theorem holds for all values of the constants that satisfy the named
assumptions of the modules: any number of sessions, bursts and clients, any size of
chunk, buffer and record, any directories, tables and requests. Every safety property
and every action property of the passing runs is proved, and both refinements.

### The HTTPS server

`WebServerProofs` (assumptions in `Winsock`, `ClientWork`, `ClientThreadPool` and
`HttpsServer`; one or two workers):

- `TypeCorrect`: `Spec => []TypeOK`. Its content is the counter:
  `mThreadRunningCount \in Nat` says that no path lowers it below zero.
- `IndexIsInside`: `Spec => []IndicesInside`.
- `RotationIsSafe`: `Spec => []RotationSafe`.
- `BusyIsAlwaysReal`: `Spec => []BusyIsReal`.
- `ChunkInsideList`: the chunks of the sweep stay inside the list of handles.

None of these properties is inductive. `IInv` adds:

- `WorkShape`: a worker past its pop has a work, inside case `SESSION_READ` and in
  `cancelWorks` a READ, in case `SESSION_CLOSE` a CLOSE; in the middle of a rotation it
  holds one and has some left to look at, and a count is read for a READ of the
  cancelled session only.
- `CountExact`: `mThreadRunningCount` is the number of workers between `CountUp`
  and `Finish`. Without it nothing says that `Finish` lowers a positive number.
- `ListShape`: the listening socket is first on the list and nowhere else. Without
  it the main thread might close the dummy session as a client's.
- `MainShape`: where the main thread uses its index, it lies in the list, on a
  client's session where it is treated as one; between chunks the list does not
  change.

- `SeenShape`: the count that `cancelWorks` has read and is going to lower is at most 1,
  for the other worker's READ: what it writes back counts none, so `BusyIsReal` survives
  a lost update.

`Initially` and `Inductive` prove `Init => IInv` and `IInv /\ [Next]_vars => IInv'`.
The second follows the threads: `RunTyping`, `RunBusy` and `RunMoves` for
`ClientWork::Run`, `PoolTyping`, `PoolBusy`, `WorkerCounts` and `WorkerRotates` for the
pool, `MainTyping` (with `DispatchTyping` for the switch) and `MainLeavesWorkers`
for the main thread, `OutsideTyping` for clients, clock and console.

`SessionProofs` builds on it, in three parts.

**Owners.** `OneOwnerEach` (`OneOwner`) and `NoneLost` (`NotLost`). Both count: the
copies of a work in the queue, in a worker's hands and in `cancelWorks`'
(`Copies`), and the entries of the list. `OInv` adds to `IInv`:

- `Ownership`: the two properties, and that a session which nobody has accepted has no
  owner, no READ, and is not deleted: `Accept` adds an owner and relies on that.
- `EmptyHands`: a worker that waits has no work, `cancelWorks` holds one between its
  pop and its push only. Otherwise a CLOSE might be counted twice.
- `ErasedIsClosed`: what `eraseClientFromList` takes off the list has its CLOSE on the
  way, or is deleted already.

The first lemmas say what a push, a pop and an erase by index do to a count
(`PushCounts`, `PopCounts`, `CloseUpCounts`); `RunEffect`, `PoolEffect` and `MainEffect`
sum up each step as one of a few kinds (a READ added, a CLOSE added, a work ended, a
work moved, an entry moved to a CLOSE, nothing); `WorkerOwns` and `MainOwns` only see
the kinds.

**`ImplementsLifecycle`**: `Spec => LifecycleSpec`, every step of the server is a step or
a stutter of `SessionLifecycle`. The refinement mapping reads the owners, so the proof
goes from the same kinds of steps (`MainRefines`, `WorkerRefines`) and from `OInv`: the
deletion of a session is `Release` because its CLOSE was its only owner.

**Data and memory.** Both theorems assume one worker.
`DataIsNotForgotten` (`UnreadAnnounced`): the property says nothing of
a session with nothing unread, so `Announced` adds that its socket is armed for the
next burst, and `CloseIsReal` that FD_CLOSE is recorded only for a client that has
gone; `SeenIsReal` adds that the count which `cancelWorks` has read is still the count, so
that a cancelled READ leaves a mark. `NeverUsedAfterFree` (`NoUseAfterFree`): what keeps a READ from
running after its session's CLOSE is the order of the queue, and `cancelWorks` takes
the queue apart. `InOrder` states the order that the works will be in when the
rotation ends: first what has been pushed again (behind `Boundary`), then the work in
`cancelWorks`' hands, then what is still to be looked at. `AllRead` is about the shutdown: of a
listed session that the destructor may still delete, and that is not in `overtaken`, no
READ is left anywhere. With
two workers `NeverUsedAfterFree` would be false: the second may hold a READ that it
popped before the first came to the CLOSE. `DataIsNotForgotten` would lose its
exception for cancelled READs to an update that is lost.

### The redirect server

`RedirectProofs`: `NobodyForgotten` (`NoClientForgotten`); its invariant, `Announced`, adds
where recording is armed, for the property alone does not say that a client that
connects while the thread sleeps wakes it. `TypeCorrect`: the stack's line holds each
client that waits once (`Lined`), so it never outgrows the backlog, and the thread
holds a connection open exactly while it answers (`OneAnswered`).

### The path of a request

- `RequestReceiverProofs` (`SizesAssumption`): `NothingIsLeft`, `RequestIsOneRecord`,
  `ClosedOrFourBytes`: the invariant says that while the loop runs, what has been read
  is the start of the record that was decrypted, as far as it is not pending.
  `TypeCorrect`: what is handed over is no longer than a record; `Sized` adds that it is
  the start of one, also where a later read failed.
- `RequestParserProofs`: `TypeCorrect`: no offset with which `PrepareResponse` calls
  `substr` is outside of its string, for any text; `PInv` adds that the text and the
  buffer are sequences and that the offsets are still 1 when the arguments are reached.
  `LoopGetsOn` (`TurnsAdvance`): every turn of the loop over the headers finds the end
  of the text or takes from it, because what `getline` and `ignore` leave is a stream
  that is good or at its end (`Fine`, `GetLineProperties`, `IgnoreProperties`), and a
  turn that clears a failed stream stands at the end of the text, where `ignore`
  finds the end again. A position is a least or greatest index with a property;
  `LeastIndex` and `GreatestIndex` (well-founded order of Nat) say that it exists.
  What is parsed against what was sent is the next section.
- `ResponseGeneratorProofs` (`DirectoriesAssumption`, `GeneratorAssumption`): about
  `FileTable`, `FirstIsFound`: the invariant says that an entry lies under its own hash,
  was read, and comes from no later location than any file of that hash that was read.
  `KeyedByName` is `NameIsKey` under `NoCollision`: the collision of two names is
  the only reason for it to fail. `ImplementsTable`: the generator with its services and
  requests is a `FileTable`, so `FirstIsServed` (`FirstLocationWins`) holds of it.
  `UnsetIsMissing` (`UnsetOnlyIfMissing`), `BufferAlwaysReaches` (`BufferReaches`),
  `NullIsNeverRead` (`NullOnlyIfUnread`), `TypeCorrect`:
  each follows the three branches of `Generate` (a file, a service, the page for 404).
  The assumption states what the code has: no file is the null pointer, a content type
  has 16 characters at most, the buffer of a service 128 bytes at least (it has 1024).
- `ResponseWriterProofs` (`ChunkAssumption`, `RecordAssumption`, `BoundsAssumption`):
  `TypeCorrect`, `NeverPastTheEnd`, `OkIsComplete`: the invariant says that without
  partial writes `wroteSize` is a multiple of the chunk size or the whole size, which
  `WritesInside` does not say and the length of the last chunk rests on.
  `SomethingIsAsked` is the safety half of `EndsUnlessMultiple`.
- `ArticlesProofs` (`DatabaseAssumption`: a word has an even number of values, an index
  is a positive `int`): `EveryBindSucceeds` (`BindsSucceed`), `PageIsOfOneState`
  (`PageIsRight`), `ThrowsHaveACause` (`ThrowsOnlyIf`), `TypeCorrect`. `AllReset` says that
  a statement is stepped only inside the call that bound it; `InRows` that what
  `GetArticles` has collected are the first rows of its page in the snapshot, and that
  every turn found a row or the file locked; `Believed` that a row `GetArticle` has seen
  is there until the editor removes it.

### What is parsed and what was sent

`RequestParserProofs` again, under `ParserAssumption` (no blank in a method or a target, no
colon in a header's key, no end of line inside a line; `Plain` is a condition of
`TargetAsSent` itself):
`ArgumentsAndPathAsSent` (`TargetAsSent`), `EveryHeaderAsSent` (`HeadersAsSent`),
`OnlyOneHeaderCut` (`OneHeaderCut`), for any number of arguments and headers of any
length, and wherever the record ends.

*What is where in the text.* A query and the block of headers are `FlattenSeq` of their
lines, a recursive function. `JoiningExists`, `JoiningUnique` and `FlattenIsJoining` say
that it is the one function with its recursive equation, so that one more part only
appends (`FlattenAppends`); these inductions go over a set of numbers (`Induction`, from
`LeastIndex`), for the library's theorem, with an operator for a parameter, is out of
reach. Then `End(ss, k)`, the length of the first k parts, gives each token its place:
`FlattenParts`, and from it `HeaderPlace`, `TextLayout`, `TargetLayout`,
`ArgumentPlace`. `FirstValuesInsert` is the same for the map: one more pair is one
more `insert`.

*Where the parser is.* Three invariants join `PInv`:

- `LineInv`: the text is a prefix of the request (`TextInv`), and between two parts of
  the request line the stream stands where the next begins, or is not good.
- `HeadersInv`: with headers still to come the stream stands behind header k, and
  what is read is headers 2 to k (`AtHeader`); once the end is found, these, and with a
  text that ends with a line k is the last that arrived whole (`ReadAll`), or one pair
  more (`OneMore`) from the line that was cut. `HeadersAsSent` speaks of the last state only
  and is not inductive; `OneHeaderCut` is not either, for it does not say which header
  is next. `NextTurn` and `LastTurn` follow one turn from `AtHeader(k)`, by where
  the text ends: before the colon, at it, in the value, between `\r` and `\n`, behind.
- `TargetInv`: once the target was read up to its blank, `mDest` is the last segment
  of the path; the buffer is what follows the `?`, or has no `=` (`BufferFor`); and with
  k arguments read (`ArgumentsRead`) the loop is behind the `=` of argument k and not
  behind that of k + 1, where `argumentStartOffset` is behind the `&` between
  them. `EqualsFound` says that there is no other `=`, which is where `Plain` is needed.
  A target that was cut need not be right: the stream has failed then, and
  `VersionNeedsTarget` says that `ReadVersion` rejects.

Both header properties compare with the headers behind the first, not with all: a key that
comes first and again later has its later value, for the first line is dropped, whether or
not a line is cut. `MCHeaderLists` has such a list.

### What TLC alone shows

- `ClosedAreReleased`, `GoneAreUnlisted`, `EveryClientServed`, `EndsUnlessMultiple`: liveness
  under fairness. Their safety cores are proved: `DataIsNotForgotten` and `NoneLost`,
  `NobodyForgotten`, `SomethingIsAsked`.
- The two violations, and the properties of the table above, which are false.

## Plan

Order of work, the most important behaviour first.

1. **Done.** `Winsock`, `ClientSession`, `ClientWork`, `ClientThreadPool`, `HttpsServer`,
   `WebServer`, `SessionLifecycle`, `RedirectServer`; their runs.
2. **Done.** The path of a request: `ResponseWriter`, `RequestReceiver`, `RequestParser`,
   `FileTable`, `ResponseGenerator`, `ArticlesDatabase`; their runs.
3. **Done.** Proofs of every safety property and every action property of the passing
   runs, and of both refinements (`SessionLifecycle`, `FileTable`).
4. Left: the conditions under which `CloseAssertion` does hold (no READ cancelled, one
   worker), from `CountExact` and `InOrder`; that a READ which is queued while its session
   is listed runs before the session's CLOSE; with provers that do temporal reasoning
   about `ENABLED`, the liveness properties.

## Not modelled

Start-up (certificates, sockets, Winsock initialisation) is the initial state.
Logging, crash dumps and build glue have no state the server reads. The second
`WSACleanup`-side work of the destructor (freeing OpenSSL) follows the last step of
the model. Memory that leaks (a CLOSE work of the destructor, the length passed to
`accept`, the arguments and objects that a parse leaves behind) is not counted.

- `Insert`, `Update` and `Delete` of the database: nothing calls them. (`Insert` binds
  parameter 0, where SQLite counts from 1, and the other two run statements that
  were never prepared, so that their assertions would fail at once.)
- Of the services, the `Run` functions that write into a buffer, and of `http.cpp` the
  functions on service names and keep-alive: nothing calls them. `GetArticle` of the
  database is modelled although its only caller is one of these.
- What a stray write of `http::Memcpy` hits: it may do nothing or end the process.
- Two requests at a time on one prepared statement or on the static `HttpObject` of
  the page for 404: `THREAD_COUNT` is 1, and these modules follow one worker.
- A clock that is set back, a session ID that wraps after 2^32 connections, and
  clients whose endless traffic starves those behind them on the list.
