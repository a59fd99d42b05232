---------------------------- MODULE ArticlesDatabase ----------------------------
(***************************************************************************)
(* SQLiteConnector: prepared statements that are bound, stepped and reset  *)
(* for each request, against a database file that an editor changes from   *)
(* another process.                                                        *)
(*                                                                         *)
(* SQLite and jsoncpp are not part of the repository.  As the code uses    *)
(* them: a statement reads one state of the database from its first step   *)
(* that is not SQLITE_BUSY to its reset; it can be bound only when reset;  *)
(* an offset below 0 counts as 0; columns without a row are 0 or null; a   *)
(* Json::Value made from a null text throws, and nothing catches it.       *)
(***************************************************************************)
EXTENDS Integers, Sequences, SequencesExt

CONSTANTS
  Indices,        \* what the column INDEX may hold, as the int it is read into
  Broken,         \* those of articles with a null column, or of ten digits
  PageSize,       \* 6: turns of the loop, and the LIMIT of the statement
  Word,           \* 2^32: how many values an uint32_t has
  PageNumbers,    \* bound: the pages asked for, as uint32_t
  MaxRows, MaxBusy  \* bounds

ASSUME DatabaseAssumption ==
  /\ Word \in Nat \ {0} /\ Word % 2 = 0
  /\ Indices \subseteq 1 .. Word \div 2 - 1 /\ Broken \subseteq Indices
  /\ PageSize \in Nat \ {0}
  /\ PageNumbers \subseteq 0 .. Word - 1
  /\ MaxRows \in Nat /\ MaxBusy \in Nat

VARIABLES
  articles,       \* the rows, as their indices, in the order of a query
  bound,          \* per statement: its parameter
  stepped,        \* per statement: stepped and not reset
  snapshot,       \* the rows that the statement in progress reads
  at, arg,        \* where the call in progress is, and its argument
  turn,           \* i of the loop in GetArticles
  page,           \* what GetArticles has found
  busy,           \* how often this call found the file locked
  removed,        \* history: the article asked for was removed meanwhile
  misuse          \* history: a statement was bound that was not reset

dbVars == <<articles, bound, stepped, snapshot, at, arg, turn, page, busy,
            removed, misuse>>

Statements == {"SelectExists", "Select", "GetArticles"}
Returned == {"start", "found", "not found", "page"}
InProgress == {"exists", "absent", "known", "select", "locked", "read",
               "rows", "last", "thrown"}

Init ==
  /\ articles \in BoundedSeq(Indices, MaxRows)
  /\ IsInjective(articles)
  /\ bound = [s \in Statements |-> 0]
  /\ stepped = [s \in Statements |-> FALSE]
  /\ at = "start" /\ arg = 0 /\ turn = 0
  /\ page = <<>> /\ snapshot = <<>> /\ busy = 0
  /\ removed = FALSE /\ misuse = FALSE

-----------------------------------------------------------------------------
(* The editor *)

RemoveArticle ==
  \E k \in DOMAIN articles :
    /\ articles' = RemoveAt(articles, k)
    /\ removed' = (removed \/ articles[k] = arg)

AddArticle ==
  /\ Len(articles) < MaxRows
  /\ \E index \in Indices \ Range(articles) : articles' = Append(articles, index)
  /\ UNCHANGED removed

Editor ==
  /\ RemoveArticle \/ AddArticle
  /\ UNCHANGED <<bound, stepped, snapshot, at, arg, turn, page, busy, misuse>>

-----------------------------------------------------------------------------
Bind(s, value) ==
  /\ bound' = [bound EXCEPT ![s] = IF stepped[s] THEN @ ELSE value]
  /\ misuse' = (misuse \/ stepped[s])

Reset(s) == stepped' = [stepped EXCEPT ![s] = FALSE]

Begin(place, value) ==
  /\ at \in Returned
  /\ at' = place /\ arg' = value /\ turn' = 0 /\ page' = <<>> /\ snapshot' = <<>>
  /\ busy' = 0 /\ removed' = FALSE

Locked == busy < MaxBusy /\ busy' = busy + 1

GetArticle(index) ==
  /\ Begin("exists", index)
  /\ Bind("SelectExists", index)
  /\ UNCHANGED <<articles, stepped>>

(* Mutant: without the early return. *)
NeverMissing(found) == FALSE

Missing(found) == ~found

(* A step that finds the file locked has begun all the same: the statement *)
(* cannot be bound before it is reset.                                     *)
Step(s) == stepped' = [stepped EXCEPT ![s] = TRUE]

(* The step of "exists"; a file that is locked goes for one that said yes. *)
StepExists ==
  /\ at = "exists"
  /\ \/ /\ at' = IF Missing(bound["SelectExists"] \in Range(articles))
                 THEN "absent" ELSE "known"
        /\ UNCHANGED busy
     \/ Locked /\ at' = "known"
  /\ Step("SelectExists")
  /\ UNCHANGED <<articles, bound, snapshot, arg, turn, page, removed, misuse>>

(* Mutant: the early return without its reset. *)
LeaveMissing ==
  /\ at = "absent" /\ at' = "not found"
  /\ UNCHANGED <<articles, bound, stepped, snapshot, arg, turn, page, busy,
                 removed, misuse>>

ReturnMissing ==
  /\ at = "absent" /\ at' = "not found"
  /\ Reset("SelectExists")
  /\ UNCHANGED <<articles, bound, snapshot, arg, turn, page, busy, removed, misuse>>

BindSelect ==
  /\ at = "known" /\ at' = "select"
  /\ Reset("SelectExists")
  /\ Bind("Select", arg)
  /\ UNCHANGED <<articles, snapshot, arg, turn, page, busy, removed>>

(* The columns are used whether there is a row or not. *)
StepSelect ==
  /\ at = "select"
  /\ \/ /\ at' = IF bound["Select"] \in Range(articles) \ Broken
                 THEN "read" ELSE "thrown"
        /\ UNCHANGED busy
     \/ Locked /\ at' = "locked"
  /\ Step("Select")
  /\ UNCHANGED <<articles, bound, snapshot, arg, turn, page, removed, misuse>>

ReturnFrom(place, result) ==
  /\ at = place /\ at' = result
  /\ Reset("Select")
  /\ UNCHANGED <<articles, bound, snapshot, arg, turn, page, busy, removed, misuse>>

ReturnLocked == ReturnFrom("locked", "not found")

ReturnArticle == ReturnFrom("read", "found")

(* Mutant: bound without its sign. *)
Unsigned(n) == n % Word

(* index * 6 on 32 bits without a sign, bound with one.                    *)
Signed(n) == IF n % Word < Word \div 2 THEN n % Word ELSE (n % Word) - Word

Offset(n) == IF n < 0 THEN 0 ELSE n

GetArticles(index) ==
  /\ Begin("rows", index)
  /\ Bind("GetArticles", Signed(index * PageSize))
  /\ UNCHANGED <<articles, stepped>>

(* The statement reads since a step that did not find the file locked. *)
Reading == turn > busy

Table == IF Reading THEN snapshot ELSE articles

Rows ==
  LET from == Offset(bound["GetArticles"])
  IN SubSeq(Table, from + 1,
       IF from + PageSize < Len(Table) THEN from + PageSize ELSE Len(Table))

(* Mutant: one turn fewer. *)
LastTurnBefore(n) == n = PageSize - 1

LastTurn(n) == n = PageSize

(* A turn of the loop: a row, no row, or the file locked. *)
StepRows ==
  /\ at = "rows" /\ ~LastTurn(turn)
  /\ Step("GetArticles")
  /\ \/ /\ Len(page) < Len(Rows)
        /\ turn' = turn + 1 /\ snapshot' = Table
        /\ IF Rows[Len(page) + 1] \in Broken
             THEN at' = "thrown" /\ UNCHANGED page
             ELSE page' = Append(page, Rows[Len(page) + 1]) /\ UNCHANGED at
        /\ UNCHANGED busy
     \/ /\ Len(page) = Len(Rows)
        /\ at' = "last" /\ snapshot' = Table
        /\ UNCHANGED <<turn, page, busy>>
     \/ /\ ~Reading /\ Locked
        /\ turn' = turn + 1
        /\ UNCHANGED <<snapshot, page, at>>
  /\ UNCHANGED <<articles, bound, arg, removed, misuse>>

(* After the loop; it ends with the rows, or after PageSize turns. *)
ReturnPage ==
  /\ at = "last" \/ (at = "rows" /\ LastTurn(turn))
  /\ at' = "page"
  /\ Reset("GetArticles")
  /\ UNCHANGED <<articles, bound, snapshot, arg, turn, page, busy, removed, misuse>>

Next ==
  \/ Editor
  \/ \E index \in Indices : GetArticle(index)
  \/ \E index \in PageNumbers : GetArticles(index)
  \/ StepExists \/ ReturnMissing \/ BindSelect
  \/ StepSelect \/ ReturnLocked \/ ReturnArticle
  \/ StepRows \/ ReturnPage

Spec == Init /\ [][Next]_dbVars

-----------------------------------------------------------------------------
int == -(Word \div 2) .. Word \div 2 - 1

(* What a statement is bound to is an int. *)
TypeOK ==
  /\ articles \in Seq(Indices) /\ snapshot \in Seq(Indices)
  /\ page \in Seq(Indices) /\ Len(page) <= PageSize
  /\ bound \in [Statements -> int]
  /\ stepped \in [Statements -> BOOLEAN]
  /\ at \in Returned \union InProgress
  /\ turn \in 0 .. PageSize /\ busy \in 0 .. MaxBusy

(* The assertions after each bind: every path through a call, with its own *)
(* reset on each early return and after a locked file, leaves the          *)
(* statements it stepped reset for the next call.                          *)
BindsSucceed == ~misuse

(* GetArticles returns the rows of its page, of one state of the table     *)
(* whatever the editor does, less one for each time the file was locked.   *)
PageIsRight ==
  at = "page" /\ arg * PageSize < Word \div 2 =>
    LET from == arg * PageSize
        size == PageSize - busy
    IN page = SubSeq(snapshot, from + 1,
                IF from + size < Len(snapshot) THEN from + size ELSE Len(snapshot))

(* A request ends the process only over an article that is broken, or one  *)
(* that GetArticle believes to exist: because it was there when it asked,  *)
(* or because the file was locked and it could not ask.                    *)
ThrowsOnlyIf ==
  at = "thrown" =>
    \/ Broken \cap (Range(snapshot) \union {arg}) # {}
    \/ removed
    \/ busy > 0
=============================================================================
