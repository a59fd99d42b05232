----------------------------- MODULE ArticlesProofs -----------------------------
(***************************************************************************)
(* The prepared statements of SQLiteConnector, for any table, any sequence *)
(* of requests and any moment at which the editor changes a row or has the *)
(* file locked.                                                            *)
(***************************************************************************)
EXTENDS ArticlesDatabase, SequenceTheorems, TLAPS

LEMMA Bounds ==
  /\ MaxBusy \in Nat /\ 0 \in 0 .. MaxBusy
  /\ PageSize \in Nat \ {0} /\ 0 \in 0 .. PageSize
  /\ PageNumbers \subseteq Nat /\ Indices \subseteq Nat /\ Indices \subseteq int
BY DatabaseAssumption DEF int

(* What is bound is an int, and an offset below 2^31 is bound as it is. *)
LEMMA SignedType ==
  ASSUME NEW n \in Nat
  PROVE  Signed(n) \in int
<1> DEFINE half == Word \div 2
           r == n % Word
<1>1. half \in Nat /\ Word = 2 * half
  BY DatabaseAssumption
<1>2. r \in 0 .. Word - 1
  BY DatabaseAssumption
<1>3. Signed(n) = IF r < half THEN r ELSE r - Word
  BY DEF Signed
<1> HIDE DEF half, r
<1>4. Signed(n) \in -half .. half - 1
  BY <1>1, <1>2, <1>3
<1> QED BY <1>4 DEF half, int

LEMMA SmallIsSigned ==
  ASSUME NEW n \in Nat, n < Word \div 2
  PROVE  Signed(n) = n
<1>1. Word \div 2 <= Word /\ Word \div 2 \in Nat /\ Word \in Nat
  BY DatabaseAssumption
<1>2. n % Word = n
  BY <1>1
<1> QED BY <1>2 DEF Signed

(* A row other than the k-th survives the removal of the k-th. *)
LEMMA RemoveAtKeeps ==
  ASSUME NEW S, NEW s \in Seq(S), NEW k \in DOMAIN s
  PROVE  /\ RemoveAt(s, k) \in Seq(S)
         /\ \A x \in Range(s) \ {s[k]} : x \in Range(RemoveAt(s, k))
<1> DEFINE a == SubSeq(s, 1, k - 1)
           b == SubSeq(s, k + 1, Len(s))
<1>1. /\ Len(s) \in Nat /\ k \in Nat /\ k <= Len(s) /\ 1 <= k
      /\ DOMAIN s = 1 .. Len(s)
  OBVIOUS
<1>2. /\ a \in Seq(S) /\ Len(a) = k - 1
      /\ \A i \in 1 .. k - 1 : a[i] = s[i]
  BY <1>1, SubSeqProperties
<1>3. /\ b \in Seq(S) /\ Len(b) = Len(s) - k
      /\ \A i \in 1 .. Len(s) - k : b[i] = s[k + i]
  BY <1>1, SubSeqProperties
<1>4. RemoveAt(s, k) = a \o b
  BY DEF RemoveAt
<1> HIDE DEF a, b
<1> DEFINE c == a \o b
<1>5. /\ c \in Seq(S) /\ Len(c) = Len(a) + Len(b)
      /\ \A i \in 1 .. Len(a) + Len(b) :
           c[i] = IF i <= Len(a) THEN a[i] ELSE b[i - Len(a)]
  BY <1>2, <1>3, ConcatProperties
<1> HIDE DEF c
<1>6. Len(c) = Len(s) - 1 /\ DOMAIN c = 1 .. Len(s) - 1
  BY <1>1, <1>2, <1>3, <1>5
<1>7. ASSUME NEW i \in 1 .. Len(s), i # k
      PROVE  \E j \in DOMAIN c : c[j] = s[i]
  <2>1. CASE i < k
    <3>1. i \in DOMAIN c /\ c[i] = a[i]
      BY <2>1, <1>1, <1>2, <1>3, <1>5, <1>6
    <3>2. a[i] = s[i]
      BY <2>1, <1>1, <1>2
    <3> QED BY <3>1, <3>2
  <2>2. CASE i > k
    <3>1. i - 1 \in DOMAIN c /\ c[i - 1] = b[(i - 1) - (k - 1)]
      BY <2>2, <1>1, <1>2, <1>3, <1>5, <1>6
    <3>2. /\ (i - 1) - (k - 1) \in 1 .. Len(s) - k
          /\ k + ((i - 1) - (k - 1)) = i
      BY <2>2, <1>1
    <3>3. b[(i - 1) - (k - 1)] = s[i]
      BY <3>2, <1>3
    <3> QED BY <3>1, <3>3
  <2> QED BY <2>1, <2>2, <1>7, <1>1
<1>8. \A x \in Range(s) \ {s[k]} : x \in Range(c)
  <2> SUFFICES ASSUME NEW x \in Range(s) \ {s[k]} PROVE x \in Range(c)
    OBVIOUS
  <2>1. PICK i \in 1 .. Len(s) : x = s[i]
    BY <1>1 DEF Range
  <2>2. PICK j \in DOMAIN c : c[j] = s[i]
    BY <2>1, <1>7
  <2> QED BY <2>1, <2>2 DEF Range
<1> QED BY <1>4, <1>5, <1>8 DEF c

-----------------------------------------------------------------------------
Places == Returned \union InProgress

Types ==
  /\ articles \in Seq(Indices) /\ snapshot \in Seq(Indices)
  /\ page \in Seq(Indices) /\ Len(page) <= PageSize
  /\ bound \in [Statements -> int]
  /\ stepped \in [Statements -> BOOLEAN]
  /\ at \in Places
  /\ turn \in 0 .. PageSize /\ busy \in 0 .. MaxBusy
  /\ arg \in Nat

(* Where a statement may be stepped and not reset; between two calls none  *)
(* is.                                                                     *)
AllReset ==
  /\ ~misuse
  /\ stepped["SelectExists"] => at \in {"absent", "known"}
  /\ stepped["Select"] => at \in {"locked", "read", "thrown"}
  /\ stepped["GetArticles"] => at \in {"rows", "last", "thrown"}

(* The rows that the call in progress skips. *)
From == Offset(bound["GetArticles"])

(* In the loop, every turn has found a row or the file locked, and what    *)
(* was found are the first rows of the page in the snapshot; all of them,  *)
(* once a turn found no row.                                               *)
InRows ==
  at \in {"rows", "last"} =>
    /\ bound["GetArticles"] = Signed(arg * PageSize)
    /\ turn = Len(page) + busy
    /\ page # <<>> => From + Len(page) <= Len(snapshot)
    /\ \A i \in 1 .. Len(page) : page[i] = snapshot[From + i]
    /\ at = "last" => Len(snapshot) <= From + Len(page)

(* What GetArticle asks for, and that what it goes on with was there when  *)
(* it asked.                                                               *)
Believed ==
  /\ at \in {"exists", "known", "select"} => arg \in Indices
  /\ at = "exists" => bound["SelectExists"] = arg
  /\ at = "select" => bound["Select"] = arg
  /\ at \in {"known", "select"} => arg \in Range(articles) \/ removed \/ busy > 0

IInv == Types /\ AllReset /\ InRows /\ Believed /\ PageIsRight /\ ThrowsOnlyIf

LEMMA IsInit == Init => IInv
<1> SUFFICES ASSUME Init PROVE IInv
  OBVIOUS
<1>1. articles \in Seq(Indices)
  <2>1. PICK m \in 0 .. MaxRows : articles \in [1 .. m -> Indices]
    BY DEF Init, BoundedSeq, SeqOf
  <2>2. m \in Nat
    BY <2>1, DatabaseAssumption
  <2> QED BY <2>1, <2>2
<1>2. 0 \in int
  BY DatabaseAssumption DEF int
<1>3. Types
  BY <1>1, <1>2, DatabaseAssumption DEF Init, Types, Places, Returned
<1> QED
  BY <1>3
  DEF Init, IInv, AllReset, InRows, Believed, PageIsRight, ThrowsOnlyIf, Statements

-----------------------------------------------------------------------------
(* The editor: nothing of the call changes, and the article it asked for   *)
(* is still there unless it was removed.                                   *)
LEMMA EditorKeeps == IInv /\ Editor => IInv'
<1> SUFFICES ASSUME IInv, Editor PROVE IInv'
  OBVIOUS
<1>1. UNCHANGED <<bound, stepped, snapshot, at, arg, turn, page, busy, misuse>>
  BY DEF Editor
<1>2. /\ articles' \in Seq(Indices)
      /\ removed => removed'
      /\ arg \in Range(articles) => arg \in Range(articles') \/ removed'
  <2>1. CASE RemoveArticle
    <3>1. PICK k \in DOMAIN articles :
            /\ articles' = RemoveAt(articles, k)
            /\ removed' = (removed \/ articles[k] = arg)
      BY <2>1 DEF RemoveArticle
    <3>2. articles \in Seq(Indices)
      BY DEF IInv, Types
    <3>3. /\ RemoveAt(articles, k) \in Seq(Indices)
          /\ \A x \in Range(articles) \ {articles[k]} :
               x \in Range(RemoveAt(articles, k))
      BY <3>2, RemoveAtKeeps
    <3> QED BY <3>1, <3>3
  <2>2. CASE AddArticle
    <3>1. PICK index \in Indices : articles' = Append(articles, index)
      BY <2>2 DEF AddArticle
    <3>2. /\ articles' \in Seq(Indices) /\ DOMAIN articles \subseteq DOMAIN articles'
          /\ \A i \in DOMAIN articles : articles'[i] = articles[i]
      BY <3>1, AppendProperties DEF IInv, Types
    <3>3. Range(articles) \subseteq Range(articles')
      BY <3>2 DEF Range
    <3> QED BY <2>2, <3>2, <3>3 DEF AddArticle
  <2> QED BY <2>1, <2>2 DEF Editor
<1> QED
  BY <1>1, <1>2
  DEF IInv, Types, AllReset, InRows, From, Believed, PageIsRight, ThrowsOnlyIf


(* A new call begins with its own argument and nothing found. *)
LEMMA GetArticleKeeps ==
  ASSUME IInv, NEW index \in Indices, GetArticle(index)
  PROVE  IInv'
<1>1. /\ at \in Returned /\ at' = "exists" /\ arg' = index /\ turn' = 0
      /\ page' = <<>> /\ snapshot' = <<>> /\ busy' = 0
      /\ UNCHANGED <<articles, stepped>>
  BY DEF GetArticle, Begin
<1>2. /\ bound' = [bound EXCEPT !["SelectExists"] = index]
      /\ ~misuse'
  <2>1. ~stepped["SelectExists"] /\ ~misuse
    BY <1>1 DEF IInv, AllReset, Returned
  <2> QED BY <2>1 DEF GetArticle, Bind
<1>3. index \in int /\ index \in Nat
  BY Bounds
<1>4. Types'
  <2>1. bound' \in [Statements -> int]
    BY <1>2, <1>3 DEF IInv, Types
  <2>2. page' \in Seq(Indices) /\ snapshot' \in Seq(Indices) /\ Len(page') <= PageSize
    BY <1>1, Bounds
  <2> QED BY <1>1, <1>3, <2>1, <2>2, Bounds DEF IInv, Types, Places, InProgress
<1>5. bound'["SelectExists"] = index
  BY <1>2 DEF IInv, Types, Statements
<1> QED
  BY <1>1, <1>2, <1>4, <1>5
  DEF IInv, AllReset, InRows, Believed, PageIsRight, ThrowsOnlyIf, Returned

LEMMA GetArticlesKeeps ==
  ASSUME IInv, NEW index \in PageNumbers, GetArticles(index)
  PROVE  IInv'
<1>1. /\ at \in Returned /\ at' = "rows" /\ arg' = index /\ turn' = 0
      /\ page' = <<>> /\ snapshot' = <<>> /\ busy' = 0
      /\ UNCHANGED <<articles, stepped>>
  BY DEF GetArticles, Begin
<1>2. ~stepped["GetArticles"]
  BY <1>1 DEF IInv, AllReset, Returned
<1>3. /\ bound' = [bound EXCEPT !["GetArticles"] = Signed(index * PageSize)]
      /\ ~misuse'
  <2>1. ~misuse
    BY DEF IInv, AllReset
  <2> QED BY <1>2, <2>1 DEF GetArticles, Bind
<1>4. index \in Nat /\ index * PageSize \in Nat
  BY Bounds
<1>5. Signed(index * PageSize) \in int
  BY <1>4, SignedType
<1>6. Types'
  <2>1. bound' \in [Statements -> int]
    BY <1>3, <1>5 DEF IInv, Types
  <2>2. page' \in Seq(Indices) /\ snapshot' \in Seq(Indices) /\ Len(page') <= PageSize
    BY <1>1, Bounds
  <2> QED BY <1>1, <1>4, <2>1, <2>2, Bounds DEF IInv, Types, Places, InProgress
<1>7. bound'["GetArticles"] = Signed(arg' * PageSize)
  BY <1>1, <1>3 DEF IInv, Types, Statements
<1>8. InRows'
  BY <1>1, <1>7, Bounds DEF InRows
<1>9. AllReset'
  BY <1>1, <1>3 DEF IInv, AllReset, Returned
<1> QED
  BY <1>1, <1>3, <1>6, <1>8, <1>9
  DEF IInv, Believed, PageIsRight, ThrowsOnlyIf

-----------------------------------------------------------------------------
(* GetArticle: each way on from a step has a reset of its own. *)
LEMMA BusyCounts ==
  ASSUME Types, busy' = busy \/ Locked
  PROVE  busy' \in 0 .. MaxBusy
BY Bounds DEF Types, Locked

LEMMA StepExistsKeeps == IInv /\ StepExists => IInv'
<1> SUFFICES ASSUME IInv, StepExists PROVE IInv'
  OBVIOUS
<1>1. /\ at = "exists" /\ at' \in {"absent", "known"}
      /\ stepped' = [stepped EXCEPT !["SelectExists"] = TRUE]
      /\ UNCHANGED <<articles, bound, snapshot, arg, turn, page, removed, misuse>>
  BY DEF StepExists, Step, Missing
<1>2. busy' \in 0 .. MaxBusy
  BY BusyCounts DEF StepExists, IInv
<1>3. at' = "known" => arg \in Range(articles) \/ busy' > 0
  <2>1. busy \in 0 .. MaxBusy /\ MaxBusy \in Nat /\ bound["SelectExists"] = arg
    BY <1>1, Bounds DEF IInv, Types, Believed
  <2>2. CASE Locked
    BY <2>1, <2>2 DEF Locked
  <2>3. CASE at' = IF Missing(bound["SelectExists"] \in Range(articles))
                     THEN "absent" ELSE "known"
    BY <2>1, <2>3 DEF Missing
  <2> QED BY <2>2, <2>3 DEF StepExists
<1>4. Types'
  BY <1>1, <1>2 DEF IInv, Types, Places, InProgress
<1>5. AllReset'
  BY <1>1 DEF IInv, Types, AllReset, Statements
<1> QED
  BY <1>1, <1>3, <1>4, <1>5
  DEF IInv, InRows, Believed, PageIsRight, ThrowsOnlyIf

LEMMA ReturnMissingKeeps == IInv /\ ReturnMissing => IInv'
<1> SUFFICES ASSUME IInv, ReturnMissing PROVE IInv'
  OBVIOUS
<1>1. /\ at = "absent" /\ at' = "not found"
      /\ stepped' = [stepped EXCEPT !["SelectExists"] = FALSE]
      /\ UNCHANGED <<articles, bound, snapshot, arg, turn, page, busy, removed, misuse>>
  BY DEF ReturnMissing, Reset
<1>2. Types'
  BY <1>1 DEF IInv, Types, Places, Returned
<1>3. AllReset'
  BY <1>1 DEF IInv, Types, AllReset, Statements
<1> QED
  BY <1>1, <1>2, <1>3
  DEF IInv, InRows, Believed, PageIsRight, ThrowsOnlyIf

LEMMA BindSelectKeeps == IInv /\ BindSelect => IInv'
<1> SUFFICES ASSUME IInv, BindSelect PROVE IInv'
  OBVIOUS
<1>1. /\ at = "known" /\ at' = "select"
      /\ stepped' = [stepped EXCEPT !["SelectExists"] = FALSE]
      /\ UNCHANGED <<articles, snapshot, arg, turn, page, busy, removed>>
  BY DEF BindSelect, Reset
<1>2. bound' = [bound EXCEPT !["Select"] = arg] /\ ~misuse'
  <2>1. ~stepped["Select"] /\ ~misuse
    BY <1>1 DEF IInv, AllReset
  <2> QED BY <2>1 DEF BindSelect, Bind
<1>3. Types' /\ bound'["Select"] = arg
  <2>1. arg \in int
    BY <1>1, Bounds DEF IInv, Believed
  <2> QED BY <1>1, <1>2, <2>1 DEF IInv, Types, Places, InProgress, Statements
<1>4. AllReset'
  BY <1>1, <1>2 DEF IInv, Types, AllReset, Statements
<1> QED
  BY <1>1, <1>3, <1>4
  DEF IInv, InRows, Believed, PageIsRight, ThrowsOnlyIf

LEMMA StepSelectKeeps == IInv /\ StepSelect => IInv'
<1> SUFFICES ASSUME IInv, StepSelect PROVE IInv'
  OBVIOUS
<1>1. /\ at = "select" /\ at' \in {"read", "thrown", "locked"}
      /\ stepped' = [stepped EXCEPT !["Select"] = TRUE]
      /\ UNCHANGED <<articles, bound, snapshot, arg, turn, page, removed, misuse>>
  BY DEF StepSelect, Step
<1>2. Types'
  <2>1. busy' \in 0 .. MaxBusy
    BY BusyCounts DEF StepSelect, IInv
  <2> QED BY <1>1, <2>1 DEF IInv, Types, Places, InProgress
<1>3. AllReset'
  BY <1>1 DEF IInv, Types, AllReset, Statements
<1>4. ThrowsOnlyIf'
  <2> SUFFICES ASSUME at' = "thrown" PROVE ThrowsOnlyIf'
    BY DEF ThrowsOnlyIf
  <2>1. bound["Select"] = arg /\ (arg \in Range(articles) \/ removed \/ busy > 0)
    BY <1>1 DEF IInv, Believed
  <2>2. busy' = busy /\ arg \notin Range(articles) \ Broken
    BY <2>1 DEF StepSelect
  <2> QED BY <1>1, <2>1, <2>2 DEF ThrowsOnlyIf
<1> QED
  BY <1>1, <1>2, <1>3, <1>4
  DEF IInv, InRows, Believed, PageIsRight

LEMMA ReturnFromKeeps ==
  ASSUME IInv, NEW place \in {"locked", "read"},
         NEW result \in {"found", "not found"}, ReturnFrom(place, result)
  PROVE  IInv'
<1>1. /\ at = place /\ at' = result
      /\ stepped' = [stepped EXCEPT !["Select"] = FALSE]
      /\ UNCHANGED <<articles, bound, snapshot, arg, turn, page, busy, removed, misuse>>
  BY DEF ReturnFrom, Reset
<1>2. Types'
  BY <1>1 DEF IInv, Types, Places, Returned
<1>3. AllReset'
  BY <1>1 DEF IInv, Types, AllReset, Statements
<1> QED
  BY <1>1, <1>2, <1>3
  DEF IInv, InRows, Believed, PageIsRight, ThrowsOnlyIf

-----------------------------------------------------------------------------
(* GetArticles: n rows from the (f + 1)-th, as far as the table t reaches. *)
PageOf(t, f, n) ==
  SubSeq(t, f + 1, IF f + n < Len(t) THEN f + n ELSE Len(t))

LEMMA PageOfProperties ==
  ASSUME NEW S, NEW t \in Seq(S), NEW f \in Nat, NEW n \in Nat
  PROVE  /\ PageOf(t, f, n) \in Seq(S)
         /\ Len(PageOf(t, f, n)) \in Nat
         /\ Len(PageOf(t, f, n)) <= n
         /\ Len(PageOf(t, f, n)) > 0 => f + Len(PageOf(t, f, n)) <= Len(t)
         /\ Len(PageOf(t, f, n)) < n => Len(t) <= f + Len(PageOf(t, f, n))
         /\ \A i \in 1 .. Len(PageOf(t, f, n)) :
              PageOf(t, f, n)[i] = t[f + i] /\ f + i \in DOMAIN t
<1> DEFINE last == IF f + n < Len(t) THEN f + n ELSE Len(t)
           p == SubSeq(t, f + 1, last)
<1>1. PageOf(t, f, n) = p
  BY DEF PageOf
<1>2. Len(t) \in Nat /\ DOMAIN t = 1 .. Len(t)
  OBVIOUS
<1>3. /\ last \in Nat /\ last <= Len(t) /\ last <= f + n
      /\ last < f + n => Len(t) <= last
  <2>1. CASE f + n < Len(t)
    BY <1>2, <2>1
  <2>2. CASE ~(f + n < Len(t))
    BY <1>2, <2>2
  <2> QED BY <2>1, <2>2
<1> HIDE DEF last
<1>4. ASSUME NEW i \in f + 1 .. last PROVE t[i] \in S /\ i \in DOMAIN t
  <2>1. i \in 1 .. Len(t)
    BY <1>2, <1>3
  <2> QED BY <2>1, <1>2, ElementOfSeq
<1>5. /\ p \in Seq(S)
      /\ Len(p) = IF f + 1 <= last THEN last - (f + 1) + 1 ELSE 0
      /\ \A i \in 1 .. last - (f + 1) + 1 : p[i] = t[f + 1 + i - 1]
  BY <1>3, <1>4, SubSeqProperties
<1> HIDE DEF p
<1>6. Len(p) = IF f < last THEN last - f ELSE 0
  BY <1>3, <1>5
<1>7. ASSUME NEW i \in 1 .. Len(p)
      PROVE  p[i] = t[f + i] /\ f + i \in DOMAIN t
  <2>1. /\ i \in 1 .. last - (f + 1) + 1 /\ f + 1 + i - 1 = f + i
        /\ f + i \in f + 1 .. last
    BY <1>3, <1>6
  <2> QED BY <1>4, <1>5, <2>1
<1>8. /\ Len(p) \in Nat /\ Len(p) <= n
      /\ Len(p) > 0 => f + Len(p) <= Len(t)
      /\ Len(p) < n => Len(t) <= f + Len(p)
  <2>1. CASE f < last
    BY <2>1, <1>2, <1>3, <1>6
  <2>2. CASE ~(f < last)
    BY <2>2, <1>2, <1>3, <1>6
  <2> QED BY <2>1, <2>2
<1> QED BY <1>1, <1>5, <1>7, <1>8

(* Rows that agree with the table are the page, when nothing is left out. *)
LEMMA IsPageOf ==
  ASSUME NEW S, NEW t \in Seq(S), NEW f \in Nat, NEW n \in Nat, NEW p \in Seq(S),
         Len(p) <= n,
         Len(p) > 0 => f + Len(p) <= Len(t),
         Len(p) < n => Len(t) <= f + Len(p),
         \A i \in 1 .. Len(p) : p[i] = t[f + i]
  PROVE  p = PageOf(t, f, n)
<1> DEFINE q == PageOf(t, f, n)
<1>1. /\ q \in Seq(S) /\ Len(q) \in Nat /\ Len(q) <= n
      /\ Len(q) > 0 => f + Len(q) <= Len(t)
      /\ Len(q) < n => Len(t) <= f + Len(q)
      /\ \A i \in 1 .. Len(q) : q[i] = t[f + i]
  BY PageOfProperties
<1> HIDE DEF q
<1>2. Len(p) \in Nat /\ Len(t) \in Nat
  OBVIOUS
<1>3. Len(q) = Len(p)
  BY <1>1, <1>2
<1>4. p = q
  BY <1>1, <1>3, SeqEqual
<1> QED BY <1>4 DEF q

LEMMA RowsAre ==
  ASSUME Types
  PROVE  From \in Nat /\ Table \in Seq(Indices) /\ Rows = PageOf(Table, From, PageSize)
<1>1. bound["GetArticles"] \in int /\ int \subseteq Int
  BY DatabaseAssumption DEF Types, Statements, int
<1>2. From \in Nat
  <2>1. bound["GetArticles"] \in Int
    BY <1>1
  <2> QED BY <2>1 DEF From, Offset
<1> QED BY <1>2 DEF Types, Table, Rows, PageOf, From

(* The statement reads since it has found a row. *)
LEMMA ReadingIsFound ==
  ASSUME IInv, at = "rows"
  PROVE  /\ turn \in Nat /\ Len(page) \in Nat /\ busy \in Nat /\ PageSize \in Nat
         /\ turn = Len(page) + busy /\ page \in Seq(Indices)
         /\ Reading <=> page # <<>>
<1>1. /\ turn \in Nat /\ Len(page) \in Nat /\ busy \in Nat /\ PageSize \in Nat
      /\ turn = Len(page) + busy /\ page \in Seq(Indices)
  BY Bounds DEF IInv, Types, InRows
<1>2. Reading <=> Len(page) # 0
  BY <1>1 DEF Reading
<1> QED BY <1>1, <1>2, EmptySeq

(* What was found are the first rows of the page in the table it reads.    *)
LEMMA FoundInTable ==
  ASSUME IInv, at = "rows"
  PROVE  /\ page # <<>> => From + Len(page) <= Len(Table)
         /\ \A i \in 1 .. Len(page) : page[i] = Table[From + i]
<1>1. CASE Reading
  BY <1>1 DEF IInv, InRows, Table
<1>2. CASE ~Reading
  <2>1. page = <<>>
    BY <1>2, ReadingIsFound
  <2> QED BY <2>1
<1> QED BY <1>1, <1>2

(* A turn of the loop finds the next row, no row, or the file locked. *)
LEMMA StepRowsKeeps == IInv /\ StepRows => IInv'
<1> SUFFICES ASSUME IInv, StepRows PROVE IInv'
  OBVIOUS
<1>1. /\ at = "rows" /\ turn # PageSize
      /\ stepped' = [stepped EXCEPT !["GetArticles"] = TRUE]
      /\ UNCHANGED <<articles, bound, arg, removed, misuse>>
  BY DEF StepRows, LastTurn, Step
<1>2. /\ turn \in Nat /\ turn \in 0 .. PageSize /\ turn + 1 \in 0 .. PageSize
      /\ Len(page) \in Nat /\ busy \in Nat
      /\ turn = Len(page) + busy /\ PageSize \in Nat
      /\ page \in Seq(Indices)
  BY <1>1, ReadingIsFound DEF IInv, Types
<1>3. /\ ~misuse'
      /\ ~stepped'["SelectExists"] /\ ~stepped'["Select"]
      /\ stepped' \in [Statements -> BOOLEAN]
  BY <1>1 DEF IInv, AllReset, Types, Statements
<1>4. From' = From
  BY <1>1 DEF From
<1>5. /\ From \in Nat /\ Table \in Seq(Indices) /\ Len(Table) \in Nat
      /\ Len(Rows) \in Nat /\ Len(Rows) <= PageSize
      /\ Len(Rows) > 0 => From + Len(Rows) <= Len(Table)
      /\ Len(Rows) < PageSize => Len(Table) <= From + Len(Rows)
      /\ \A i \in 1 .. Len(Rows) :
           Rows[i] = Table[From + i] /\ From + i \in DOMAIN Table
  <2> DEFINE p == PageOf(Table, From, PageSize)
  <2>1. From \in Nat /\ Table \in Seq(Indices) /\ Rows = p
    BY RowsAre DEF IInv
  <2>2. /\ Len(p) \in Nat /\ Len(p) <= PageSize
        /\ Len(p) > 0 => From + Len(p) <= Len(Table)
        /\ Len(p) < PageSize => Len(Table) <= From + Len(p)
        /\ \A i \in 1 .. Len(p) :
             p[i] = Table[From + i] /\ From + i \in DOMAIN Table
    BY <2>1, <1>2, PageOfProperties
  <2> QED BY <2>1, <2>2
<1>6. /\ page # <<>> => From + Len(page) <= Len(Table)
      /\ \A i \in 1 .. Len(page) : page[i] = Table[From + i]
  BY <1>1, FoundInTable
<1>7. bound["GetArticles"] = Signed(arg * PageSize)
  BY <1>1 DEF IInv, InRows
<1>8. CASE /\ ~Reading /\ Locked /\ turn' = turn + 1
           /\ UNCHANGED <<snapshot, page, at>>
  <2>1. busy' \in 0 .. MaxBusy /\ busy' = busy + 1
    BY <1>8, BusyCounts DEF Locked, IInv
  <2>2. Types'
    BY <1>1, <1>2, <1>3, <1>8, <2>1 DEF IInv, Types
  <2>3. AllReset'
    BY <1>1, <1>3, <1>8 DEF AllReset
  <2>4. InRows'
    BY <1>1, <1>2, <1>4, <1>8, <2>1 DEF IInv, InRows
  <2> QED
    BY <1>1, <1>8, <2>2, <2>3, <2>4
    DEF IInv, Believed, PageIsRight, ThrowsOnlyIf
<1>9. CASE /\ Len(page) = Len(Rows) /\ at' = "last" /\ snapshot' = Table
           /\ UNCHANGED <<turn, page, busy>>
  <2>1. Types'
    BY <1>1, <1>3, <1>5, <1>9 DEF IInv, Types, Places, InProgress
  <2>2. AllReset'
    BY <1>3, <1>9 DEF AllReset
  <2>3. Len(Table) <= From + Len(page)
    BY <1>1, <1>2, <1>5, <1>9
  <2>4. InRows'
    BY <1>1, <1>2, <1>4, <1>6, <1>7, <1>9, <2>3 DEF InRows
  <2> QED
    BY <1>9, <2>1, <2>2, <2>4 DEF IInv, Believed, PageIsRight, ThrowsOnlyIf
<1>10. CASE /\ Len(page) < Len(Rows) /\ turn' = turn + 1 /\ snapshot' = Table
            /\ \/ /\ Rows[Len(page) + 1] \in Broken
                  /\ at' = "thrown" /\ page' = page
               \/ page' = Append(page, Rows[Len(page) + 1]) /\ at' = at
            /\ busy' = busy
  <2> DEFINE n == Len(page)
             row == Rows[n + 1]
  <2>1. /\ From + n + 1 <= Len(Table)
        /\ row = Table[From + n + 1] /\ From + n + 1 \in DOMAIN Table
        /\ row \in Indices
    <3>1. n + 1 \in 1 .. Len(Rows) /\ Len(Rows) > 0 /\ From + n + 1 = From + (n + 1)
      BY <1>2, <1>5, <1>10
    <3>2. row = Table[From + (n + 1)] /\ From + (n + 1) \in DOMAIN Table
      BY <1>5, <3>1
    <3> QED BY <1>2, <1>5, <1>10, <3>1, <3>2
  <2> HIDE DEF row
  <2>3. CASE row \in Broken /\ at' = "thrown" /\ page' = page
    <3>1. Types'
      BY <1>1, <1>2, <1>3, <1>5, <1>10, <2>3 DEF IInv, Types, Places, InProgress
    <3>2. row \in Range(snapshot')
      BY <1>10, <2>1 DEF Range
    <3>3. ThrowsOnlyIf'
      BY <2>3, <3>2 DEF ThrowsOnlyIf
    <3>4. AllReset'
      BY <1>3, <2>3 DEF AllReset
    <3> QED BY <2>3, <3>1, <3>3, <3>4 DEF IInv, InRows, Believed, PageIsRight
  <2>4. CASE page' = Append(page, row) /\ at' = at
    <3>1. /\ page' \in Seq(Indices) /\ Len(page') = n + 1 /\ page' # <<>>
          /\ \A i \in 1 .. n : page'[i] = page[i]
          /\ page'[n + 1] = row
      BY <1>2, <2>1, <2>4, AppendProperties
    <3>2. Types'
      <4>1. Len(page') <= PageSize
        BY <1>2, <1>5, <1>10, <3>1
      <4>2. /\ turn' \in 0 .. PageSize /\ snapshot' \in Seq(Indices)
            /\ busy' = busy /\ at' = at
        BY <1>2, <1>5, <1>10, <2>4
      <4> HIDE DEF n
      <4> QED BY <1>1, <1>3, <3>1, <4>1, <4>2 DEF IInv, Types
    <3>3. AllReset'
      BY <1>1, <1>3, <2>4 DEF AllReset
    <3>4. ASSUME NEW i \in 1 .. n + 1 PROVE page'[i] = Table[From + i]
      <4>1. CASE i \in 1 .. n
        BY <4>1, <3>1, <1>6
      <4>2. CASE i = n + 1
        <5>1. From + i = From + n + 1
          BY <4>2, <1>2, <1>5
        <5> QED BY <4>2, <5>1, <3>1, <2>1
      <4> QED BY <4>1, <4>2, <1>2
    <3>5. turn' = Len(page') + busy'
      BY <1>2, <1>10, <3>1
    <3>6. From + Len(page') <= Len(Table)
      BY <1>2, <1>5, <2>1, <3>1
    <3>7. InRows'
      BY <1>1, <1>4, <1>7, <1>10, <2>4, <3>1, <3>4, <3>5, <3>6 DEF InRows
    <3> QED
      BY <1>1, <2>4, <3>2, <3>3, <3>7 DEF IInv, Believed, PageIsRight, ThrowsOnlyIf
  <2> QED BY <1>10, <2>3, <2>4 DEF row
<1> QED BY <1>8, <1>9, <1>10 DEF StepRows

(* After the loop: what was found is the page, without as many rows as the *)
(* file was locked; and the statement is reset.                            *)
LEMMA ReturnPageKeeps == IInv /\ ReturnPage => IInv'
<1> SUFFICES ASSUME IInv, ReturnPage PROVE IInv'
  OBVIOUS
<1>1. /\ at \in {"rows", "last"}
      /\ at = "rows" => turn = PageSize
      /\ at' = "page"
      /\ stepped' = [stepped EXCEPT !["GetArticles"] = FALSE]
      /\ UNCHANGED <<articles, bound, snapshot, arg, turn, page, busy, removed, misuse>>
  BY DEF ReturnPage, LastTurn, Reset
<1>2. Types'
  BY <1>1 DEF IInv, Types, Places, Returned
<1>3. AllReset'
  BY <1>1 DEF IInv, Types, AllReset, Statements
<1>4. PageIsRight'
  <2> SUFFICES ASSUME arg * PageSize < Word \div 2
               PROVE  page = PageOf(snapshot, arg * PageSize, PageSize - busy)
    BY <1>1 DEF PageIsRight, PageOf
  <2>1. /\ Len(page) \in Nat /\ busy \in Nat /\ PageSize \in Nat /\ turn \in 0 .. PageSize
        /\ turn = Len(page) + busy
        /\ page \in Seq(Indices) /\ snapshot \in Seq(Indices)
    BY <1>1, Bounds DEF IInv, Types, InRows
  <2>2. From = arg * PageSize /\ From \in Nat
    <3>1. arg * PageSize \in Nat
      BY Bounds DEF IInv, Types
    <3>2. bound["GetArticles"] = arg * PageSize
      BY <1>1, <3>1, SmallIsSigned DEF IInv, InRows
    <3> QED BY <3>1, <3>2 DEF From, Offset
  <2>3. PageSize - busy \in Nat /\ Len(page) <= PageSize - busy
    BY <2>1
  <2>4. Len(page) > 0 => From + Len(page) <= Len(snapshot)
    BY <1>1, <2>1 DEF IInv, InRows
  <2>5. Len(page) < PageSize - busy => Len(snapshot) <= From + Len(page)
    BY <1>1, <2>1 DEF IInv, InRows
  <2>6. \A i \in 1 .. Len(page) : page[i] = snapshot[From + i]
    BY <1>1 DEF IInv, InRows
  <2>7. page = PageOf(snapshot, From, PageSize - busy)
    BY <2>1, <2>2, <2>3, <2>4, <2>5, <2>6, IsPageOf
  <2> QED BY <2>2, <2>7
<1> QED
  BY <1>1, <1>2, <1>3, <1>4
  DEF IInv, InRows, Believed, ThrowsOnlyIf

-----------------------------------------------------------------------------
LEMMA IsInductive == IInv /\ [Next]_dbVars => IInv'
<1> SUFFICES ASSUME IInv, [Next]_dbVars PROVE IInv'
  OBVIOUS
<1>1. ASSUME UNCHANGED dbVars PROVE IInv'
  BY <1>1
  DEF dbVars, IInv, Types, AllReset, InRows, From, Believed, PageIsRight, ThrowsOnlyIf
<1>2. ReturnLocked \/ ReturnArticle => IInv'
  BY ReturnFromKeeps DEF ReturnLocked, ReturnArticle
<1> QED
  BY <1>1, <1>2, EditorKeeps, GetArticleKeeps, GetArticlesKeeps, StepExistsKeeps,
     ReturnMissingKeeps, BindSelectKeeps, StepSelectKeeps, StepRowsKeeps,
     ReturnPageKeeps
  DEF Next

LEMMA Invariant == Spec => []IInv
BY IsInit, IsInductive, PTL DEF Spec

(* The variables have their types: what is bound is an int, and a page     *)
(* never has more than PageSize rows.                                      *)
THEOREM TypeCorrect == Spec => []TypeOK
<1>1. IInv => TypeOK
  BY DEF IInv, Types, Places, TypeOK
<1> QED BY <1>1, Invariant, PTL

(* Every bind finds its statement reset: a statement stays stepped until   *)
(* one of the five resets, and every early return, locked file and short   *)
(* page comes through one before the call returns; so the assertions hold. *)
THEOREM EveryBindSucceeds == Spec => []BindsSucceed
<1>1. IInv => BindsSucceed
  BY DEF IInv, AllReset, BindsSucceed
<1> QED BY <1>1, Invariant, PTL

(* GetArticles answers with the rows of its page in one state of the       *)
(* table, for every page size, table and page number below the int limit,  *)
(* and one row fewer for each time the file was locked.                    *)
THEOREM PageIsOfOneState == Spec => []PageIsRight
<1>1. IInv => PageIsRight
  BY DEF IInv
<1> QED BY <1>1, Invariant, PTL

(* Only a broken row, a row removed between the two queries of GetArticle, *)
(* or a locked file makes a request end the process.                       *)
THEOREM ThrowsHaveACause == Spec => []ThrowsOnlyIf
<1>1. IInv => ThrowsOnlyIf
  BY DEF IInv
<1> QED BY <1>1, Invariant, PTL
=============================================================================
