-------------------------- MODULE MCResponseGenerator --------------------------
(***************************************************************************)
(* Files, services and requests for TLC.  The page for 404 comes in two    *)
(* sizes, in two locations, and either may fail to load.  For every        *)
(* modulus "cA" has the hash of "bb", 33 * 99 + 65 = 33 * 98 + 98: it is   *)
(* no service, and neither finds a file of its own beside the other.  One  *)
(* file is empty, and two are smaller than the headers of their answers.   *)
(***************************************************************************)
EXTENDS ResponseGenerator

File(d, name, size) == [name |-> name, dir |-> d, size |-> size]

MCIndexPage == <<105, 46>>
MCNotFoundPage == <<52, 46>>
page == <<97, 46>>
twin == <<98, 98, 46>>
other == <<99, 65, 46>>

MCDirectories ==
  <<{File(1, MCIndexPage, 300), File(1, MCNotFoundPage, 500)},
    {File(2, page, 20), File(2, twin, 30)},
    {File(3, MCNotFoundPage, 2000), File(3, page, 700), File(3, other, 0)}>>

MCServiceNames == [GetArticle |-> <<103>>, GetArticleList |-> <<98, 98>>]

MCDests ==
  {<<>>, <<103>>, <<98, 98>>, <<99, 65>>, <<120>>, page, <<122, 46>>,
   MCNotFoundPage, twin, other}

MCContentTypeSize(dest) == IF dest = <<>> THEN 9 ELSE 16
=============================================================================
