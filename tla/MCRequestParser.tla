---------------------------- MODULE MCRequestParser ----------------------------
(***************************************************************************)
(* Requests for TLC: names with directories, extensions and characters of  *)
(* a query, queries and headers with repeated, empty and odd parts.        *)
(***************************************************************************)
EXTENDS RequestParser

MCNames ==
  {<<>>, <<"a">>, <<"a", ".", "js">>, <<"d", "/", "a">>, <<"a", "=", "b">>,
   <<"a", "?", "b">>}

MCQueries ==
  {<<>>,
   << <<<<"k">>, <<"v">>>> >>,
   << <<<<"k">>, <<"v">>>>, <<<<"k">>, <<"w">>>> >>,
   << <<<<"k">>, <<>>>>, <<<<"l">>, <<"w">>>>, <<<<"m">>, <<"v">>>> >>,
   << <<<<"k">>, <<"v", "=", "w">>>>, <<<<"l">>, <<"/">>>> >>,
   << <<<<>>, <<"v">>>>, <<<<"l">>, <<"?", "w">>>> >>}

MCHeaderLists ==
  LET host == <<<<"H">>, <<"x", ":", "p">>>>
      lang == <<<<"L">>, <<"y">>>>
      void == <<<<"V">>, <<>>>>
      more == <<<<"L">>, <<"z">>>>
  IN {<<>>, <<host>>, <<host, lang>>, <<lang, host, void>>,
      <<host, void, lang, more>>, <<host, lang, void, more>>,
      <<lang, more, host>>}
=============================================================================
