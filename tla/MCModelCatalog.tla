--------------------------- MODULE MCModelCatalog ---------------------------
(***************************************************************************)
(* ModelCatalog for TLC.  TwoSegmentIds has two providers with the same    *)
(* model name, that name on its own, and an unusable ID.  ThreeSegmentIds  *)
(* adds a provider prefix of its own to one of them.                       *)
(***************************************************************************)
EXTENDS ModelCatalog

TwoSegmentIds == {<<"a", "x">>, <<"b", "x">>, <<"x">>, <<"bad id">>}
ThreeSegmentIds == {<<"a", "x">>, <<"b", "x">>, <<"c", "a", "x">>}
UnusableIds == {<<"bad id">>}
BuiltIn == {<<"a", "x">>}
=============================================================================
