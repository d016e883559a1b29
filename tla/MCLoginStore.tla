---------------------------- MODULE MCLoginStore ----------------------------
(* LoginStore with short times, four entries and one refreshing process.   *)
EXTENDS LoginStore

MCKeys == {<<"a", "">>, <<"a", "x">>, <<"a", "y">>, <<"b", "">>}
=============================================================================
