------------------------------- MODULE MCChat -------------------------------
(* Small instance of Chat: rows of up to three pieces around calls of f and g,
   among them a call without a name, one with a parameter twice, and one whose
   value has a quote. *)
EXTENDS Chat

Param(n, v) == [name |-> <<n>>, value |-> v]
CallF == Call(<<"f">>, <<Param("x", <<"a">>), Param("y", <<"a", "n">>)>>)
CallG == Call(<<"g">>, <<>>)
Twice == Call(<<"g">>, <<Param("x", <<"a">>), Param("x", <<"n">>)>>)
Quoted == Call(<<"g">>, <<Param("x", <<"a", "QUOTE", "n">>), Param("y", <<"NEWLINE", "BACKSLASH">>)>>)
Unnamed == Call(<<>>, <<Param("x", <<"a">>)>>)

SomeScripts == {<<Prose>>, <<Prose, CallF>>, <<CallF, CallG, Twice>>, <<Twice, Prose>>,
                <<Unnamed, CallG>>, <<Stray, CallF>>, <<CallG, Stray, CallG>>, <<Quoted>>}
=============================================================================
