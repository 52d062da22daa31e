------------------------------ MODULE MCClient ------------------------------
EXTENDS Client

\* No resource, one, two, and two lists with one in common.
SomeLists == {<<>>, <<"b">>, <<"a", "b">>}
=============================================================================
