---- MODULE MCFetchLoop ----
EXTENDS FetchLoop

\* Everything, the default, one row, and more than one.
SomeRequests == {-1, 0, 1, 3}
====
