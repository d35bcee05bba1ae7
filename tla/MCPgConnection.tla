---- MODULE MCPgConnection ----
EXTENDS PgConnection

\* One statement of each kind, and strings that end, or begin, with a COPY.
SomeQueries ==
  {<<"select">>, <<"command">>, <<"copyin">>, <<"copyout">>,
   <<"copyin", "select">>, <<"copyin", "copyin">>,
   <<"command", "copyin">>}
====
