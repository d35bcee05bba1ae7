---- MODULE MCConnect ----
EXTENDS Connect

\* A connection over TCP with a timeout, and the callers that differ from it.
Usual == [sslmode |-> "prefer", unix |-> FALSE, password |-> TRUE, appname |-> TRUE,
          timeout |-> TRUE, encoding |-> FALSE, settings |-> 0, async |-> FALSE, resets |-> 0]
SomeOptions ==
  {Usual,
   [Usual EXCEPT !.sslmode = "allow"],
   [Usual EXCEPT !.sslmode = "disable", !.appname = FALSE, !.encoding = TRUE, !.settings = 1],
   [Usual EXCEPT !.sslmode = "require", !.password = FALSE],
   [Usual EXCEPT !.unix = TRUE, !.timeout = FALSE],
   [Usual EXCEPT !.async = TRUE, !.timeout = FALSE, !.appname = FALSE],
   [Usual EXCEPT !.sslmode = "require", !.async = TRUE, !.timeout = FALSE, !.appname = FALSE,
                 !.password = FALSE, !.resets = 1]}
====
