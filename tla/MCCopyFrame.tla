---- MODULE MCCopyFrame ----
EXTENDS CopyFrame

\* Empty, short, of just the threshold and just below, and longer than the buffer.
SomeLengths == {0, 1, 3, 4, 11}

\* Escaped columns that fit the buffer as it starts, just fit it, and overrun it
\* unless a string made it grow before.
SomeRawTexts == {2, 4, 5, 10}
====
