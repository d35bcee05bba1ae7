---- MODULE MCCopyText ----
EXTENDS CopyText

\* The separators, the backslash, and letters that mean something after one.
SomeChars == {"\\", "\t", "\n", "n", "N"}
====
