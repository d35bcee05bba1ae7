---------------------------- MODULE MCDbiManager ----------------------------
EXTENDS DbiManager

\* Two table sizes, and one the allocator cannot provide.
SomeTooLarge == {1, 2, 9}
=============================================================================
