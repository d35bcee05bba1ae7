------------------------------ MODULE MCPgResult ------------------------------
EXTENDS PgResult, TLC

CONSTANTS x, y

TwoVariables == Permutations({x, y})
=============================================================================
