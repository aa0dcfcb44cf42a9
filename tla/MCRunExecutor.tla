---------------------------- MODULE MCRunExecutor ----------------------------
EXTENDS RunExecutor, TLC

CONSTANT t1

=============================================================================
