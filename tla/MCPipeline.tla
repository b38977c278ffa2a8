------------------------------ MODULE MCPipeline ------------------------------
EXTENDS Pipeline

CONSTANTS t1, t2

TwoThreads == {t1, t2}

=============================================================================
