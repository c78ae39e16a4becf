---------------------------- MODULE MCTxPipeline ----------------------------
EXTENDS TxPipeline

\* Three batches: one iteration may take burners of all of them.
MCStock == <<<<1>>, <<2, 3>>, <<4, 5>>>>
=============================================================================
