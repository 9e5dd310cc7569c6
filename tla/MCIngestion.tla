----------------------------- MODULE MCIngestion -----------------------------
EXTENDS Ingestion
CONSTANTS c1, c2, w1, w2
=============================================================================
