----------------------------- MODULE MCJournal -----------------------------
EXTENDS Journal

CONSTANTS t1, t2
=============================================================================
