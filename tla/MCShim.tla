------------------------------- MODULE MCShim -------------------------------
EXTENDS Shim

CONSTANTS v1, v2, plain, omits, bad
=============================================================================
