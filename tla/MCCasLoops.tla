------------------------------ MODULE MCCasLoops ------------------------------
EXTENDS CasLoops
CONSTANTS r1, r2, r3
================================================================================
