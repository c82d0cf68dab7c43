----------------------------- MODULE MCAsyncLogger -----------------------------
EXTENDS AsyncLogger
CONSTANTS g1, g2
================================================================================
