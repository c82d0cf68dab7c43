--------------------------- MODULE MCScoreCalculator ---------------------------
EXTENDS ScoreCalculator
================================================================================
