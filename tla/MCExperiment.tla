---------------------------- MODULE MCExperiment ----------------------------
EXTENDS Experiment

\* No block, a fast one, one that takes three times as long.
MCWalls == {0, 1, 3}
=============================================================================
