---- MODULE MCTraining ----
EXTENDS Training, TLC
====
