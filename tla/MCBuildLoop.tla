----------------------------- MODULE MCBuildLoop -----------------------------
EXTENDS BuildLoop

\* A message fits into the prompt alone; with another it does not.
MCSize == [m \in Msgs |-> IF m = 2 THEN 2 ELSE 1]
=============================================================================
