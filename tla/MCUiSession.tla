---- MODULE MCUiSession ----
EXTENDS UiSession, TLC
CONSTANTS s1, s2
MCUploads == Sessions \X (1 .. MaxUploads)
MCActs == [s \in Sessions |-> IF s = s1 THEN 2 ELSE 1]
====
