------------------------------- MODULE MCOta -------------------------------
EXTENDS Ota

\* Rom 0 in sectors 2 and 3, the configuration in 4, rom 1 in 5 and 6, and the
\* sector behind it.
MCRomSector == [s \in {0, 1} |-> IF s = 0 THEN 2 ELSE 5]
=============================================================================
