---------------------------- MODULE MCCdRead -------------------------------
\* CdRead for TLC: a file of nine sectors with the boot stage behind the fourth,
\* a CDC buffer of three, and up to five losses in each reading.
EXTENDS CdRead

MCTotal    == 9
MCInterior == 1 .. MCTotal - 2   \* any sector but the first and the last
=============================================================================
