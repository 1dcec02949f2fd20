---------------------------- MODULE MCBackupCoord ----------------------------
EXTENDS BackupCoord, TLC

\* Processes are interchangeable; runs are not, they are ordered.
MCSymmetry == Permutations(Nodes)
=============================================================================
