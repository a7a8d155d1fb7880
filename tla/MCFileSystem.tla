---------------------------- MODULE MCFileSystem ----------------------------
EXTENDS FileSystem, TLC

Names == Permutations(Name)
=============================================================================
