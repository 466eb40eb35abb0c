---------------------------- MODULE MCFsAtomicWrite ----------------------------
EXTENDS FsAtomicWrite, TLC

CONSTANTS short, long    \* two data

LengthOf == short :> 1 @@ long :> 2
===============================================================================
