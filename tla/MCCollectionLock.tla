--------------------------- MODULE MCCollectionLock ---------------------------
\* A small instance of CollectionLock for TLC: MCLockPool.cfg gives the processes.
EXTENDS CollectionLock
=============================================================================
