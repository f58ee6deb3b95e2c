--------------------------- MODULE MCFileWatcher ---------------------------
EXTENDS FileWatcher
=============================================================================
