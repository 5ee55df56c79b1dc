------------------------------- MODULE MCLog --------------------------------
EXTENDS Log

\* Two blocks of the file system, operations that write both, and a log with room
\* for them.
MCHomes  == {"h1", "h2"}
MCLog    == <<"l1", "l2", "l3">>
MCBlocks == MCHomes \cup {"l1", "l2", "l3", "head"}
MCWrites == {<<"h1", "h2">>}

\* The proportions of param.h and mkfs.c, with operations of one block: LOGSIZE and NBUF
\* are 3 * MAXOPBLOCKS, and the log on disk has LOGSIZE blocks, its header included.
SmallHomes  == {"h1", "h2", "h3"}
SmallLog    == <<"l1", "l2">>
SmallBlocks == SmallHomes \cup {"l1", "l2", "head"}
SmallWrites == {<<"h1">>, <<"h2">>, <<"h3">>}
=============================================================================
