----------------------- MODULE MCInMemorySessionStore -----------------------
\* InMemorySessionStore for TLC.
EXTENDS InMemorySessionStore
=============================================================================
