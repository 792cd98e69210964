---------------------------- MODULE MCClientSession ----------------------------
EXTENDS ClientSession
CONSTANTS ann, bob, mine, theirs
=============================================================================
