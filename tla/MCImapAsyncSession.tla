------------------------- MODULE MCImapAsyncSession -------------------------
EXTENDS ImapAsyncSession
=============================================================================
