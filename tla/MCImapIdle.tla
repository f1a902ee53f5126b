----------------------------- MODULE MCImapIdle -----------------------------
EXTENDS ImapIdle
=============================================================================
