--------------------------- MODULE MCImapSession ---------------------------
EXTENDS ImapSession

\* Folder names that differ in more than case.
OwnNames == [f \in Folders |-> f]

\* A server with every extension and one without COMPRESS; one without
\* NAMESPACE (with which login() lists folders instead).
TwoServers == {Features, Features \ {"CompressDeflate"}}
OldServer == {Features \ {"Namespace"}}
=============================================================================
