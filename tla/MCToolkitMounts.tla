--------------------------- MODULE MCToolkitMounts ---------------------------
EXTENDS ToolkitMounts

\* A complete card, a card whose payload is checked by nothing in /etc and
\* carries no workspace, and a card with two payloads and no checksum file.
MCContents ==
    {[payloads |-> 1, workspace |-> TRUE,  sidecar |-> "v1", recorded |-> "v1"],
     [payloads |-> 1, workspace |-> FALSE, sidecar |-> "v2", recorded |-> None],
     [payloads |-> 2, workspace |-> FALSE, sidecar |-> None, recorded |-> "v1"]}
=============================================================================
