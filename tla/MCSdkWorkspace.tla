--------------------------- MODULE MCSdkWorkspace ---------------------------
(* The setups that share the workspace, and where they may be stopped.     *)
EXTENDS SdkWorkspace

AllCommands == [goal : Goals, force : BOOLEAN]

Any == [c \in Commands |-> Commands]
Everywhere == [c \in Commands |-> Points \ {"idle"}]

\* The SDK is exported and workspace.json does not say "built" yet.
UnwrittenState == [c \in Commands |-> {"state"}]
=============================================================================
