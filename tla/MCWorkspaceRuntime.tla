------------------------- MODULE MCWorkspaceRuntime -------------------------
(* Two workspaces, of which one has never been bound, and a few threads.     *)
EXTENDS WorkspaceRuntime

CONSTANTS first, second, t1, t2

MCWorkspace == {first, second}
TwoThreads == {t1, t2}
=============================================================================
