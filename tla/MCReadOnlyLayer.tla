--------------------------- MODULE MCReadOnlyLayer ---------------------------
(* A small instance of ReadOnlyLayer for TLC: an answer of mcp_status either *)
(* calls for some denies or, with no server connected, for none.             *)
EXTENDS ReadOnlyLayer

MCLists == {"writes"}
MCOwnModes == {"ask", "readonly"}
=============================================================================
