-------------------------- MODULE MCInitCredsStep --------------------------
(***************************************************************************)
(* Instance of InitCredsStep for TLC: two realms, a caller with and        *)
(* without a service name, postdating and renewal choices, the encrypted- *)
(* timestamp (2) and PKINIT (16) pre-auth types.                           *)
(***************************************************************************)
EXTENDS InitCredsStep

MCInt32Min == -101
MCRealms == {"A", "B"}
MCServices == {NULL, <<"host", "h">>}
MCKdcHints == {<<2>>, <<16>>, <<2, 16>>}
MCPreferred == <<Num(17), Num(16), Num(15), Num(14)>>
MCPreauthLists == {NULL, <<2, 16>>}

=============================================================================
