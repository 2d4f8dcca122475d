---------------------------- MODULE MCMcpServer ----------------------------
(* Two archives; for one of them a sidecar that names it, one that names     *)
(* none and one of another version. The server packs strictly and not; the   *)
(* command line with a named sidecar, with one it finds and with none, once  *)
(* also strictly what is no archive.                                         *)
EXTENDS McpServer

CONSTANTS d1, d2, json, cbor

MCCandidate == <<json, cbor>>

MCDoc ==
    {[for |-> d1, digest |-> d1, hints |-> {}, manifest |-> "supported"],
     [for |-> d1, digest |-> None, hints |-> {"plain"}, manifest |-> "none"],
     [for |-> d1, digest |-> d1, hints |-> {}, manifest |-> "other"]}

Ask(aicx) == [via |-> "mcp", aicx |-> aicx, named |-> TRUE, sidecar |-> None,
              strict |-> FALSE]
MCRequest ==
    {Ask(TRUE), Ask(FALSE)} \union
    {[via |-> "cli", aicx |-> FALSE, named |-> named, sidecar |-> file, strict |-> strict] :
        named \in BOOLEAN, file \in {cbor, None}, strict \in BOOLEAN}

MCLine ==
    [kind : {"blank", "noise", "binary", "initialized", "unknown"},
     asks : {FALSE}, r : {None}]
    \union [kind : {"plain", "unknown", "tool"}, asks : {TRUE}, r : {None}]
    \union [kind : {"pack"}, asks : {TRUE}, r : {Ask(TRUE), Ask(FALSE)}]
=============================================================================
