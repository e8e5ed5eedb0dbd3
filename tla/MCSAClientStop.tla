--------------------------- MODULE MCSAClientStop ---------------------------
(* The two threads of Application/CAgent/cagent.c that call the API: the   *)
(* service thread initialises and, in CAgentStop, uninitialises before it  *)
(* joins the thread that runs ConnectThreadStart.                          *)
EXTENDS SAClient

CONSTANTS service, connector

AgentCalls == {<<service, "initialize">>, <<service, "uninitialize">>,
               <<connector, "connect">>}
=============================================================================
