---------------------------- MODULE MCDhcpClient ----------------------------
(* DhcpClient with MAX_DHCP_TRIES cut to one, so that a wait can time out.    *)
EXTENDS DhcpClient
=============================================================================
