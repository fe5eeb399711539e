------------------------------ MODULE MCCliSemHistory ------------------------------
(* CliSemHistory with the tasks of wifi_cli_micriumos: the events task resumes the   *)
(* CLI for the indications, the TCP/IP thread for event 0, the end of iperf.  *)
EXTENDS CliSemHistory, TLC

CONSTANTS events_task, tcpip_thread, disconnect, iperf_done

MCPosts == (events_task :> {disconnect}) @@ (tcpip_thread :> {iperf_done})
=============================================================================
