---------------------------- MODULE MCGenlClient ----------------------------
(* GenlClient for TLC: every combination of the optional arguments. *)
EXTENDS GenlClient

MCFwdOpts == {"o_teid", "peer_ipv4"}
MCPdrOpts == {"outer_header_removal", "ue_addr_ipv4", "i_teid", "gtpu_addr_ipv4", "src_intf"}
=============================================================================
