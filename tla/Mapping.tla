------------------------------- MODULE Mapping -------------------------------
(***************************************************************************)
(* The addresses of a socket (src/crust/src/net/nat): those of the host's   *)
(* interfaces, and those that gateways (IGD) and peers (the stun protocol,  *)
(* which echoes the address a request comes from) report in time. An        *)
(* address is an ip and a port.                                             *)
(***************************************************************************)
CONSTANTS
  Interfaces,        \* the ips of our_ifv4s
  GlobalIps,         \* ips for which ip_addr_is_global holds
  ForceIncludePort   \* force_acceptor_port_in_ext_ep

Address(ip, port) == [ip |-> ip, port |-> port]

\* expand_unspecified_addr, of 0.0.0.0 and a port.
Expanded(port) == {Address(ip, port) : ip \in Interfaces}

\* With force_include_port a global address is taken to forward our own port, too.
Forced(port, reports) ==
  IF ForceIncludePort THEN {Address(r.ip, port) : r \in {x \in reports : x.ip \in GlobalIps}}
  ELSE {}

\* mapped_tcp_socket, when these have reported within the three seconds.
SocketAddresses(port, reports) == Expanded(port) \union Forced(port, reports) \union reports
=============================================================================
