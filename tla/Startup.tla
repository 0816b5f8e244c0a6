------------------------------ MODULE Startup ------------------------------
(***************************************************************************)
(* What the parent sets up before it serves, side by side: the domains and *)
(* routes of the configuration (src/config.c, src/python.c) and the        *)
(* listening sockets (src/kore.c).                                         *)
(***************************************************************************)
EXTENDS Config, Listeners

StartupSpec == ConfigSpec /\ ListenersSpec

\* A configuration that is accepted is complete and its Python routes do not
\* claim one method of one path twice; the socket file of a listener that a
\* running parent has is in the file system, whoever ends.
ServersReady == ConfigComplete /\ RoutesApart /\ SocketsReachable
=============================================================================
