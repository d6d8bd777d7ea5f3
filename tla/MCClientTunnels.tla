-------------------------- MODULE MCClientTunnels ---------------------------
(* Instances of ClientTunnels: two local ports.                              *)
EXTENDS ClientTunnels, TLC

CONSTANTS ta, tb

\* A remote as DecodeRemote returns it.
Remote(p, t) == [lport |-> p, target |-> t, random |-> FALSE]

\* A tunnel on a random port; one more on a port of its own, which the random one may take first.
MCRemoteLists == {<<Remote(NoPort, ta)>>, <<Remote(NoPort, ta), Remote(1, ta)>>}
MCPutRemotes == {Remote(NoPort, tb)}
\* The requests differ in nothing.
RequestSymmetry == Permutations(Requests)
=============================================================================
