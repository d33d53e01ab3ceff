----------------------------- MODULE MCExposure -----------------------------
(* Two servers for the run: of two names, or of one in two namespaces.      *)
EXTENDS Exposure

MCServers == 1..2
MCNames == [s \in MCServers |-> s]
MCSameName == [s \in MCServers |-> "survival"]
MCEggPorts == {{"game"}, {"game", "voice"}}
MCExtras == {{}, {"voice"}}

(* What the code does not keep, see the README's known divergences: no run  *)
(* checks it, and TLC refutes it for servers of one name (MCSameName).      *)

(* status.publicExposure reports where a server is publicly reachable       *)
(* (api/v1alpha1/gameserver_types.go:124): once settled, each port it       *)
(* reports is that of the listener its route attaches to.                   *)
Reachable ==
  Settled =>
    \A s \in Servers, p \in PortNames :
      gs[s].exists /\ gs[s].cond = "Allocated" /\ gs[s].ports[p] # Unset =>
        routeName(s, p) \in DOMAIN gw /\ gw[routeName(s, p)] = gs[s].ports[p]
=============================================================================
