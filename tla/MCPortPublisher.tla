---------------------------- MODULE MCPortPublisher ----------------------------
(* Two clients of one port; or two ports, one of which has a client.         *)
EXTENDS PortPublisher
CONSTANTS c1, c2
MCClients == {c1, c2}
MCWorlds == {[devices |-> {1}, calls |-> MCClients \X {1}],
             [devices |-> {1, 2}, calls |-> {<<c1, 1>>}]}
=============================================================================
