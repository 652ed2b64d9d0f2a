------------------------------ MODULE MCBroker ------------------------------
(* Instances of Broker for TLC. *)
EXTENDS Broker

\* Two starts at once, a start and a stop, a local command beside a broker, and two stops
\* of a broker that died.
MCScripts ==
    {[commands |-> <<"up", "up">>, kills |-> 1], [commands |-> <<"up", "down">>, kills |-> 1],
     [commands |-> <<"up", "run">>, kills |-> 1], [commands |-> <<"down", "down">>, kills |-> 0]}
=============================================================================
