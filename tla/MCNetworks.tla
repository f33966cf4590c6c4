------------------------------ MODULE MCNetworks ------------------------------
(***************************************************************************)
(* The networks for TLC: the reconnecting decorator, the peers over        *)
(* in-memory networks, and the adapters over WebSockets.  They share no    *)
(* state, so a behaviour picks one, and the others stay in their initial   *)
(* states.                                                                 *)
(***************************************************************************)
EXTENDS ReconnectingNetwork, PeerNetwork, WebSocketNetworks, TLC

CONSTANTS
    p1, p2, p3, main, backup,
    MaxActivity     \* bound on the pairs, packets and deaths of the peers together

VARIABLE layer

\* A composite of an owned main and a borrowed backup.
Kinds == main :> "owned" @@ backup :> "browser"

NetworksInit ==
    /\ layer \in {"reconnecting", "peers", "websockets"}
    /\ Init /\ PeerInit /\ WebSocketInit
    /\ layer # "reconnecting" => state[0] = "open"
    /\ hears = {p1, p2}     \* p3 has no message listener
    /\ layer # "websockets" => \A n \in Networks : ws[n] = "open"
    /\ layer # "websockets" => untimed = {}

NetworksNext ==
    /\ UNCHANGED layer
    /\ \/ layer = "reconnecting" /\ Next /\ UNCHANGED <<peerVars, wsVars>>
       \/ layer = "peers" /\ PeerNext /\ UNCHANGED <<vars, wsVars>>
          /\ packets' + deaths' + Cardinality(Pairs \ Unmade') <= MaxActivity
       \/ layer = "websockets" /\ WebSocketNext /\ UNCHANGED <<vars, peerVars>>

networksVars == <<layer, vars, peerVars, wsVars>>

\* Only the reconnecting network is held to fairness.
NetworksSpec ==
    /\ NetworksInit /\ [][NetworksNext]_networksVars
    /\ layer = "reconnecting" => Fairness

\* The state of every layer is of its type.
NetworksTypeOK == TypeOK /\ PeerTypeOK /\ WebSocketTypeOK
=============================================================================
