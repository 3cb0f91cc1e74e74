------------------------ MODULE MCTrackerNodesManager ------------------------
EXTENDS TrackerNodesManager
CONSTANTS n1, n2, k1

\* Two connections of one peer.
MCKeyOf == [m \in Node |-> k1]
MCAddressOf == [m \in Node |-> "ip"]
=============================================================================
