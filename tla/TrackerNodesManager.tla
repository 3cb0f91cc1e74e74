------------------------- MODULE TrackerNodesManager -------------------------
(***************************************************************************)
(* The nodes a tracker knows (tracker/trackerNodesManager.cpp,             *)
(* common/nodesManager.cpp) and the threads that use them.                 *)
(*                                                                         *)
(* The action loop asks for the mediums of a filter while it holds         *)
(* CActionHandler::m_mutex, and changes the tables from the reactions of   *)
(* its actions, where it holds nothing.  The socket thread deletes the     *)
(* medium of a closed connection and reports its peer inactive, all under  *)
(* CTrackerNodesManager::m_lock.  The message thread adds mediums.         *)
(* m_networkTrackers, m_trackers, m_activeNodes, m_keyStore and            *)
(* m_ptrToNodes are also read with no lock at all, so that each access     *)
(* of eraseMedium and of getNodesByClass is a step.                        *)
(***************************************************************************)
CONSTANTS
    Node, KeyOf, AddressOf,   \* connections; the public key and the IP of the peer
    NoNode, NoKey

Key == {KeyOf[m] : m \in Node}
Address == {AddressOf[m] : m \in Node}
Role == {"Tracker", "Monitor"}

VARIABLES
    live,         \* CSelfNode objects of the socket thread
    ptrToNodes,   \* m_ptrToNodes: connections that have a medium
    keyStore,     \* m_keyStore: the key of an IP, or NoKey
    keyToNode,    \* m_pubKeyToNodeIndicator, or NoNode
    activeNodes,  \* m_activeNodes
    known,        \* m_trackers and m_monitors
    network,      \* m_networkTrackers and m_networkMonitors
    connected,    \* CController::m_connected
    identified,   \* connections whose CConnectNodeAction verified the peer
    reported,     \* keys of the Inactive actions that were started
    lock, mutex,  \* who holds m_lock and CActionHandler::m_mutex
    loop,         \* the action loop: what it is doing, for which key and connection
    socket        \* the socket thread: what it is doing, for which connection and key

tables == <<ptrToNodes, keyStore, keyToNode, activeNodes>>
lists == <<known, network, connected, identified>>
vars == <<live, tables, lists, reported, lock, mutex, loop, socket>>

Thread == {"loop", "socket"}

TypeOK ==
    /\ live \subseteq Node /\ ptrToNodes \subseteq Node /\ identified \subseteq Node
    /\ keyStore \in [Address -> Key \cup {NoKey}]
    /\ keyToNode \in [Key -> Node \cup {NoNode}]
    /\ activeNodes \subseteq Key /\ reported \subseteq Key
    /\ known \in [Role -> SUBSET Key] /\ network \in [Role -> SUBSET Key]
    /\ connected \in BOOLEAN
    /\ lock \in Thread \cup {"free"} /\ mutex \in Thread \cup {"free"}
    /\ loop \in [pc : {"react", "keyToNode", "activate", "collect", "class", "key", "find",
                       "failed"},
                 todo : SUBSET Key, key : Key \cup {NoKey}, node : Node \cup {NoNode}]
    /\ socket \in [pc : {"idle", "delete", "keys", "report"},
                   node : Node \cup {NoNode}, key : Key \cup {NoKey}]

Loop(pc, todo, k, n) == [pc |-> pc, todo |-> todo, key |-> k, node |-> n]
Socket(pc, n, k) == [pc |-> pc, node |-> n, key |-> k]
React == Loop("react", {}, NoKey, NoNode)
Collect == Loop("collect", {}, NoKey, NoNode)
Idle == Socket("idle", NoNode, NoKey)

Init ==
    /\ live = {} /\ ptrToNodes = {} /\ identified = {}
    /\ keyStore = [d \in Address |-> NoKey] /\ keyToNode = [k \in Key |-> NoNode]
    /\ activeNodes = {} /\ reported = {}
    /\ known = [r \in Role |-> {}] /\ network = [r \in Role |-> {}]
    /\ connected = FALSE
    /\ lock = "free" /\ mutex = "free"
    /\ loop = React /\ socket = Idle

-----------------------------------------------------------------------------
(* Connections: the socket thread makes one, the message thread gives it a *)
(* medium, a handshake verifies the peer.                                  *)

Connect(n) ==
    /\ n \notin live /\ socket.node # n
    /\ live' = live \cup {n}
    /\ UNCHANGED <<tables, lists, reported, lock, mutex, loop, socket>>

\* processMessage and CBothUnidentifiedConnecting: m_nodesLock guards this alone.
AddNode(n) ==
    /\ n \in live /\ n \notin ptrToNodes
    /\ ptrToNodes' = ptrToNodes \cup {n}
    /\ UNCHANGED <<live, keyStore, keyToNode, activeNodes, lists, reported, lock, mutex,
                   loop, socket>>

\* setPublicKey takes no lock, compares IPs only and replaces nothing.  The passive
\* side runs it in the message thread, the other in the loop.
SetPublicKey(n) ==
    /\ n \in ptrToNodes /\ n \notin identified
    /\ keyStore' = [keyStore EXCEPT ![AddressOf[n]] = IF @ = NoKey THEN KeyOf[n] ELSE @]
    /\ identified' = identified \cup {n}
    /\ UNCHANGED <<live, ptrToNodes, keyToNode, activeNodes, known, network, connected,
                   reported, lock, mutex, loop, socket>>

-----------------------------------------------------------------------------
(* eraseMedium in the socket thread, with m_lock held from end to end.     *)

\* Without a medium there is nothing to do.
EraseMedium(n) ==
    /\ n \in live /\ socket = Idle /\ lock = "free"
    /\ live' = live \ {n}
    /\ IF n \in ptrToNodes
       THEN lock' = "socket" /\ socket' = Socket("delete", n, NoKey)
       ELSE UNCHANGED <<lock, socket>>
    /\ UNCHANGED <<tables, lists, reported, mutex, loop>>

\* common::CNodesManager::eraseMedium, then getPublicKey: a peer that is not
\* identified is not reported.
DeleteMedium ==
    /\ socket.pc = "delete"
    /\ ptrToNodes' = ptrToNodes \ {socket.node}
    /\ LET k == keyStore[AddressOf[socket.node]]
       IN  IF k = NoKey
           THEN socket' = Idle /\ lock' = "free"
           ELSE socket' = Socket("keys", socket.node, k) /\ lock' = lock
    /\ UNCHANGED <<live, keyStore, keyToNode, activeNodes, lists, reported, mutex, loop>>

EraseKeys ==
    /\ socket.pc = "keys"
    /\ keyToNode' = [keyToNode EXCEPT ![socket.key] = NoNode]
    /\ activeNodes' = activeNodes \ {socket.key}
    /\ keyStore' = [keyStore EXCEPT ![AddressOf[socket.node]] = NoKey]
    /\ socket' = [socket EXCEPT !.pc = "report"]
    /\ UNCHANGED <<live, ptrToNodes, lists, reported, lock, mutex, loop>>

\* executeAction waits for m_mutex, and m_lock is still held.
ReportInactive ==
    /\ socket.pc = "report" /\ mutex = "free"
    /\ reported' = reported \cup {socket.key}
    /\ socket' = Idle /\ lock' = "free"
    /\ UNCHANGED <<live, tables, lists, mutex, loop>>

-----------------------------------------------------------------------------
(* Reactions of actions, in the loop, outside m_mutex.  Each call takes    *)
(* m_lock and gives it back.                                               *)

Reacting == loop = React /\ lock = "free"

\* CGetNetworkInfo: setNodeInfo, setKeyToNode, which replaces nothing, and
\* setActiveNode, for a connection that may be gone by now.
SetNodeInfo(n, r) ==
    /\ Reacting /\ n \in identified
    /\ identified' = identified \ {n}
    /\ known' = [known EXCEPT ![r] = @ \cup {KeyOf[n]}]
    /\ loop' = Loop("keyToNode", {}, KeyOf[n], n)
    /\ UNCHANGED <<live, tables, network, connected, reported, lock, mutex, socket>>

SetKeyToNode ==
    /\ loop.pc = "keyToNode" /\ lock = "free"
    /\ keyToNode' = [keyToNode EXCEPT ![loop.key] = IF @ = NoNode THEN loop.node ELSE @]
    /\ loop' = [loop EXCEPT !.pc = "activate"]
    /\ UNCHANGED <<live, ptrToNodes, keyStore, activeNodes, lists, reported, lock, mutex,
                   socket>>

SetActiveNode ==
    /\ loop.pc = "activate" /\ lock = "free"
    /\ activeNodes' = activeNodes \cup {loop.key}
    /\ loop' = React
    /\ UNCHANGED <<live, ptrToNodes, keyStore, keyToNode, lists, reported, lock, mutex,
                   socket>>

\* CActivityControllerAction: another tracker says a node is active or inactive.
ChangeActivity(k) ==
    /\ Reacting
    /\ activeNodes' \in {activeNodes \cup {k}, activeNodes \ {k}}
    /\ UNCHANGED <<live, ptrToNodes, keyStore, keyToNode, lists, reported, lock, mutex,
                   loop, socket>>

\* CUpdateNetworkDataAction: setNetworkTracker or setNetworkMonitor for a new node of
\* the ranking, eraseNetworkTracker or eraseNetworkMonitor for one that left it.
UpdateNetwork(r, k) ==
    /\ Reacting
    /\ IF \E q \in Role : k \in network[q]
       THEN network' = [network EXCEPT ![r] = @ \ {k}] /\ known' = known
       ELSE /\ network' = [network EXCEPT ![r] = @ \cup {k}]
            /\ known' = [known EXCEPT ![r] = @ \cup {k}]
    /\ UNCHANGED <<live, tables, connected, identified, reported, lock, mutex, loop, socket>>

\* CRegisterAction::setInNetwork, of the monitor that admitted this tracker.
SetInNetwork(k) ==
    /\ Reacting /\ k \in known["Monitor"]
    /\ connected' = TRUE
    /\ network' = [network EXCEPT !["Monitor"] = @ \cup {k}]
    /\ activeNodes' = activeNodes \cup {k}
    /\ UNCHANGED <<live, ptrToNodes, keyStore, keyToNode, known, identified, reported, lock,
                   mutex, loop, socket>>

\* setInNetwork( false )
LeaveNetwork ==
    /\ Reacting /\ connected
    /\ connected' = FALSE
    /\ UNCHANGED <<live, tables, known, network, identified, reported, lock, mutex, loop,
                   socket>>

-----------------------------------------------------------------------------
(* The loop collects requests with m_mutex held and asks for mediums.      *)

BeginCollect ==
    /\ loop = React /\ mutex = "free"
    /\ mutex' = "loop" /\ loop' = Collect
    /\ UNCHANGED <<live, tables, lists, reported, lock, socket>>

EndCollect ==
    /\ loop = Collect
    /\ mutex' = "free" /\ loop' = React
    /\ UNCHANGED <<live, tables, lists, reported, lock, socket>>

\* getNodesByClass of a role: the nodes of the network, or all that are known.
GetNodesByClass(r) ==
    /\ loop = Collect
    /\ loop' = Loop("class", IF connected THEN network[r] ELSE known[r], NoKey, NoNode)
    /\ UNCHANGED <<live, tables, lists, reported, lock, mutex, socket>>

\* Only in the network is a node passed over that is not active.
NextNode(k) ==
    /\ loop.pc = "class" /\ k \in loop.todo
    /\ loop' = Loop(IF connected /\ k \notin activeNodes THEN "class" ELSE "key",
                    loop.todo \ {k}, k, NoNode)
    /\ UNCHANGED <<live, tables, lists, reported, lock, mutex, socket>>

EndOfClass ==
    /\ loop.pc = "class" /\ loop.todo = {}
    /\ loop' = Collect
    /\ UNCHANGED <<live, tables, lists, reported, lock, mutex, socket>>

\* getKeyToNode waits for m_lock, and m_mutex is still held; "something went wrong"
\* if there is none.
GetKeyToNode ==
    /\ loop.pc = "key" /\ lock = "free"
    /\ loop' = IF keyToNode[loop.key] = NoNode THEN [loop EXCEPT !.pc = "failed"]
               ELSE [loop EXCEPT !.pc = "find", !.node = keyToNode[loop.key]]
    /\ UNCHANGED <<live, tables, lists, reported, lock, mutex, socket>>

\* findNodeMedium, and "something went wrong" again.
FindNodeMedium ==
    /\ loop.pc = "find"
    /\ loop' = IF loop.node \in ptrToNodes THEN Loop("class", loop.todo, NoKey, NoNode)
               ELSE [loop EXCEPT !.pc = "failed"]
    /\ UNCHANGED <<live, tables, lists, reported, lock, mutex, socket>>

\* A failed assertion ends the process.
Next ==
    /\ loop.pc # "failed"
    /\ \/ \E n \in Node : Connect(n) \/ AddNode(n) \/ SetPublicKey(n) \/ EraseMedium(n)
       \/ DeleteMedium \/ EraseKeys \/ ReportInactive
       \/ \E n \in Node, r \in Role : SetNodeInfo(n, r)
       \/ SetKeyToNode \/ SetActiveNode
       \/ \E k \in Key : ChangeActivity(k) \/ SetInNetwork(k) \/ NextNode(k)
       \/ \E r \in Role, k \in Key : UpdateNetwork(r, k)
       \/ LeaveNetwork \/ BeginCollect \/ EndCollect
       \/ \E r \in Role : GetNodesByClass(r)
       \/ EndOfClass \/ GetKeyToNode \/ FindNodeMedium

Spec == Init /\ [][Next]_vars

-----------------------------------------------------------------------------
(* Properties                                                              *)

\* m_lock of the node manager and m_mutex of the action handler: the loop and the
\* socket thread never wait for each other's lock.
LocksAreOrdered ==
    ~ /\ socket.pc = "report" /\ mutex = "loop"
      /\ loop.pc = "key" /\ lock = "socket"
=============================================================================
