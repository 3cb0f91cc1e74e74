------------------------------ MODULE NodeMedium ------------------------------
(***************************************************************************)
(* One connection to a peer: the CNodeMedium that stores what the peer     *)
(* answered (common/nodeMedium.cpp) and the CRequestHandler through which  *)
(* the action loop reads it (common/requestHandler.cpp).                   *)
(*                                                                         *)
(* Two threads meet here.  The network thread (processNetwork.cpp) looks   *)
(* the action key of a message up in CNetworkActionRegister and then puts  *)
(* the message into the medium; the action loop sends requests, polls      *)
(* answers, and deletes actions.  m_mutex serialises single calls, but the *)
(* look-up and the insertion are two calls, so an action can die between.  *)
(*                                                                         *)
(* A response is the number of its arrival (serial).  The multimaps keep   *)
(* insertion order for equal keys, and the queue gets one entry for each   *)
(* response, so a set of records carrying the serial is the container, and *)
(* its front is the record with the smallest serial.                       *)
(***************************************************************************)
EXTENDS Naturals

CONSTANTS
    Request,      \* CRequest objects that may be sent through this medium
    ActionKey,    \* keys of the actions that own them
    MaxId,        \* request ids are 1..MaxId: m_indexes is walked in id order
    IdOf,         \* m_id of a request; an ack reuses the id it acknowledges
    OwnerOf,      \* the action that created a request
    NoRequest,    \* m_idToRequest has no entry (a look-up yields end())
    MaxResponses  \* bound on the number of messages that arrive

Id == 1 .. MaxId

ASSUME NodeMediumAssumption ==
    /\ MaxId \in Nat /\ MaxResponses \in Nat
    /\ IdOf \in [Request -> Id]
    /\ OwnerOf \in [Request -> ActionKey]
    /\ NoRequest \notin Request
    /\ ActionKey \cap (Id \cup Request \cup {NoRequest}) = {}

VARIABLES
    registered,        \* CNetworkActionRegister: keys of the living actions
    requestState,      \* "idle", "sent" through the medium, or "deleted"
    forgotten,         \* m_droppedRequests of the owners
    valid,             \* m_valid of the handler: the medium still exists
    idToRequest,       \* m_idToRequest
    responses,         \* m_responses
    indexes,           \* m_indexes
    synchronizeQueue,  \* m_synchronizeQueue
    actionToResponse,  \* m_actionToResponse
    iterator,          \* indexIterator while m_mutex is held, 0 when it is free
    requestResponse,   \* _requestResponse, filled by getResponseAndClear
    deleteList,        \* entries of m_responses marked for clearResponses
    processedRequests, \* m_processedRequests of the handler
    inFlight,          \* message past isServicedByAction, not yet stored
    serial,            \* number of messages that have arrived
    handed             \* history: what accept() has been given

networkVars == <<inFlight, serial>>
readVars == <<iterator, requestResponse, deleteList>>
vars == <<registered, requestState, forgotten, valid, idToRequest, responses, indexes,
          synchronizeQueue, actionToResponse, readVars, processedRequests,
          networkVars, handed>>

-----------------------------------------------------------------------------
Serial   == 1 .. MaxResponses
Stored   == [serial : Serial, id : Id]
Queued   == [serial : Serial, key : Id \cup ActionKey]
Direct   == [serial : Serial, key : ActionKey]
Answer   == [serial : Serial, to : Request \cup {NoRequest}]
Handed   == [serial : Serial, to : Request \cup ActionKey]
Message  == [id : Id, key : ActionKey, kind : {"request", "action"}]
Nothing  == [kind |-> "none"]

TypeOK ==
    /\ registered \subseteq ActionKey
    /\ requestState \in [Request -> {"idle", "sent", "deleted"}]
    /\ forgotten \subseteq Request
    /\ valid \in BOOLEAN
    /\ idToRequest \in [Id -> Request \cup {NoRequest}]
    /\ responses \subseteq Stored
    /\ indexes \subseteq Id
    /\ synchronizeQueue \subseteq Queued
    /\ actionToResponse \subseteq Direct
    /\ iterator \in 0 .. MaxId + 1
    /\ requestResponse \subseteq Answer
    /\ deleteList \subseteq Stored
    /\ processedRequests \subseteq Answer
    /\ inFlight \in Message \cup {Nothing}
    /\ serial \in 0 .. MaxResponses
    /\ handed \subseteq Handed

Init ==
    /\ registered = ActionKey
    /\ requestState = [r \in Request |-> "idle"]
    /\ forgotten = {}
    /\ valid = TRUE
    /\ idToRequest = [i \in Id |-> NoRequest]
    /\ responses = {} /\ indexes = {} /\ synchronizeQueue = {}
    /\ actionToResponse = {} /\ requestResponse = {} /\ deleteList = {}
    /\ processedRequests = {} /\ handed = {}
    /\ iterator = 0
    /\ inFlight = Nothing
    /\ serial = 0

MutexFree == iterator = 0

\* m_synchronizeQueue.front()
IsFront(e) == /\ e \in synchronizeQueue
              /\ \A f \in synchronizeQueue : e.serial <= f.serial

-----------------------------------------------------------------------------
(* The network thread.                                                     *)

\* processMessage: the action of the message is alive when it is looked up.
\* The id is whatever the peer put into the header.
IsServicedByAction(a, i, kind) ==
    /\ valid /\ inFlight = Nothing /\ serial < MaxResponses
    /\ a \in registered
    /\ inFlight' = [id |-> i, key |-> a, kind |-> kind]
    /\ serial' = serial + 1
    /\ UNCHANGED <<registered, requestState, forgotten, valid, idToRequest, responses,
                   indexes, synchronizeQueue, actionToResponse, readVars,
                   processedRequests, handed>>

\* Faulty setResponse: an id that is already indexed is not queued again.
SetResponseQueuedOnce ==
    /\ inFlight.kind = "request" /\ MutexFree
    /\ responses' = responses \cup {[serial |-> serial, id |-> inFlight.id]}
    /\ indexes' = indexes \cup {inFlight.id}
    /\ synchronizeQueue' = IF inFlight.id \in indexes THEN synchronizeQueue
           ELSE synchronizeQueue \cup {[serial |-> serial, key |-> inFlight.id]}
    /\ inFlight' = Nothing
    /\ UNCHANGED <<registered, requestState, forgotten, valid, idToRequest,
                   actionToResponse, readVars, processedRequests, serial, handed>>

\* setResponse: an Ack, or a message that answers a request
SetResponse ==
    /\ inFlight.kind = "request" /\ MutexFree
    /\ responses' = responses \cup {[serial |-> serial, id |-> inFlight.id]}
    /\ indexes' = indexes \cup {inFlight.id}
    /\ synchronizeQueue' =
           synchronizeQueue \cup {[serial |-> serial, key |-> inFlight.id]}
    /\ inFlight' = Nothing
    /\ UNCHANGED <<registered, requestState, forgotten, valid, idToRequest,
                   actionToResponse, readVars, processedRequests, serial, handed>>

\* addActionResponse: InfoReq, StatusTransactions and introductions
AddActionResponse ==
    /\ inFlight.kind = "action" /\ MutexFree
    /\ actionToResponse' =
           actionToResponse \cup {[serial |-> serial, key |-> inFlight.key]}
    /\ synchronizeQueue' =
           synchronizeQueue \cup {[serial |-> serial, key |-> inFlight.key]}
    /\ inFlight' = Nothing
    /\ UNCHANGED <<registered, requestState, forgotten, valid, idToRequest, responses,
                   indexes, readVars, processedRequests, serial, handed>>

\* ~CNodeMedium, reached from ~CSelfNode: the hook marks the handler invalid
\* and everything the medium stored is gone.
EraseMedium ==
    /\ valid /\ inFlight = Nothing /\ MutexFree
    /\ valid' = FALSE
    /\ idToRequest' = [i \in Id |-> NoRequest]
    /\ responses' = {} /\ indexes' = {} /\ synchronizeQueue' = {}
    /\ actionToResponse' = {}
    /\ UNCHANGED <<registered, requestState, forgotten, readVars, processedRequests,
                   networkVars, handed>>

-----------------------------------------------------------------------------
(* The action loop.                                                        *)

\* runRequests and setLastRequest: the last request with an id owns it.  On an
\* invalid handler the request only counts as processed.
RunRequest(r) ==
    /\ MutexFree
    /\ requestState[r] = "idle" /\ OwnerOf[r] \in registered
    /\ requestState' = [requestState EXCEPT ![r] = "sent"]
    /\ idToRequest' = IF valid THEN [idToRequest EXCEPT ![IdOf[r]] = r]
                               ELSE idToRequest
    /\ UNCHANGED <<registered, forgotten, valid, responses, indexes, synchronizeQueue,
                   actionToResponse, readVars, processedRequests, networkVars,
                   handed>>

\* Faulty getDirectActionResponseAndClear: it returns before pop_front when
\* nothing is stored for the action.
GetDirectActionResponseEarlyReturn(a) ==
    /\ valid /\ MutexFree /\ a \in registered
    /\ \E d \in actionToResponse : d.key = a
    /\ \E e \in synchronizeQueue :
           /\ IsFront(e) /\ e.key = a
           /\ synchronizeQueue' = synchronizeQueue \ {e}
    /\ handed' = handed \cup {[serial |-> d.serial, to |-> a] :
                                 d \in {x \in actionToResponse : x.key = a}}
    /\ actionToResponse' = {d \in actionToResponse : d.key # a}
    /\ UNCHANGED <<registered, requestState, forgotten, valid, idToRequest,
                   responses, indexes, readVars, processedRequests, networkVars>>

\* getDirectActionResponseAndClear: one queue entry is popped, and every
\* response stored for the action is handed to it.
GetDirectActionResponse(a) ==
    /\ valid /\ MutexFree /\ a \in registered
    /\ \E e \in synchronizeQueue :
           /\ IsFront(e) /\ e.key = a
           /\ synchronizeQueue' = synchronizeQueue \ {e}
    /\ handed' = handed \cup {[serial |-> d.serial, to |-> a] :
                                 d \in {x \in actionToResponse : x.key = a}}
    /\ actionToResponse' = {d \in actionToResponse : d.key # a}
    /\ UNCHANGED <<registered, requestState, forgotten, valid, idToRequest, responses,
                   indexes, readVars, processedRequests, networkVars>>

\* processMediumResponses when serviced(): getResponseAndClear takes m_mutex
\* and starts at the smallest index.
BeginGetResponse ==
    /\ valid /\ MutexFree
    /\ responses # {} /\ synchronizeQueue # {}
    /\ iterator' = 1
    /\ UNCHANGED <<registered, requestState, forgotten, valid, idToRequest, responses,
                   indexes, synchronizeQueue, actionToResponse,
                   requestResponse, deleteList, processedRequests,
                   networkVars, handed>>

\* The responses of id i leave with the request that id stands for.
Answers(i) == {[serial |-> s.serial, to |-> idToRequest[i]] :
                  s \in {x \in responses : x.id = i}}

\* Faulty loop over m_indexes: it does not stop at end().
ScanIndexPastEnd ==
    /\ iterator # 0
    /\ iterator' = iterator + 1
    /\ UNCHANGED <<registered, requestState, forgotten, valid, idToRequest, responses,
                   indexes, synchronizeQueue, actionToResponse, requestResponse,
                   deleteList, processedRequests, networkVars, handed>>

\* One turn of the loop over m_indexes: if the index is the front of the queue
\* its entry is popped and all its responses are taken, otherwise it is
\* skipped.  Once the queue is empty front() is undefined; in the builds it
\* reads the list's sentinel, which equals no index.
ScanIndex ==
    /\ iterator \in Id
    /\ iterator' = iterator + 1
    /\ \/ \E e \in synchronizeQueue :
              /\ iterator \in indexes /\ IsFront(e) /\ e.key = iterator
              /\ synchronizeQueue' = synchronizeQueue \ {e}
              /\ requestResponse' = requestResponse \cup Answers(iterator)
              /\ deleteList' =
                     deleteList \cup {s \in responses : s.id = iterator}
       \/ /\ ~ \E e \in synchronizeQueue :
                    iterator \in indexes /\ IsFront(e) /\ e.key = iterator
          /\ UNCHANGED <<synchronizeQueue, requestResponse, deleteList>>
    /\ UNCHANGED <<registered, requestState, forgotten, valid, idToRequest, responses,
                   indexes, actionToResponse, processedRequests, networkVars,
                   handed>>

\* Faulty clearResponses: one response of each id is erased.
ClearResponsesOncePerId ==
    /\ iterator = MaxId + 1
    /\ iterator' = 0
    /\ responses' = responses \ {s \in deleteList :
           \A t \in deleteList : t.id = s.id => s.serial <= t.serial}
    /\ deleteList' = {}
    /\ processedRequests' = processedRequests \cup requestResponse
    /\ requestResponse' = {}
    /\ UNCHANGED <<registered, requestState, forgotten, valid, idToRequest,
                   indexes, synchronizeQueue, actionToResponse, networkVars,
                   handed>>

\* clearResponses and the return to processMediumResponses.  deleteList holds
\* an id once for each response of it, so erasing lower_bound(id) that many
\* times erases exactly the responses that were taken.
ClearResponses ==
    /\ iterator = MaxId + 1
    /\ iterator' = 0
    /\ responses' = responses \ deleteList
    /\ deleteList' = {}
    /\ processedRequests' = processedRequests \cup requestResponse
    /\ requestResponse' = {}
    /\ UNCHANGED <<registered, requestState, forgotten, valid, idToRequest, indexes,
                   synchronizeQueue, actionToResponse, networkVars, handed>>

\* isProcessed, getLastResponse and clearLastResponse: one response of a
\* request is handed to its action in one turn of the loop.  m_reqToAction
\* holds no forgotten request, so what answers one is never handed over.
GetLastResponse(r) ==
    /\ valid /\ MutexFree
    /\ OwnerOf[r] \in registered /\ r \notin forgotten
    /\ \E p \in processedRequests :
           /\ p.to = r
           /\ \A q \in processedRequests : q.to = r => p.serial <= q.serial
           /\ processedRequests' = processedRequests \ {p}
           /\ handed' = handed \cup {p}
    /\ UNCHANGED <<registered, requestState, forgotten, valid, idToRequest, responses,
                   indexes, synchronizeQueue, actionToResponse, readVars,
                   networkVars>>

\* CAction::forgetRequests, called by the reactions of an action
ForgetRequests(a) ==
    /\ MutexFree /\ a \in registered
    /\ forgotten' = forgotten \cup {r \in Request :
                        OwnerOf[r] = a /\ requestState[r] = "sent"}
    /\ forgotten' # forgotten
    /\ UNCHANGED <<registered, requestState, valid, idToRequest, responses,
                   indexes, synchronizeQueue, actionToResponse, readVars,
                   processedRequests, networkVars, handed>>

\* Faulty deleteRequest: the handler forgets m_processedRequests.
DeleteRequestsMediumOnly(R) ==
    LET ids == {IdOf[r] : r \in R} IN
    /\ requestState' = [r \in Request |->
                           IF r \in R THEN "deleted" ELSE requestState[r]]
    /\ idToRequest' = [i \in Id |-> IF i \in ids THEN NoRequest
                                                ELSE idToRequest[i]]
    /\ responses' = {s \in responses : s.id \notin ids}
    /\ indexes' = indexes \ ids
    /\ UNCHANGED processedRequests

\* deleteRequest on the handler and, while it exists, on the medium.
DeleteRequests(R) ==
    LET ids == {IdOf[r] : r \in R} IN
    /\ requestState' = [r \in Request |->
                           IF r \in R THEN "deleted" ELSE requestState[r]]
    /\ processedRequests' = {p \in processedRequests : p.to \notin R}
    /\ idToRequest' = [i \in Id |-> IF i \in ids THEN NoRequest
                                                ELSE idToRequest[i]]
    /\ responses' = {s \in responses : s.id \notin ids}
    /\ indexes' = indexes \ ids

\* The exit branch of the loop, for an action that is deleted: the medium is
\* told (deleteAction, deleteRequest) once for each request the action sent
\* through it, and not at all if there is none; ~CAction unregisters the key.
DeleteAction(a) ==
    LET sent == {r \in Request : OwnerOf[r] = a /\ requestState[r] = "sent"}
        ids  == {IdOf[r] : r \in sent}
        told == sent # {} /\ valid
    IN  /\ MutexFree /\ a \in registered
        /\ registered' = registered \ {a}
        /\ DeleteRequests(sent)
        /\ actionToResponse' = IF told
               THEN {d \in actionToResponse : d.key # a} ELSE actionToResponse
        /\ synchronizeQueue' = IF told
               THEN {e \in synchronizeQueue : e.key # a /\ e.key \notin ids}
               ELSE synchronizeQueue
        /\ UNCHANGED <<forgotten, valid, readVars, networkVars, handed>>

-----------------------------------------------------------------------------
NetworkStep ==
    \/ \E a \in ActionKey, i \in Id, k \in {"request", "action"} :
           IsServicedByAction(a, i, k)
    \/ SetResponse
    \/ AddActionResponse
    \/ EraseMedium

ReadStep ==
    \/ BeginGetResponse
    \/ ScanIndex
    \/ ClearResponses

Next ==
    \/ NetworkStep
    \/ ReadStep
    \/ \E r \in Request : RunRequest(r) \/ GetLastResponse(r)
    \/ \E a \in ActionKey :
           \/ GetDirectActionResponse(a)
           \/ ForgetRequests(a)
           \/ DeleteAction(a)

\* The loop thread never stops: in each turn it polls every registered action,
\* then every handler, and sleeps, and the network thread finishes a message it
\* has begun.  Strong fairness because a read of the medium, which holds
\* m_mutex, disables the others again and again, once in each turn.
Fairness ==
    /\ WF_vars(ReadStep)
    /\ \A r \in Request : SF_vars(GetLastResponse(r))
    /\ \A a \in ActionKey : SF_vars(GetDirectActionResponse(a))
    /\ SF_vars(SetResponse \/ AddActionResponse)

Spec == Init /\ [][Next]_vars
FairSpec == Spec /\ Fairness

-----------------------------------------------------------------------------
(* Properties.                                                             *)

\* A response the medium keeps can still be reached: each one has the queue
\* entry pushed with it, and the id of a request response is indexed.  Only
\* the queue decides what is read, so a response without an entry would wait
\* for ever (setResponse, addActionResponse, deleteRequest, deleteAction).
StoredResponseIsQueued ==
    /\ \A s \in responses \ deleteList :
           /\ [serial |-> s.serial, key |-> s.id] \in synchronizeQueue
           /\ s.id \in indexes
    /\ actionToResponse \subseteq synchronizeQueue

\* No pointer to a deleted CRequest survives in the medium or its handler:
\* deleteRequest reaches every container that may hold one, whatever other
\* request shares the id (nodeMedium.cpp deleteRequest, requestHandler.cpp).
NoDanglingRequest ==
    /\ \A i \in Id : idToRequest[i] # NoRequest =>
                         requestState[idToRequest[i]] = "sent"
    /\ \A p \in processedRequests \cup requestResponse :
           p.to # NoRequest => requestState[p.to] = "sent"

\* The answers of one request, and the messages of one action, reach accept()
\* in the order of arrival and once each: nothing still pending is as old as
\* something already handed over.  medium.h: "the order of elements with the
\* same key is important".
HandedInOrder ==
    /\ \A h \in handed, p \in processedRequests \cup requestResponse :
           h.to = p.to => h.serial < p.serial
    /\ \A h \in handed, d \in actionToResponse :
           h.to = d.key => h.serial < d.serial

\* While no action dies and the peer stays connected, the responses stored for
\* a request are taken by getResponseAndClear: stale queue entries, left behind
\* when several responses leave at once, never block them for good.
RequestResponseIsTaken ==
    [](registered = ActionKey /\ valid) =>
        \A i \in Id : (\E s \in responses : s.id = i)
                         ~> ~ (\E s \in responses : s.id = i)
=============================================================================
