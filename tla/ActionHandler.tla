---------------------------- MODULE ActionHandler ----------------------------
(***************************************************************************)
(* The engine every node runs: CActionHandler::loop drives state machines  *)
(* (CAction) whose requests it carries to mediums through CRequestHandlers *)
(* (common/actionHandler.cpp, action.cpp, requestHandler.cpp), together    *)
(* with the internal mediums: time (timeMedium.cpp), other actions         *)
(* (scheduledActionManager.cpp, scheduleAbleAction.h), errors              *)
(* (noMediumHandling.cpp), and CPeriodicActionExecutor.                    *)
(*                                                                         *)
(* Threads: the loop; the network, which brings answers and destroys       *)
(* mediums; the timer; and whoever calls executeAction, the periodic       *)
(* executor among them.  m_mutex is held during the first phase of a turn  *)
(* of the loop and during executeAction.  How one connection keeps and     *)
(* orders its answers is the subject of NodeMedium: here a request has an  *)
(* answer at a medium or not.  What a state machine does with an event is  *)
(* any of the things a state machine can do (React).                       *)
(***************************************************************************)
EXTENDS Naturals, FiniteSets

CONSTANTS
    Action, Request,
    OwnerOf,     \* the action that adds the request
    KindOf,      \* "message", "client", "time" or "schedule"
    ChildOf,     \* the action a "schedule" request carries
    Periodic,    \* actions built with _autoDelete = false
    Node         \* addresses at which a CNodeMedium can live

\* The actions carried by the "schedule" requests of R
Children(R) == {ChildOf[r] : r \in {x \in R : KindOf[x] = "schedule"}}

ASSUME ActionHandlerAssumption ==
    /\ OwnerOf \in [Request -> Action]
    /\ KindOf \in [Request -> {"message", "client", "time", "schedule"}]
    /\ Children(Request) \subseteq Action \ Periodic
    /\ \A r \in Request : KindOf[r] = "schedule" => ChildOf[r] # OwnerOf[r]
    /\ \A r, s \in Request : KindOf[r] = "schedule" /\ KindOf[s] = "schedule"
                             /\ ChildOf[r] = ChildOf[s] => r = s
    /\ Periodic \subseteq Action
    /\ Node \cap {"time", "schedule", "error"} = {}

VARIABLES
    alive,       \* actions constructed and not deleted
    inProgress, executed, exit,         \* their flags
    actions,     \* m_actions
    requests,    \* m_requests of the actions
    dropped,     \* m_droppedRequests of the actions
    deleted,     \* requests freed by ~CAction
    processed,   \* requests with m_processed
    used,        \* m_currentlyUsedHandlers
    newRequests, \* m_newRequest of the handlers
    held,        \* requests a medium will answer
    stored,      \* answers inside the mediums
    answered,    \* m_processedRequests of the handlers
    connected,   \* nodes with a living CNodeMedium
    handlers,    \* m_requestHandlers, keyed by the address of the medium
    invalid,     \* handlers whose medium was destroyed
    phase,       \* where the loop is; "collect" is inside m_mutex
    toVisit,     \* what the loop still has to look at in this phase
    toErase,     \* toErase
    toExecute,   \* requestHandlersToExecute
    toRead,      \* requestHandlersToRead
    reqToAction, \* m_reqToAction
    ready        \* periodic actions found ready, not yet executed

flags == <<inProgress, executed, exit>>
requestVars == <<requests, dropped, deleted, processed>>
mediumVars == <<held, stored, answered>>
handlerVars == <<handlers, invalid, connected>>
loopVars == <<phase, toVisit, toErase, toExecute, toRead, reqToAction>>
vars == <<alive, flags, actions, requestVars, used, newRequests, mediumVars,
          handlerVars, loopVars, ready>>

-----------------------------------------------------------------------------
Medium == Node \cup {"time", "schedule", "error"}
Use == [request : Request, medium : Medium]

TypeOK ==
    /\ alive \subseteq Action /\ inProgress \subseteq Action
    /\ executed \subseteq Action /\ exit \subseteq Action
    /\ actions \subseteq Action
    /\ requests \subseteq Request /\ dropped \subseteq Request
    /\ deleted \subseteq Request /\ processed \subseteq Request
    /\ used \subseteq Use /\ newRequests \subseteq Use
    /\ held \subseteq Use /\ stored \subseteq Use /\ answered \subseteq Use
    /\ connected \subseteq Node
    /\ handlers \subseteq Medium /\ invalid \subseteq handlers
    /\ \/ phase = "collect" /\ toVisit \subseteq Action
       \/ phase = "read" /\ toVisit \subseteq Medium
       \/ phase = "deliver" /\ toVisit \subseteq Use
       \/ phase \in {"direct", "run"} /\ toVisit = {}
    /\ toErase \subseteq Action
    /\ toExecute \subseteq Medium /\ toRead \subseteq Medium
    /\ reqToAction \subseteq Request
    /\ ready \subseteq Periodic

Init ==
    /\ alive = {} /\ inProgress = {} /\ executed = {} /\ exit = {} /\ actions = {}
    /\ requests = {} /\ dropped = {} /\ deleted = {} /\ processed = {}
    /\ used = {} /\ newRequests = {}
    /\ held = {} /\ stored = {} /\ answered = {}
    /\ connected = {} /\ handlers = {} /\ invalid = {}
    /\ phase = "collect" /\ toVisit = {} /\ toErase = {}
    /\ toExecute = {} /\ toRead = {} /\ reqToAction = {}
    /\ ready = {}

MutexFree == phase # "collect"

\* Requests not yet made
Unborn(r) == r \notin requests \cup dropped \cup deleted
Own(a) == {r \in requests \cup dropped : OwnerOf[r] = a}
At(U, m) == {u \in U : u.medium = m}
Of(U, R) == {u \in U : u.request \in R}

\* What the state machines of A may ask for: any requests not made before.
NewRequests(A) == SUBSET {r \in Request : OwnerOf[r] \in A /\ Unborn(r)}

\* What a state machine may do with an event: forgetRequests, addRequest,
\* setExit, or nothing.  The action inside a "schedule" request is constructed
\* with it, but nobody looks at it before it is executed (RunRequests).
React(a) ==
    \E R \in NewRequests({a}), forget, leave \in BOOLEAN :
        /\ requests' = (IF forget THEN requests \ Own(a) ELSE requests) \cup R
        /\ dropped' = IF forget THEN dropped \cup Own(a) ELSE dropped
        /\ exit' = IF leave THEN exit \cup {a} ELSE exit

\* initiate: the initial state forgets what was asked before and asks for
\* something, or there is nothing to ask and it leaves.
Initiate(a) ==
    \E R \in NewRequests({a}) :
        /\ requests' = IF R = {} THEN requests ELSE (requests \ Own(a)) \cup R
        /\ dropped' = IF R = {} THEN dropped ELSE dropped \cup Own(a)
        /\ exit' = IF R = {} THEN exit \cup {a} ELSE exit \ {a}

-----------------------------------------------------------------------------
(* executeAction and the periodic executor                                 *)

\* executeAction( new ... ) by any thread; scheduled actions are constructed by
\* their parents and executed by the medium.
ExecuteAction(a) ==
    /\ MutexFree
    /\ a \in Action \ (alive \cup Periodic \cup Children(Request))
    /\ Initiate(a)
    /\ alive' = alive \cup {a}
    /\ inProgress' = inProgress \cup {a}
    /\ actions' = actions \cup {a}
    /\ UNCHANGED <<executed, deleted, processed, used, newRequests, mediumVars,
                   handlerVars, loopVars, ready>>

\* CPeriodicActionExecutor::addAction( new ... )
AddPeriodicAction(a) ==
    /\ a \in Periodic \ alive
    /\ Initiate(a)
    /\ alive' = alive \cup {a}
    /\ UNCHANGED <<inProgress, executed, actions, deleted, processed, used,
                   newRequests, mediumVars, handlerVars, loopVars, ready>>

\* Faulty: reset leaves m_inProgress set.
IsReadyInProgressKept(a) ==
    /\ a \in (Periodic \cap alive) \ ready
    /\ ready' = ready \cup {a}
    /\ \/ /\ a \in executed
          /\ executed' = executed \ {a}
          /\ UNCHANGED inProgress
          /\ Initiate(a)
       \/ /\ a \notin executed
          /\ UNCHANGED <<flags, requests, dropped>>
    /\ UNCHANGED <<alive, actions, deleted, processed, used, newRequests,
                   mediumVars, handlerVars, loopVars>>

\* CDefferedAction::isReady, without m_mutex: an executed action whose time has
\* come is reset; one not yet executed is always ready.
IsReady(a) ==
    /\ a \in (Periodic \cap alive) \ ready
    /\ ready' = ready \cup {a}
    /\ \/ /\ a \in executed
          /\ executed' = executed \ {a}
          /\ inProgress' = inProgress \ {a}
          /\ Initiate(a)
       \/ /\ a \notin executed
          /\ UNCHANGED <<flags, requests, dropped>>
    /\ UNCHANGED <<alive, actions, deleted, processed, used, newRequests, mediumVars,
                   handlerVars, loopVars>>

\* CDefferedAction::getRequest: executeAction ignores an action in progress.
ExecutePeriodic(a) ==
    /\ MutexFree /\ a \in ready
    /\ ready' = ready \ {a}
    /\ inProgress' = inProgress \cup {a}
    /\ actions' = IF a \in inProgress THEN actions ELSE actions \cup {a}
    /\ UNCHANGED <<alive, executed, exit, requestVars, used, newRequests,
                   mediumVars, handlerVars, loopVars>>

-----------------------------------------------------------------------------
(* The network and the timer                                               *)

\* A connection comes up, at an address that may have been used before.
Connect(n) ==
    /\ n \in Node \ connected
    /\ connected' = connected \cup {n}
    /\ UNCHANGED <<alive, flags, actions, requestVars, used, newRequests,
                   mediumVars, handlers, invalid, loopVars, ready>>

\* Faulty: the hook is there before any handler is.
DisconnectAlwaysHooked(n) ==
    /\ n \in connected
    /\ connected' = connected \ {n}
    /\ invalid' = invalid \cup {n}
    /\ held' = held \ At(held, n)
    /\ stored' = stored \ At(stored, n)
    /\ UNCHANGED <<alive, flags, actions, requestVars, used, newRequests,
                   answered, handlers, loopVars, ready>>

\* ~CNodeMedium: the delete hook reaches the handler, if one was ever made.
Disconnect(n) ==
    /\ n \in connected
    /\ connected' = connected \ {n}
    /\ invalid' = IF n \in handlers THEN invalid \cup {n} ELSE invalid
    /\ held' = held \ At(held, n)
    /\ stored' = stored \ At(stored, n)
    /\ UNCHANGED <<alive, flags, actions, requestVars, used, newRequests,
                   answered, handlers, loopVars, ready>>

\* A node answers (it may answer again); a time event is triggered once.
Answer(u) ==
    /\ u \in held /\ u.medium # "schedule"
    /\ stored' = stored \cup {u}
    /\ held' = IF u.medium = "time" THEN held \ {u} ELSE held
    /\ UNCHANGED <<alive, flags, actions, requestVars, used, newRequests,
                   answered, handlerVars, loopVars, ready>>

-----------------------------------------------------------------------------
(* The loop                                                                *)

\* m_mutex is taken; nothing is added to m_actions until it is released.
BeginCollect ==
    /\ phase = "run" /\ toExecute = {}
    /\ phase' = "collect"
    /\ toVisit' = actions
    /\ UNCHANGED <<alive, flags, actions, requestVars, used, newRequests,
                   mediumVars, handlerVars, toErase, toExecute, toRead,
                   reqToAction, ready>>

NeedToExit(a) == a \in exit /\ Own(a) \subseteq processed

\* ~CScheduleAbleAction: the result reaches the request that scheduled the
\* action, if CScheduledActionManager still knows one.
ScheduledResult(a) == {u \in held : u.medium = "schedule" /\ ChildOf[u.request] = a}

\* The handlers of the uses in mine forget them, and so do their mediums, if
\* they still exist; then ~CAction.
DeleteAction(a, mine) ==
    LET reachable == {u \in mine : u.medium \notin invalid}
    IN  /\ alive' = alive \ {a}
        /\ inProgress' = inProgress \ {a}
        /\ exit' = exit \ {a}
        /\ deleted' = deleted \cup Own(a)
        /\ requests' = requests \ Own(a)
        /\ dropped' = dropped \ Own(a)
        /\ used' = used \ mine
        /\ held' = held \ reachable
        /\ stored' = (stored \ reachable) \cup ScheduledResult(a)
        /\ answered' = answered \ mine
        /\ UNCHANGED executed

\* Faulty: the requests forgotten earlier are left with their handlers.
EraseActionCurrentOnly(a) == DeleteAction(a, Of(used, Own(a) \cap requests))

\* The exit branch for an action that is deleted
EraseAction(a) == DeleteAction(a, Of(used, Own(a)))

\* provideHandler: the mediums of the first provider that has one for the
\* filter; CErrorMedium when no other does.
ProvideHandler(r) ==
    CASE KindOf[r] = "time" -> {{"time"}}
      [] KindOf[r] = "schedule" -> {{"schedule"}}
      [] OTHER -> {{"error"}} \cup (SUBSET connected \ {{}})

\* Those requests of R that have no handler yet get theirs.
ServeRequests(R, current) ==
    LET unserved == {r \in R : Of(used, {r}) = {}}
    IN  \E mediums \in [unserved -> SUBSET Medium] :
            LET new == {u \in Use : u.request \in unserved
                                    /\ u.medium \in mediums[u.request]}
            IN  /\ \A r \in unserved : mediums[r] \in ProvideHandler(r)
                /\ used' = used \cup new
                /\ newRequests' = newRequests \cup new
                /\ handlers' = handlers \cup {u.medium : u \in new}
                /\ toExecute' = toExecute \cup {u.medium : u \in new}
                /\ reqToAction' = reqToAction \cup current

\* Faulty: forgotten requests are not served any more.
SetRequestsCurrentOnly(a) == ServeRequests(Own(a) \cap requests, Own(a) \cap requests)

\* Faulty: only a request being served is entered in m_reqToAction.
SetRequestsOnce(a) ==
    ServeRequests(Own(a), {r \in Own(a) \cap requests : Of(used, {r}) = {}})

\* All requests are served, the forgotten ones too; the current ones are
\* watched for an answer.
SetRequests(a) == ServeRequests(Own(a), Own(a) \cap requests)

\* One turn of the loop over m_actions
Visit(a) ==
    /\ phase = "collect" /\ a \in toVisit
    /\ toVisit' = toVisit \ {a}
    /\ \/ /\ NeedToExit(a)
          /\ toErase' = toErase \cup {a}
          /\ \/ a \notin Periodic /\ EraseAction(a)
             \/ /\ a \in Periodic
                /\ executed' = executed \cup {a}
                /\ UNCHANGED <<alive, inProgress, exit, deleted, requests,
                               dropped, used, mediumVars>>
          /\ UNCHANGED <<newRequests, handlers, toExecute, reqToAction>>
       \/ /\ ~ NeedToExit(a)
          /\ SetRequests(a)
          /\ UNCHANGED <<alive, flags, deleted, requests, dropped, mediumVars,
                         toErase>>
    /\ UNCHANGED <<actions, processed, invalid, connected,
                   phase, toRead, ready>>

\* Faulty: the actions that left stay in m_actions.
EndCollectNothingErased ==
    /\ phase = "collect" /\ toVisit = {}
    /\ phase' = "direct"
    /\ toErase' = {}
    /\ UNCHANGED <<alive, flags, actions, requestVars, used, newRequests,
                   mediumVars, handlerVars, toVisit, toExecute, toRead,
                   reqToAction, ready>>

\* m_actions.erase, and m_mutex is released.
EndCollect ==
    /\ phase = "collect" /\ toVisit = {}
    /\ phase' = "direct"
    /\ actions' = actions \ toErase
    /\ toErase' = {}
    /\ UNCHANGED <<alive, flags, requestVars, used, newRequests, mediumVars,
                   handlerVars, toVisit, toExecute, toRead, reqToAction, ready>>

\* A handler that was run before has a message for an action of m_actions,
\* which is read here without m_mutex.
DirectResponse(a) ==
    /\ phase = "direct" /\ a \in actions
    /\ (toRead \cap connected) \ invalid # {}
    /\ React(a)
    /\ UNCHANGED <<alive, inProgress, executed, actions, deleted, processed, used,
                   newRequests, mediumVars, handlerVars, loopVars, ready>>

EndDirect ==
    /\ phase = "direct"
    /\ phase' = "read"
    /\ toVisit' = toRead
    /\ UNCHANGED <<alive, flags, actions, requestVars, used, newRequests,
                   mediumVars, handlerVars, toErase, toExecute, toRead,
                   reqToAction, ready>>

\* processMediumResponses: answers move from the medium to its handler.
ProcessMediumResponses(m) ==
    /\ phase = "read" /\ m \in toVisit
    /\ toVisit' = toVisit \ {m}
    /\ answered' = IF m \in invalid THEN answered ELSE answered \cup At(stored, m)
    /\ stored' = IF m \in invalid THEN stored ELSE stored \ At(stored, m)
    /\ UNCHANGED <<alive, flags, actions, requestVars, used, newRequests, held,
                   handlerVars, phase, toErase, toExecute, toRead, reqToAction,
                   ready>>

EndRead ==
    /\ phase = "read" /\ toVisit = {}
    /\ phase' = "deliver"
    /\ toVisit' = Of(used, reqToAction)
    /\ UNCHANGED <<alive, flags, actions, requestVars, used, newRequests,
                   mediumVars, handlerVars, toErase, toExecute, toRead,
                   reqToAction, ready>>

\* isProcessed, getLastResponse, accept, clearLastResponse.  The request may
\* have been forgotten since m_reqToAction was filled.
Deliver(u) ==
    /\ phase = "deliver" /\ u \in toVisit
    /\ u \in answered /\ u.medium \notin invalid
    /\ React(OwnerOf[u.request])
    /\ toVisit' = toVisit \ {u}
    /\ answered' = answered \ {u}
    /\ UNCHANGED <<alive, inProgress, executed, actions, deleted, processed, used,
                   newRequests, held, stored, handlerVars, phase, toErase,
                   toExecute, toRead, reqToAction, ready>>

EndDeliver ==
    /\ phase = "deliver"
    /\ \A u \in toVisit : u \notin answered \/ u.medium \in invalid
    /\ phase' = "run"
    /\ toVisit' = {}
    /\ reqToAction' = {}
    /\ UNCHANGED <<alive, flags, actions, requestVars, used, newRequests,
                   mediumVars, handlerVars, toErase, toExecute, toRead, ready>>

\* runRequests: every new request is marked processed, and goes to the medium
\* if there still is one.  CErrorMedium answers CNoMedium at once, and only to
\* a CSendMessageRequest; CScheduledActionManager executes the action the
\* request carries, which initiated itself; the others wait for an event.
RunRequests(m) ==
    LET new == IF m \in invalid THEN {} ELSE At(newRequests, m)
        kids == IF m = "schedule" THEN Children({u.request : u \in new}) ELSE {}
    IN  /\ phase = "run" /\ m \in toExecute
        /\ toExecute' = toExecute \ {m}
        /\ toRead' = toRead \cup {m}
        /\ processed' = processed \cup {u.request : u \in At(newRequests, m)}
        /\ newRequests' = newRequests \ At(newRequests, m)
        /\ held' = IF m = "error" THEN held ELSE held \cup new
        /\ stored' = IF m = "error"
                        THEN stored \cup {u \in new : KindOf[u.request] = "message"}
                        ELSE stored
        /\ \E R \in NewRequests(kids) :
               /\ requests' = requests \cup R
               /\ exit' = exit \cup {a \in kids : \A r \in R : OwnerOf[r] # a}
        /\ alive' = alive \cup kids
        /\ inProgress' = inProgress \cup kids
        /\ actions' = actions \cup kids
        /\ UNCHANGED <<executed, dropped, deleted, used, answered, handlerVars,
                       phase, toVisit, toErase, reqToAction, ready>>

-----------------------------------------------------------------------------
LoopStep ==
    \/ BeginCollect \/ EndCollect \/ EndDirect \/ EndRead \/ EndDeliver
    \/ \E a \in Action : Visit(a)
    \/ \E m \in Medium : ProcessMediumResponses(m) \/ RunRequests(m)
    \/ \E u \in Use : Deliver(u)

Next ==
    \/ LoopStep
    \/ \E a \in Action : \/ ExecuteAction(a) \/ AddPeriodicAction(a)
                         \/ IsReady(a) \/ ExecutePeriodic(a) \/ DirectResponse(a)
    \/ \E n \in Node : Connect(n) \/ Disconnect(n)
    \/ \E u \in Use : Answer(u)

Spec == Init /\ [][Next]_vars

\* The loop and the periodic executor never stop (loop, processingLoop), a timer
\* thread runs CTimeMedium::workLoop, and executeAction gets m_mutex in the end
\* although the loop takes it again in every turn.  Nothing is assumed of the
\* network or of what the state machines decide.
FairSpec ==
    /\ Spec
    /\ WF_vars(LoopStep)
    /\ \A a \in Periodic : WF_vars(IsReady(a)) /\ SF_vars(ExecutePeriodic(a))

-----------------------------------------------------------------------------
(* Properties                                                              *)

\* A request freed with its action is in no table of the loop, of a handler or
\* of a medium: all of them key on the address of the request, and the loop
\* would follow it (actionHandler.cpp:144-161, action.cpp:127-141).
NoDanglingRequest ==
    /\ \A u \in used \cup newRequests \cup held \cup stored \cup answered :
           u.request \notin deleted
    /\ reqToAction \cap deleted = {}

\* Outside m_mutex m_actions holds living actions only, and so does
\* m_reqToAction: the loop calls accept on both without looking
\* (actionHandler.cpp:208-253).
NoDanglingAction ==
    /\ MutexFree => actions \subseteq alive
    /\ \A r \in reqToAction : OwnerOf[r] \in alive

\* No action gets lost between the loop, executeAction and the periodic
\* executor: one marked in progress, which executeAction would therefore
\* ignore, is in m_actions, or waits to be reset
\* (actionHandler.cpp:67-77, periodicActionExecutor.cpp:24-41).
NoLostAction ==
    MutexFree => \A a \in inProgress : a \in actions \cup executed

\* An action that asked to leave does leave the loop, also when it forgot
\* requests that had not been handed out yet (action.cpp:98-119,
\* actionHandler.cpp:167-200).
ExitIsTaken ==
    \A a \in Action : (a \in exit \cap actions) ~> (a \notin actions)

\* The answer of a medium of the node itself, the end of a scheduled action
\* among them, reaches the state machine that still waits for it.
AnswerIsDelivered ==
    \A r \in Request, m \in {"time", "schedule", "error"} :
        LET u == [request |-> r, medium |-> m]
        IN  (u \in stored) ~> (\/ u \notin stored \cup answered
                               \/ r \notin requests
                               \/ OwnerOf[r] \in exit)

\* A periodic action that has been executed is executed again.
PeriodicRunsAgain ==
    \A a \in Periodic : (a \in executed) ~> (a \in actions)
=============================================================================
