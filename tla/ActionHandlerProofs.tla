------------------------- MODULE ActionHandlerProofs -------------------------
(* That no request or action is used after it was freed, and none is lost,   *)
(* for any number of actions, requests and mediums.                          *)
EXTENDS ActionHandler, TLAPS

\* A request of a living action only
Owned == \A r \in requests \cup dropped : OwnerOf[r] \in alive /\ r \notin deleted

\* What the loop watches in this turn belongs to actions it has already visited.
Watched ==
    /\ reqToAction \subseteq requests \cup dropped
    /\ phase = "collect" => \A r \in reqToAction : OwnerOf[r] \notin toVisit
    /\ phase = "run" => reqToAction = {}

\* m_currentlyUsedHandlers knows of every place a request is kept in.
InUse ==
    /\ newRequests \cup held \cup stored \cup answered \subseteq used
    /\ \A u \in used : u.request \in requests \cup dropped

\* A medium that no longer exists keeps nothing, and CScheduledActionManager
\* sees requests that schedule an action only.
AtMedium ==
    /\ invalid \subseteq Node
    /\ \A u \in used : u.medium = "schedule" => KindOf[u.request] = "schedule"
    /\ \A u \in held \cup stored : u.medium \notin invalid

\* What was handed out is processed before the next turn, and nothing else is.
Handed ==
    /\ \A u \in newRequests : u.medium \in toExecute
    /\ phase = "collect" => \A u \in newRequests : u.request \notin processed
    /\ \A r \in processed : r \in deleted \/ \E u \in used : u.request = r

\* m_actions, apart from what is about to be erased from it
Kept ==
    /\ actions \ toErase \subseteq alive
    /\ MutexFree => toErase = {}
    /\ inProgress \subseteq (actions \ toErase) \cup executed
    /\ ready \subseteq alive

IInv == TypeOK /\ Owned /\ Watched /\ InUse /\ AtMedium /\ Handed /\ Kept

\* Every step keeps the types.
LEMMA TypeStep ==
    ASSUME TypeOK, [Next]_vars
    PROVE  TypeOK'
<1> USE ActionHandlerAssumption DEF TypeOK, Medium, Use
<1>1. CASE BeginCollect
  BY <1>1 DEF BeginCollect, vars, flags, requestVars, mediumVars, handlerVars, loopVars
<1>2. CASE EndCollect
  BY <1>2 DEF EndCollect, vars, flags, requestVars, mediumVars, handlerVars, loopVars
<1>3. CASE EndDirect
  BY <1>3 DEF EndDirect, vars, flags, requestVars, mediumVars, handlerVars, loopVars
<1>4. CASE EndRead
  BY <1>4 DEF EndRead, Of, vars, flags, requestVars, mediumVars, handlerVars, loopVars
<1>5. CASE EndDeliver
  BY <1>5 DEF EndDeliver, vars, flags, requestVars, mediumVars, handlerVars, loopVars
<1>6. ASSUME NEW a \in Action, Visit(a) PROVE TypeOK'
  <2>1. CASE NeedToExit(a) /\ a \notin Periodic
    BY <1>6, <2>1 DEF Visit, EraseAction, DeleteAction, NeedToExit, ScheduledResult,
       Own, Of, vars, flags, requestVars, mediumVars, handlerVars, loopVars
  <2>2. CASE NeedToExit(a) /\ a \in Periodic
    BY <1>6, <2>2 DEF Visit, EraseAction, DeleteAction, vars, flags, requestVars,
       mediumVars, handlerVars, loopVars
  <2>3. CASE ~ NeedToExit(a)
    <3> DEFINE unserved == {r \in Own(a) : Of(used, {r}) = {}}
    <3>1. PICK mediums \in [unserved -> SUBSET Medium] :
            LET new == {u \in Use : u.request \in unserved
                                    /\ u.medium \in mediums[u.request]}
            IN  /\ used' = used \cup new
                /\ newRequests' = newRequests \cup new
                /\ handlers' = handlers \cup {u.medium : u \in new}
                /\ toExecute' = toExecute \cup {u.medium : u \in new}
                /\ reqToAction' = reqToAction \cup (Own(a) \cap requests)
      BY <1>6, <2>3 DEF Visit, SetRequests, ServeRequests
    <3> DEFINE new == {u \in Use : u.request \in unserved
                                  /\ u.medium \in mediums[u.request]}
    <3> HIDE DEF unserved, Medium
    <3>2. new \subseteq Use /\ {u.medium : u \in new} \subseteq Medium
      OBVIOUS
    <3>3. /\ used' \subseteq Use /\ newRequests' \subseteq Use
          /\ handlers' \subseteq Medium /\ toExecute' \subseteq Medium
          /\ handlers \subseteq handlers' /\ reqToAction' \subseteq Request
      BY <3>1, <3>2
    <3>4. QED
      BY <1>6, <2>3, <3>3 DEF Visit, vars, flags, requestVars, mediumVars,
         handlerVars, loopVars
  <2>4. QED
    BY <2>1, <2>2, <2>3
<1>7. ASSUME NEW m \in Medium, ProcessMediumResponses(m) PROVE TypeOK'
  BY <1>7 DEF ProcessMediumResponses, At, vars, flags, requestVars, mediumVars,
     handlerVars, loopVars
<1>8. ASSUME NEW m \in Medium, RunRequests(m) PROVE TypeOK'
  <2> DEFINE new == IF m \in invalid THEN {} ELSE At(newRequests, m)
             kids == IF m = "schedule" THEN Children({u.request : u \in new}) ELSE {}
  <2>1. kids \subseteq Action /\ new \subseteq Use
    BY DEF At, Children
  <2>2. PICK R \in NewRequests(kids) :
          /\ requests' = requests \cup R
          /\ exit' = exit \cup {a \in kids : \A r \in R : OwnerOf[r] # a}
    BY <1>8 DEF RunRequests
  <2>3. R \subseteq Request
    BY DEF NewRequests
  <2>4. /\ held' \subseteq Use /\ stored' \subseteq Use
        /\ newRequests' \subseteq Use /\ processed' \subseteq Request
    BY <1>8, <2>1 DEF RunRequests, At
  <2>5. /\ alive' = alive \cup kids /\ inProgress' = inProgress \cup kids
        /\ actions' = actions \cup kids
    BY <1>8 DEF RunRequests
  <2> HIDE DEF kids
  <2>6. QED
    BY <1>8, <2>1, <2>2, <2>3, <2>4, <2>5 DEF RunRequests, vars, flags, requestVars,
       mediumVars, handlerVars, loopVars
<1>9. ASSUME NEW u \in Use, Deliver(u) PROVE TypeOK'
  BY <1>9 DEF Deliver, React, NewRequests, Unborn, Own, vars, flags, requestVars,
     mediumVars, handlerVars, loopVars
<1>10. ASSUME NEW a \in Action, ExecuteAction(a) PROVE TypeOK'
  BY <1>10 DEF ExecuteAction, Initiate, NewRequests, Unborn, Own, Children, vars,
     flags, requestVars, mediumVars, handlerVars, loopVars
<1>11. ASSUME NEW a \in Action, AddPeriodicAction(a) PROVE TypeOK'
  BY <1>11 DEF AddPeriodicAction, Initiate, NewRequests, Unborn, Own, vars, flags,
     requestVars, mediumVars, handlerVars, loopVars
<1>12. ASSUME NEW a \in Action, IsReady(a) PROVE TypeOK'
  BY <1>12 DEF IsReady, Initiate, NewRequests, Unborn, Own, vars, flags, requestVars,
     mediumVars, handlerVars, loopVars
<1>13. ASSUME NEW a \in Action, ExecutePeriodic(a) PROVE TypeOK'
  BY <1>13 DEF ExecutePeriodic, vars, flags, requestVars, mediumVars, handlerVars,
     loopVars
<1>14. ASSUME NEW a \in Action, DirectResponse(a) PROVE TypeOK'
  BY <1>14 DEF DirectResponse, React, NewRequests, Unborn, Own, vars, flags,
     requestVars, mediumVars, handlerVars, loopVars
<1>15. ASSUME NEW n \in Node, Connect(n) PROVE TypeOK'
  BY <1>15 DEF Connect, vars, flags, requestVars, mediumVars, handlerVars, loopVars
<1>16. ASSUME NEW n \in Node, Disconnect(n) PROVE TypeOK'
  BY <1>16 DEF Disconnect, At, vars, flags, requestVars, mediumVars, handlerVars,
     loopVars
<1>17. ASSUME NEW u \in Use, Answer(u) PROVE TypeOK'
  BY <1>17 DEF Answer, vars, flags, requestVars, mediumVars, handlerVars, loopVars
<1>18. CASE UNCHANGED vars
  BY <1>18 DEF vars, flags, requestVars, mediumVars, handlerVars, loopVars
<1>19. QED
  BY <1>1, <1>2, <1>3, <1>4, <1>5, <1>6, <1>7, <1>8, <1>9, <1>10, <1>11, <1>12, <1>13,
     <1>14, <1>15, <1>16, <1>17, <1>18 DEF Next, LoopStep

\* Requests are added by living actions and freed with their owner.
LEMMA OwnedStep ==
    ASSUME TypeOK, Owned, InUse, Kept, [Next]_vars
    PROVE  Owned'
<1> USE ActionHandlerAssumption DEF TypeOK, Owned, InUse, Kept, MutexFree, Medium, Use
<1>1. CASE BeginCollect
  BY <1>1 DEF BeginCollect, vars, flags, requestVars, mediumVars, handlerVars, loopVars
<1>2. CASE EndCollect
  BY <1>2 DEF EndCollect, vars, flags, requestVars, mediumVars, handlerVars, loopVars
<1>3. CASE EndDirect
  BY <1>3 DEF EndDirect, vars, flags, requestVars, mediumVars, handlerVars, loopVars
<1>4. CASE EndRead
  BY <1>4 DEF EndRead, Of, vars, flags, requestVars, mediumVars, handlerVars, loopVars
<1>5. CASE EndDeliver
  BY <1>5 DEF EndDeliver, vars, flags, requestVars, mediumVars, handlerVars, loopVars
<1>6. ASSUME NEW a \in Action, Visit(a) PROVE Owned'
  <2>1. CASE NeedToExit(a) /\ a \notin Periodic
    BY <1>6, <2>1 DEF Visit, EraseAction, DeleteAction, NeedToExit, ScheduledResult,
       Own, Of, vars, flags, requestVars, mediumVars, handlerVars, loopVars
  <2>2. CASE NeedToExit(a) /\ a \in Periodic
    BY <1>6, <2>2 DEF Visit, EraseAction, DeleteAction, vars, flags, requestVars,
       mediumVars, handlerVars, loopVars
  <2>3. CASE ~ NeedToExit(a)
    BY <1>6, <2>3 DEF Visit, SetRequests, ServeRequests, Own, Of, vars, flags,
       requestVars, mediumVars, handlerVars, loopVars
  <2>4. QED
    BY <2>1, <2>2, <2>3
<1>7. ASSUME NEW m \in Medium, ProcessMediumResponses(m) PROVE Owned'
  BY <1>7 DEF ProcessMediumResponses, At, vars, flags, requestVars, mediumVars,
     handlerVars, loopVars
<1>8. ASSUME NEW m \in Medium, RunRequests(m) PROVE Owned'
  BY <1>8 DEF RunRequests, At, NewRequests, Unborn, Children, vars, flags,
     requestVars, mediumVars, handlerVars, loopVars
<1>9. ASSUME NEW u \in Use, Deliver(u) PROVE Owned'
  BY <1>9 DEF Deliver, React, NewRequests, Unborn, Own, vars, flags, requestVars,
     mediumVars, handlerVars, loopVars
<1>10. ASSUME NEW a \in Action, ExecuteAction(a) PROVE Owned'
  BY <1>10 DEF ExecuteAction, Initiate, NewRequests, Unborn, Own, Children, vars,
     flags, requestVars, mediumVars, handlerVars, loopVars
<1>11. ASSUME NEW a \in Action, AddPeriodicAction(a) PROVE Owned'
  BY <1>11 DEF AddPeriodicAction, Initiate, NewRequests, Unborn, Own, vars, flags,
     requestVars, mediumVars, handlerVars, loopVars
<1>12. ASSUME NEW a \in Action, IsReady(a) PROVE Owned'
  BY <1>12 DEF IsReady, Initiate, NewRequests, Unborn, Own, vars, flags, requestVars,
     mediumVars, handlerVars, loopVars
<1>13. ASSUME NEW a \in Action, ExecutePeriodic(a) PROVE Owned'
  BY <1>13 DEF ExecutePeriodic, vars, flags, requestVars, mediumVars, handlerVars,
     loopVars
<1>14. ASSUME NEW a \in Action, DirectResponse(a) PROVE Owned'
  BY <1>14 DEF DirectResponse, React, NewRequests, Unborn, Own, vars, flags,
     requestVars, mediumVars, handlerVars, loopVars
<1>15. ASSUME NEW n \in Node, Connect(n) PROVE Owned'
  BY <1>15 DEF Connect, vars, flags, requestVars, mediumVars, handlerVars, loopVars
<1>16. ASSUME NEW n \in Node, Disconnect(n) PROVE Owned'
  BY <1>16 DEF Disconnect, At, vars, flags, requestVars, mediumVars, handlerVars,
     loopVars
<1>17. ASSUME NEW u \in Use, Answer(u) PROVE Owned'
  BY <1>17 DEF Answer, vars, flags, requestVars, mediumVars, handlerVars, loopVars
<1>18. CASE UNCHANGED vars
  BY <1>18 DEF vars, flags, requestVars, mediumVars, handlerVars, loopVars
<1>19. QED
  BY <1>1, <1>2, <1>3, <1>4, <1>5, <1>6, <1>7, <1>8, <1>9, <1>10, <1>11, <1>12, <1>13,
     <1>14, <1>15, <1>16, <1>17, <1>18 DEF Next, LoopStep

\* m_reqToAction is filled while m_actions is visited and emptied before the
\* next turn.
LEMMA WatchedStep ==
    ASSUME TypeOK, Owned, Watched, [Next]_vars
    PROVE  Watched'
<1> USE ActionHandlerAssumption DEF TypeOK, Owned, Watched, Medium, Use
<1>1. CASE BeginCollect
  BY <1>1 DEF BeginCollect, vars, flags, requestVars, mediumVars, handlerVars, loopVars
<1>2. CASE EndCollect
  BY <1>2 DEF EndCollect, vars, flags, requestVars, mediumVars, handlerVars, loopVars
<1>3. CASE EndDirect
  BY <1>3 DEF EndDirect, vars, flags, requestVars, mediumVars, handlerVars, loopVars
<1>4. CASE EndRead
  BY <1>4 DEF EndRead, Of, vars, flags, requestVars, mediumVars, handlerVars, loopVars
<1>5. CASE EndDeliver
  BY <1>5 DEF EndDeliver, vars, flags, requestVars, mediumVars, handlerVars, loopVars
<1>6. ASSUME NEW a \in Action, Visit(a) PROVE Watched'
  <2>1. CASE NeedToExit(a) /\ a \notin Periodic
    BY <1>6, <2>1 DEF Visit, EraseAction, DeleteAction, NeedToExit, ScheduledResult,
       Own, Of, vars, flags, requestVars, mediumVars, handlerVars, loopVars
  <2>2. CASE NeedToExit(a) /\ a \in Periodic
    BY <1>6, <2>2 DEF Visit, EraseAction, DeleteAction, vars, flags, requestVars,
       mediumVars, handlerVars, loopVars
  <2>3. CASE ~ NeedToExit(a)
    BY <1>6, <2>3 DEF Visit, SetRequests, ServeRequests, Own, Of, vars, flags,
       requestVars, mediumVars, handlerVars, loopVars
  <2>4. QED
    BY <2>1, <2>2, <2>3
<1>7. ASSUME NEW m \in Medium, ProcessMediumResponses(m) PROVE Watched'
  BY <1>7 DEF ProcessMediumResponses, At, vars, flags, requestVars, mediumVars,
     handlerVars, loopVars
<1>8. ASSUME NEW m \in Medium, RunRequests(m) PROVE Watched'
  BY <1>8 DEF RunRequests, At, NewRequests, Unborn, Children, vars, flags,
     requestVars, mediumVars, handlerVars, loopVars
<1>9. ASSUME NEW u \in Use, Deliver(u) PROVE Watched'
  BY <1>9 DEF Deliver, React, NewRequests, Unborn, Own, vars, flags, requestVars,
     mediumVars, handlerVars, loopVars
<1>10. ASSUME NEW a \in Action, ExecuteAction(a) PROVE Watched'
  BY <1>10 DEF ExecuteAction, Initiate, NewRequests, Unborn, Own, Children, vars,
     flags, requestVars, mediumVars, handlerVars, loopVars
<1>11. ASSUME NEW a \in Action, AddPeriodicAction(a) PROVE Watched'
  BY <1>11 DEF AddPeriodicAction, Initiate, NewRequests, Unborn, Own, vars, flags,
     requestVars, mediumVars, handlerVars, loopVars
<1>12. ASSUME NEW a \in Action, IsReady(a) PROVE Watched'
  BY <1>12 DEF IsReady, Initiate, NewRequests, Unborn, Own, vars, flags, requestVars,
     mediumVars, handlerVars, loopVars
<1>13. ASSUME NEW a \in Action, ExecutePeriodic(a) PROVE Watched'
  BY <1>13 DEF ExecutePeriodic, vars, flags, requestVars, mediumVars, handlerVars,
     loopVars
<1>14. ASSUME NEW a \in Action, DirectResponse(a) PROVE Watched'
  BY <1>14 DEF DirectResponse, React, NewRequests, Unborn, Own, vars, flags,
     requestVars, mediumVars, handlerVars, loopVars
<1>15. ASSUME NEW n \in Node, Connect(n) PROVE Watched'
  BY <1>15 DEF Connect, vars, flags, requestVars, mediumVars, handlerVars, loopVars
<1>16. ASSUME NEW n \in Node, Disconnect(n) PROVE Watched'
  BY <1>16 DEF Disconnect, At, vars, flags, requestVars, mediumVars, handlerVars,
     loopVars
<1>17. ASSUME NEW u \in Use, Answer(u) PROVE Watched'
  BY <1>17 DEF Answer, vars, flags, requestVars, mediumVars, handlerVars, loopVars
<1>18. CASE UNCHANGED vars
  BY <1>18 DEF vars, flags, requestVars, mediumVars, handlerVars, loopVars
<1>19. QED
  BY <1>1, <1>2, <1>3, <1>4, <1>5, <1>6, <1>7, <1>8, <1>9, <1>10, <1>11, <1>12, <1>13,
     <1>14, <1>15, <1>16, <1>17, <1>18 DEF Next, LoopStep

\* An action leaves together with every trace of its requests.
LEMMA InUseStep ==
    ASSUME TypeOK, Owned, InUse, AtMedium, Handed, [Next]_vars
    PROVE  InUse'
<1> USE ActionHandlerAssumption DEF TypeOK, Owned, InUse, AtMedium, Handed, Medium, Use
<1>1. CASE BeginCollect
  BY <1>1 DEF BeginCollect, vars, flags, requestVars, mediumVars, handlerVars, loopVars
<1>2. CASE EndCollect
  BY <1>2 DEF EndCollect, vars, flags, requestVars, mediumVars, handlerVars, loopVars
<1>3. CASE EndDirect
  BY <1>3 DEF EndDirect, vars, flags, requestVars, mediumVars, handlerVars, loopVars
<1>4. CASE EndRead
  BY <1>4 DEF EndRead, Of, vars, flags, requestVars, mediumVars, handlerVars, loopVars
<1>5. CASE EndDeliver
  BY <1>5 DEF EndDeliver, vars, flags, requestVars, mediumVars, handlerVars, loopVars
<1>6. ASSUME NEW a \in Action, Visit(a) PROVE InUse'
  <2>1. CASE NeedToExit(a) /\ a \notin Periodic
    <3> DEFINE mine == Of(used, Own(a))
               reachable == {u \in mine : u.medium \notin invalid}
    <3>1. /\ used' = used \ mine /\ answered' = answered \ mine
          /\ held' = held \ reachable
          /\ stored' = (stored \ reachable) \cup ScheduledResult(a)
          /\ newRequests' = newRequests
          /\ requests' = requests \ Own(a) /\ dropped' = dropped \ Own(a)
      BY <1>6, <2>1 DEF Visit, EraseAction, DeleteAction
    <3>2. (held \ reachable) \cap mine = {} /\ (stored \ reachable) \cap mine = {}
      OBVIOUS
    <3>3. newRequests \cap mine = {}
      BY <1>6, <2>1 DEF Visit, NeedToExit, Of
    <3>4. ScheduledResult(a) \subseteq used /\ ScheduledResult(a) \cap mine = {}
      <4>1. ScheduledResult(a) \subseteq held
        BY DEF ScheduledResult
      <4>2. ASSUME NEW u \in ScheduledResult(a) PROVE u \notin mine
        <5>1. u.request \in Request /\ ChildOf[u.request] = a /\ u.medium = "schedule"
          BY <4>1 DEF ScheduledResult
        <5>2. KindOf[u.request] = "schedule"
          BY <4>1, <5>1
        <5>3. QED
          BY <5>1, <5>2 DEF Of, Own
      <4>3. QED
        BY <4>1, <4>2
    <3>5. \A u \in used \ mine : u.request \notin Own(a)
      BY DEF Of
    <3> HIDE DEF mine, reachable
    <3>6. QED
      BY <3>1, <3>2, <3>3, <3>4, <3>5
  <2>2. CASE NeedToExit(a) /\ a \in Periodic
    BY <1>6, <2>2 DEF Visit, EraseAction, DeleteAction, vars, flags, requestVars,
       mediumVars, handlerVars, loopVars
  <2>3. CASE ~ NeedToExit(a)
    BY <1>6, <2>3 DEF Visit, SetRequests, ServeRequests, Own, Of, vars, flags,
       requestVars, mediumVars, handlerVars, loopVars
  <2>4. QED
    BY <2>1, <2>2, <2>3
<1>7. ASSUME NEW m \in Medium, ProcessMediumResponses(m) PROVE InUse'
  BY <1>7 DEF ProcessMediumResponses, At, vars, flags, requestVars, mediumVars,
     handlerVars, loopVars
<1>8. ASSUME NEW m \in Medium, RunRequests(m) PROVE InUse'
  BY <1>8 DEF RunRequests, At, NewRequests, Unborn, Children, vars, flags,
     requestVars, mediumVars, handlerVars, loopVars
<1>9. ASSUME NEW u \in Use, Deliver(u) PROVE InUse'
  BY <1>9 DEF Deliver, React, NewRequests, Unborn, Own, vars, flags, requestVars,
     mediumVars, handlerVars, loopVars
<1>10. ASSUME NEW a \in Action, ExecuteAction(a) PROVE InUse'
  BY <1>10 DEF ExecuteAction, Initiate, NewRequests, Unborn, Own, Children, vars,
     flags, requestVars, mediumVars, handlerVars, loopVars
<1>11. ASSUME NEW a \in Action, AddPeriodicAction(a) PROVE InUse'
  BY <1>11 DEF AddPeriodicAction, Initiate, NewRequests, Unborn, Own, vars, flags,
     requestVars, mediumVars, handlerVars, loopVars
<1>12. ASSUME NEW a \in Action, IsReady(a) PROVE InUse'
  BY <1>12 DEF IsReady, Initiate, NewRequests, Unborn, Own, vars, flags, requestVars,
     mediumVars, handlerVars, loopVars
<1>13. ASSUME NEW a \in Action, ExecutePeriodic(a) PROVE InUse'
  BY <1>13 DEF ExecutePeriodic, vars, flags, requestVars, mediumVars, handlerVars,
     loopVars
<1>14. ASSUME NEW a \in Action, DirectResponse(a) PROVE InUse'
  BY <1>14 DEF DirectResponse, React, NewRequests, Unborn, Own, vars, flags,
     requestVars, mediumVars, handlerVars, loopVars
<1>15. ASSUME NEW n \in Node, Connect(n) PROVE InUse'
  BY <1>15 DEF Connect, vars, flags, requestVars, mediumVars, handlerVars, loopVars
<1>16. ASSUME NEW n \in Node, Disconnect(n) PROVE InUse'
  BY <1>16 DEF Disconnect, At, vars, flags, requestVars, mediumVars, handlerVars,
     loopVars
<1>17. ASSUME NEW u \in Use, Answer(u) PROVE InUse'
  BY <1>17 DEF Answer, vars, flags, requestVars, mediumVars, handlerVars, loopVars
<1>18. CASE UNCHANGED vars
  BY <1>18 DEF vars, flags, requestVars, mediumVars, handlerVars, loopVars
<1>19. QED
  BY <1>1, <1>2, <1>3, <1>4, <1>5, <1>6, <1>7, <1>8, <1>9, <1>10, <1>11, <1>12, <1>13,
     <1>14, <1>15, <1>16, <1>17, <1>18 DEF Next, LoopStep

\* A destroyed medium gets no new requests.
LEMMA AtMediumStep ==
    ASSUME TypeOK, InUse, AtMedium, [Next]_vars
    PROVE  AtMedium'
<1> USE ActionHandlerAssumption DEF TypeOK, InUse, AtMedium, Medium, Use
<1>1. CASE BeginCollect
  BY <1>1 DEF BeginCollect, vars, flags, requestVars, mediumVars, handlerVars, loopVars
<1>2. CASE EndCollect
  BY <1>2 DEF EndCollect, vars, flags, requestVars, mediumVars, handlerVars, loopVars
<1>3. CASE EndDirect
  BY <1>3 DEF EndDirect, vars, flags, requestVars, mediumVars, handlerVars, loopVars
<1>4. CASE EndRead
  BY <1>4 DEF EndRead, Of, vars, flags, requestVars, mediumVars, handlerVars, loopVars
<1>5. CASE EndDeliver
  BY <1>5 DEF EndDeliver, vars, flags, requestVars, mediumVars, handlerVars, loopVars
<1>6. ASSUME NEW a \in Action, Visit(a) PROVE AtMedium'
  <2>1. CASE NeedToExit(a) /\ a \notin Periodic
    BY <1>6, <2>1 DEF Visit, EraseAction, DeleteAction, NeedToExit, ScheduledResult,
       Own, Of, vars, flags, requestVars, mediumVars, handlerVars, loopVars
  <2>2. CASE NeedToExit(a) /\ a \in Periodic
    BY <1>6, <2>2 DEF Visit, EraseAction, DeleteAction, vars, flags, requestVars,
       mediumVars, handlerVars, loopVars
  <2>3. CASE ~ NeedToExit(a)
    <3> DEFINE unserved == {r \in Own(a) : Of(used, {r}) = {}}
    <3>1. PICK mediums \in [unserved -> SUBSET Medium] :
            LET new == {u \in Use : u.request \in unserved
                                    /\ u.medium \in mediums[u.request]}
            IN  /\ \A r \in unserved : mediums[r] \in ProvideHandler(r)
                /\ used' = used \cup new
      BY <1>6, <2>3 DEF Visit, SetRequests, ServeRequests
    <3> DEFINE new == {u \in Use : u.request \in unserved
                                  /\ u.medium \in mediums[u.request]}
    <3>2. ASSUME NEW u \in new, u.medium = "schedule"
          PROVE  KindOf[u.request] = "schedule"
      <4>1. u.request \in Request /\ mediums[u.request] \in ProvideHandler(u.request)
            /\ "schedule" \in mediums[u.request]
        BY <3>1, <3>2
      <4>2. QED
        BY <4>1 DEF ProvideHandler
    <3>3. held' = held /\ stored' = stored /\ invalid' = invalid
      BY <1>6, <2>3 DEF Visit, vars, flags, requestVars, mediumVars, handlerVars,
         loopVars
    <3>4. QED
      BY <3>1, <3>2, <3>3
  <2>4. QED
    BY <2>1, <2>2, <2>3
<1>7. ASSUME NEW m \in Medium, ProcessMediumResponses(m) PROVE AtMedium'
  BY <1>7 DEF ProcessMediumResponses, At, vars, flags, requestVars, mediumVars,
     handlerVars, loopVars
<1>8. ASSUME NEW m \in Medium, RunRequests(m) PROVE AtMedium'
  BY <1>8 DEF RunRequests, At, NewRequests, Unborn, Children, vars, flags,
     requestVars, mediumVars, handlerVars, loopVars
<1>9. ASSUME NEW u \in Use, Deliver(u) PROVE AtMedium'
  BY <1>9 DEF Deliver, React, NewRequests, Unborn, Own, vars, flags, requestVars,
     mediumVars, handlerVars, loopVars
<1>10. ASSUME NEW a \in Action, ExecuteAction(a) PROVE AtMedium'
  BY <1>10 DEF ExecuteAction, Initiate, NewRequests, Unborn, Own, Children, vars,
     flags, requestVars, mediumVars, handlerVars, loopVars
<1>11. ASSUME NEW a \in Action, AddPeriodicAction(a) PROVE AtMedium'
  BY <1>11 DEF AddPeriodicAction, Initiate, NewRequests, Unborn, Own, vars, flags,
     requestVars, mediumVars, handlerVars, loopVars
<1>12. ASSUME NEW a \in Action, IsReady(a) PROVE AtMedium'
  BY <1>12 DEF IsReady, Initiate, NewRequests, Unborn, Own, vars, flags, requestVars,
     mediumVars, handlerVars, loopVars
<1>13. ASSUME NEW a \in Action, ExecutePeriodic(a) PROVE AtMedium'
  BY <1>13 DEF ExecutePeriodic, vars, flags, requestVars, mediumVars, handlerVars,
     loopVars
<1>14. ASSUME NEW a \in Action, DirectResponse(a) PROVE AtMedium'
  BY <1>14 DEF DirectResponse, React, NewRequests, Unborn, Own, vars, flags,
     requestVars, mediumVars, handlerVars, loopVars
<1>15. ASSUME NEW n \in Node, Connect(n) PROVE AtMedium'
  BY <1>15 DEF Connect, vars, flags, requestVars, mediumVars, handlerVars, loopVars
<1>16. ASSUME NEW n \in Node, Disconnect(n) PROVE AtMedium'
  BY <1>16 DEF Disconnect, At, vars, flags, requestVars, mediumVars, handlerVars,
     loopVars
<1>17. ASSUME NEW u \in Use, Answer(u) PROVE AtMedium'
  BY <1>17 DEF Answer, vars, flags, requestVars, mediumVars, handlerVars, loopVars
<1>18. CASE UNCHANGED vars
  BY <1>18 DEF vars, flags, requestVars, mediumVars, handlerVars, loopVars
<1>19. QED
  BY <1>1, <1>2, <1>3, <1>4, <1>5, <1>6, <1>7, <1>8, <1>9, <1>10, <1>11, <1>12, <1>13,
     <1>14, <1>15, <1>16, <1>17, <1>18 DEF Next, LoopStep

\* Every new request is run in the turn it was handed out.
LEMMA HandedStep ==
    ASSUME TypeOK, Owned, InUse, Handed, [Next]_vars
    PROVE  Handed'
<1> USE ActionHandlerAssumption DEF TypeOK, Owned, InUse, Handed, Medium, Use
<1>1. CASE BeginCollect
  BY <1>1 DEF BeginCollect, vars, flags, requestVars, mediumVars, handlerVars, loopVars
<1>2. CASE EndCollect
  BY <1>2 DEF EndCollect, vars, flags, requestVars, mediumVars, handlerVars, loopVars
<1>3. CASE EndDirect
  BY <1>3 DEF EndDirect, vars, flags, requestVars, mediumVars, handlerVars, loopVars
<1>4. CASE EndRead
  BY <1>4 DEF EndRead, Of, vars, flags, requestVars, mediumVars, handlerVars, loopVars
<1>5. CASE EndDeliver
  BY <1>5 DEF EndDeliver, vars, flags, requestVars, mediumVars, handlerVars, loopVars
<1>6. ASSUME NEW a \in Action, Visit(a) PROVE Handed'
  <2>1. CASE NeedToExit(a) /\ a \notin Periodic
    BY <1>6, <2>1 DEF Visit, EraseAction, DeleteAction, NeedToExit, ScheduledResult,
       Own, Of, vars, flags, requestVars, mediumVars, handlerVars, loopVars
  <2>2. CASE NeedToExit(a) /\ a \in Periodic
    BY <1>6, <2>2 DEF Visit, EraseAction, DeleteAction, vars, flags, requestVars,
       mediumVars, handlerVars, loopVars
  <2>3. CASE ~ NeedToExit(a)
    <3> DEFINE unserved == {r \in Own(a) : Of(used, {r}) = {}}
    <3>1. PICK mediums \in [unserved -> SUBSET Medium] :
            LET new == {u \in Use : u.request \in unserved
                                    /\ u.medium \in mediums[u.request]}
            IN  /\ used' = used \cup new
                /\ newRequests' = newRequests \cup new
                /\ toExecute' = toExecute \cup {u.medium : u \in new}
      BY <1>6, <2>3 DEF Visit, SetRequests, ServeRequests
    <3> DEFINE new == {u \in Use : u.request \in unserved
                                  /\ u.medium \in mediums[u.request]}
    <3>2. processed' = processed /\ deleted' = deleted /\ phase' = phase
      BY <1>6, <2>3 DEF Visit, vars, flags, requestVars, mediumVars, handlerVars,
         loopVars
    <3>3. \A u \in new : u.request \notin processed
      BY <2>3 DEF Own, Of
    <3>4. QED
      BY <3>1, <3>2, <3>3
  <2>4. QED
    BY <2>1, <2>2, <2>3
<1>7. ASSUME NEW m \in Medium, ProcessMediumResponses(m) PROVE Handed'
  BY <1>7 DEF ProcessMediumResponses, At, vars, flags, requestVars, mediumVars,
     handlerVars, loopVars
<1>8. ASSUME NEW m \in Medium, RunRequests(m) PROVE Handed'
  BY <1>8 DEF RunRequests, At, NewRequests, Unborn, Children, vars, flags,
     requestVars, mediumVars, handlerVars, loopVars
<1>9. ASSUME NEW u \in Use, Deliver(u) PROVE Handed'
  BY <1>9 DEF Deliver, React, NewRequests, Unborn, Own, vars, flags, requestVars,
     mediumVars, handlerVars, loopVars
<1>10. ASSUME NEW a \in Action, ExecuteAction(a) PROVE Handed'
  BY <1>10 DEF ExecuteAction, Initiate, NewRequests, Unborn, Own, Children, vars,
     flags, requestVars, mediumVars, handlerVars, loopVars
<1>11. ASSUME NEW a \in Action, AddPeriodicAction(a) PROVE Handed'
  BY <1>11 DEF AddPeriodicAction, Initiate, NewRequests, Unborn, Own, vars, flags,
     requestVars, mediumVars, handlerVars, loopVars
<1>12. ASSUME NEW a \in Action, IsReady(a) PROVE Handed'
  BY <1>12 DEF IsReady, Initiate, NewRequests, Unborn, Own, vars, flags, requestVars,
     mediumVars, handlerVars, loopVars
<1>13. ASSUME NEW a \in Action, ExecutePeriodic(a) PROVE Handed'
  BY <1>13 DEF ExecutePeriodic, vars, flags, requestVars, mediumVars, handlerVars,
     loopVars
<1>14. ASSUME NEW a \in Action, DirectResponse(a) PROVE Handed'
  BY <1>14 DEF DirectResponse, React, NewRequests, Unborn, Own, vars, flags,
     requestVars, mediumVars, handlerVars, loopVars
<1>15. ASSUME NEW n \in Node, Connect(n) PROVE Handed'
  BY <1>15 DEF Connect, vars, flags, requestVars, mediumVars, handlerVars, loopVars
<1>16. ASSUME NEW n \in Node, Disconnect(n) PROVE Handed'
  BY <1>16 DEF Disconnect, At, vars, flags, requestVars, mediumVars, handlerVars,
     loopVars
<1>17. ASSUME NEW u \in Use, Answer(u) PROVE Handed'
  BY <1>17 DEF Answer, vars, flags, requestVars, mediumVars, handlerVars, loopVars
<1>18. CASE UNCHANGED vars
  BY <1>18 DEF vars, flags, requestVars, mediumVars, handlerVars, loopVars
<1>19. QED
  BY <1>1, <1>2, <1>3, <1>4, <1>5, <1>6, <1>7, <1>8, <1>9, <1>10, <1>11, <1>12, <1>13,
     <1>14, <1>15, <1>16, <1>17, <1>18 DEF Next, LoopStep

\* An action in progress is in m_actions or executed.
LEMMA KeptStep ==
    ASSUME TypeOK, Kept, [Next]_vars
    PROVE  Kept'
<1> USE ActionHandlerAssumption DEF TypeOK, Kept, MutexFree, Medium, Use
<1>1. CASE BeginCollect
  BY <1>1 DEF BeginCollect, vars, flags, requestVars, mediumVars, handlerVars, loopVars
<1>2. CASE EndCollect
  BY <1>2 DEF EndCollect, vars, flags, requestVars, mediumVars, handlerVars, loopVars
<1>3. CASE EndDirect
  BY <1>3 DEF EndDirect, vars, flags, requestVars, mediumVars, handlerVars, loopVars
<1>4. CASE EndRead
  BY <1>4 DEF EndRead, Of, vars, flags, requestVars, mediumVars, handlerVars, loopVars
<1>5. CASE EndDeliver
  BY <1>5 DEF EndDeliver, vars, flags, requestVars, mediumVars, handlerVars, loopVars
<1>6. ASSUME NEW a \in Action, Visit(a) PROVE Kept'
  <2>1. CASE NeedToExit(a) /\ a \notin Periodic
    BY <1>6, <2>1 DEF Visit, EraseAction, DeleteAction, NeedToExit, ScheduledResult,
       Own, Of, vars, flags, requestVars, mediumVars, handlerVars, loopVars
  <2>2. CASE NeedToExit(a) /\ a \in Periodic
    BY <1>6, <2>2 DEF Visit, EraseAction, DeleteAction, vars, flags, requestVars,
       mediumVars, handlerVars, loopVars
  <2>3. CASE ~ NeedToExit(a)
    BY <1>6, <2>3 DEF Visit, SetRequests, ServeRequests, Own, Of, vars, flags,
       requestVars, mediumVars, handlerVars, loopVars
  <2>4. QED
    BY <2>1, <2>2, <2>3
<1>7. ASSUME NEW m \in Medium, ProcessMediumResponses(m) PROVE Kept'
  BY <1>7 DEF ProcessMediumResponses, At, vars, flags, requestVars, mediumVars,
     handlerVars, loopVars
<1>8. ASSUME NEW m \in Medium, RunRequests(m) PROVE Kept'
  BY <1>8 DEF RunRequests, At, NewRequests, Unborn, Children, vars, flags,
     requestVars, mediumVars, handlerVars, loopVars
<1>9. ASSUME NEW u \in Use, Deliver(u) PROVE Kept'
  BY <1>9 DEF Deliver, React, NewRequests, Unborn, Own, vars, flags, requestVars,
     mediumVars, handlerVars, loopVars
<1>10. ASSUME NEW a \in Action, ExecuteAction(a) PROVE Kept'
  BY <1>10 DEF ExecuteAction, Initiate, NewRequests, Unborn, Own, Children, vars,
     flags, requestVars, mediumVars, handlerVars, loopVars
<1>11. ASSUME NEW a \in Action, AddPeriodicAction(a) PROVE Kept'
  BY <1>11 DEF AddPeriodicAction, Initiate, NewRequests, Unborn, Own, vars, flags,
     requestVars, mediumVars, handlerVars, loopVars
<1>12. ASSUME NEW a \in Action, IsReady(a) PROVE Kept'
  BY <1>12 DEF IsReady, Initiate, NewRequests, Unborn, Own, vars, flags, requestVars,
     mediumVars, handlerVars, loopVars
<1>13. ASSUME NEW a \in Action, ExecutePeriodic(a) PROVE Kept'
  BY <1>13 DEF ExecutePeriodic, vars, flags, requestVars, mediumVars, handlerVars,
     loopVars
<1>14. ASSUME NEW a \in Action, DirectResponse(a) PROVE Kept'
  BY <1>14 DEF DirectResponse, React, NewRequests, Unborn, Own, vars, flags,
     requestVars, mediumVars, handlerVars, loopVars
<1>15. ASSUME NEW n \in Node, Connect(n) PROVE Kept'
  BY <1>15 DEF Connect, vars, flags, requestVars, mediumVars, handlerVars, loopVars
<1>16. ASSUME NEW n \in Node, Disconnect(n) PROVE Kept'
  BY <1>16 DEF Disconnect, At, vars, flags, requestVars, mediumVars, handlerVars,
     loopVars
<1>17. ASSUME NEW u \in Use, Answer(u) PROVE Kept'
  BY <1>17 DEF Answer, vars, flags, requestVars, mediumVars, handlerVars, loopVars
<1>18. CASE UNCHANGED vars
  BY <1>18 DEF vars, flags, requestVars, mediumVars, handlerVars, loopVars
<1>19. QED
  BY <1>1, <1>2, <1>3, <1>4, <1>5, <1>6, <1>7, <1>8, <1>9, <1>10, <1>11, <1>12, <1>13,
     <1>14, <1>15, <1>16, <1>17, <1>18 DEF Next, LoopStep

\* The inductive invariant holds in every state.
LEMMA IInvHolds == Spec => []IInv
<1>1. Init => IInv
  BY ActionHandlerAssumption DEF Init, IInv, TypeOK, Owned, Watched, InUse, AtMedium,
     Handed, Kept,
     MutexFree, Medium, Use
<1>2. IInv /\ [Next]_vars => IInv'
  BY TypeStep, OwnedStep, WatchedStep, InUseStep, AtMediumStep, HandedStep,
     KeptStep DEF IInv
<1>3. QED
  BY <1>1, <1>2, PTL DEF Spec

\* The tables of the loop, the handlers and the mediums keep their types.
THEOREM TypeCorrect == Spec => []TypeOK
<1>1. IInv => TypeOK
  BY DEF IInv
<1>2. QED
  BY <1>1, IInvHolds, PTL

\* No table holds a request that ~CAction freed (actionHandler.cpp:144-161).
THEOREM RequestTheorem == Spec => []NoDanglingRequest
<1>1. IInv => NoDanglingRequest
  BY DEF IInv, NoDanglingRequest, InUse, Owned, Watched
<1>2. QED
  BY <1>1, IInvHolds, PTL

\* The loop calls no action that was deleted (actionHandler.cpp:208-253).
THEOREM ActionTheorem == Spec => []NoDanglingAction
<1>1. IInv => NoDanglingAction
  BY DEF IInv, NoDanglingAction, Kept, Owned, Watched
<1>2. QED
  BY <1>1, IInvHolds, PTL

\* No action in progress falls out of the loop (actionHandler.cpp:67-77,
\* periodicActionExecutor.cpp:24-41).
THEOREM LostTheorem == Spec => []NoLostAction
<1>1. IInv => NoLostAction
  BY DEF IInv, NoLostAction, Kept
<1>2. QED
  BY <1>1, IInvHolds, PTL
=============================================================================
