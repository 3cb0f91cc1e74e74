-------------------------- MODULE NodeMediumProofs --------------------------
(***************************************************************************)
(* Proofs about NodeMedium, for any number of requests, actions, ids and   *)
(* messages.                                                               *)
(***************************************************************************)
EXTENDS NodeMedium, TLAPS

\* Outside getResponseAndClear its local results are empty, and inside it only
\* the indexes already passed have been taken.
ReadProgress ==
    /\ iterator = 0 => requestResponse = {}
    /\ \A s \in deleteList : s.id < iterator

\* m_idToRequest maps an id to a request that carries it (setLastRequest).
IndexedById ==
    \A i \in Id : idToRequest[i] # NoRequest => IdOf[idToRequest[i]] = i

\* A message between look-up and insertion has its number.
MessageNumbered == inFlight # Nothing => serial \in Serial

\* Everything in the containers has arrived, and a message that is still
\* between look-up and insertion is younger than all of it.
Arrived ==
    \A x \in responses \cup actionToResponse \cup processedRequests
             \cup requestResponse \cup handed :
        x.serial <= serial /\ (inFlight # Nothing => x.serial < serial)

\* What was read from the medium for an id is older than what it still keeps.
ReadInOrder ==
    \A s \in responses \ deleteList :
        /\ \A h \in handed : h.to \in Request /\ IdOf[h.to] = s.id
                                => h.serial < s.serial
        /\ \A p \in processedRequests \cup requestResponse :
               p.to \in Request /\ IdOf[p.to] = s.id => p.serial < s.serial

IInv == /\ TypeOK /\ MessageNumbered /\ ReadProgress /\ IndexedById
        /\ Arrived /\ ReadInOrder
        /\ StoredResponseIsQueued /\ NoDanglingRequest /\ HandedInOrder

\* Every step keeps every container well typed.
LEMMA TypeStep ==
    ASSUME TypeOK, MessageNumbered, [Next]_vars
    PROVE  TypeOK' /\ MessageNumbered'
<1> USE NodeMediumAssumption DEF Serial, Stored, Queued, Direct, Answer,
    Handed, Message, Nothing, Id
<1>1. ASSUME NEW a \in ActionKey, NEW i \in Id, NEW k \in {"request", "action"},
             IsServicedByAction(a, i, k)
      PROVE  TypeOK' /\ MessageNumbered'
  BY <1>1 DEF IsServicedByAction, MutexFree, readVars, TypeOK, MessageNumbered
<1>2. CASE SetResponse
  <2>1. inFlight \in Message /\ serial \in Serial
    BY <1>2 DEF SetResponse, TypeOK, MessageNumbered
  <2>2. /\ [serial |-> serial, id |-> inFlight.id] \in Stored
        /\ [serial |-> serial, key |-> inFlight.id] \in Queued
    BY <2>1
  <2> QED
    BY <1>2, <2>1, <2>2 DEF SetResponse, readVars, TypeOK, MessageNumbered
<1>3. CASE AddActionResponse
  BY <1>3 DEF AddActionResponse, MutexFree, readVars, TypeOK, MessageNumbered
<1>4. CASE EraseMedium
  BY <1>4 DEF EraseMedium, MutexFree, readVars, networkVars, TypeOK,
      MessageNumbered
<1>5. CASE BeginGetResponse
  BY <1>5 DEF BeginGetResponse, MutexFree, networkVars, TypeOK,
      MessageNumbered
<1>6. CASE ScanIndex
  BY <1>6 DEF ScanIndex, MutexFree, networkVars, Answers, IsFront, TypeOK,
      MessageNumbered
<1>7. CASE ClearResponses
  BY <1>7 DEF ClearResponses, MutexFree, networkVars, TypeOK, MessageNumbered
<1>8. ASSUME NEW r \in Request, RunRequest(r)
      PROVE  TypeOK' /\ MessageNumbered'
  BY <1>8 DEF RunRequest, MutexFree, readVars, networkVars, TypeOK,
      MessageNumbered
<1>9. ASSUME NEW r \in Request, GetLastResponse(r)
      PROVE  TypeOK' /\ MessageNumbered'
  BY <1>9 DEF GetLastResponse, MutexFree, readVars, networkVars, TypeOK,
      MessageNumbered
<1>10. ASSUME NEW a \in ActionKey, GetDirectActionResponse(a)
      PROVE  TypeOK' /\ MessageNumbered'
  BY <1>10 DEF GetDirectActionResponse, MutexFree, readVars, networkVars,
      IsFront, TypeOK, MessageNumbered
<1>11. ASSUME NEW a \in ActionKey, ForgetRequests(a)
      PROVE  TypeOK' /\ MessageNumbered'
  BY <1>11 DEF ForgetRequests, MutexFree, readVars, networkVars, TypeOK,
      MessageNumbered
<1>12. ASSUME NEW a \in ActionKey, DeleteAction(a)
      PROVE  TypeOK' /\ MessageNumbered'
  BY <1>12 DEF DeleteAction, MutexFree, readVars, networkVars, DeleteRequests,
      TypeOK, MessageNumbered
<1>13. CASE UNCHANGED vars
  BY <1>13 DEF vars, readVars, networkVars, TypeOK, MessageNumbered
<1> QED
  BY <1>1, <1>2, <1>3, <1>4, <1>5, <1>6, <1>7, <1>8, <1>9, <1>10, <1>11,
      <1>12, <1>13 DEF Next, NetworkStep, ReadStep

\* Every step leaves each stored response with its queue entry.
LEMMA QueuedStep ==
    ASSUME TypeOK, StoredResponseIsQueued, [Next]_vars
    PROVE  StoredResponseIsQueued'
<1> USE NodeMediumAssumption DEF Serial, Stored, Queued, Direct, Answer,
    Handed, Message, Nothing, Id
<1>1. ASSUME NEW a \in ActionKey, NEW i \in Id, NEW k \in {"request", "action"},
             IsServicedByAction(a, i, k)
      PROVE  StoredResponseIsQueued'
  BY <1>1 DEF IsServicedByAction, MutexFree, readVars, TypeOK,
      StoredResponseIsQueued
<1>2. CASE SetResponse
  BY <1>2 DEF SetResponse, MutexFree, readVars, TypeOK, StoredResponseIsQueued
<1>3. CASE AddActionResponse
  BY <1>3 DEF AddActionResponse, MutexFree, readVars, TypeOK,
      StoredResponseIsQueued
<1>4. CASE EraseMedium
  BY <1>4 DEF EraseMedium, MutexFree, readVars, networkVars, TypeOK,
      StoredResponseIsQueued
<1>5. CASE BeginGetResponse
  BY <1>5 DEF BeginGetResponse, MutexFree, networkVars, TypeOK,
      StoredResponseIsQueued
<1>6. CASE ScanIndex
  <2>1. CASE UNCHANGED <<synchronizeQueue, requestResponse, deleteList>>
    BY <1>6, <2>1 DEF ScanIndex, StoredResponseIsQueued
  <2>2. ASSUME NEW e \in synchronizeQueue, e.key = iterator,
               synchronizeQueue' = synchronizeQueue \ {e},
               deleteList' = deleteList \cup {s \in responses : s.id = iterator}
        PROVE  StoredResponseIsQueued'
    <3>1. responses' = responses /\ indexes' = indexes
          /\ actionToResponse' = actionToResponse /\ iterator \in Id
      BY <1>6 DEF ScanIndex
    <3>2. ASSUME NEW s \in responses' \ deleteList'
          PROVE  /\ [serial |-> s.serial, key |-> s.id] \in synchronizeQueue'
                 /\ s.id \in indexes'
      BY <2>2, <3>1, <3>2 DEF StoredResponseIsQueued
    <3>3. actionToResponse' \subseteq synchronizeQueue'
      BY <2>2, <3>1 DEF StoredResponseIsQueued, TypeOK
    <3> QED
      BY <3>2, <3>3 DEF StoredResponseIsQueued
  <2> QED
    BY <1>6, <2>1, <2>2 DEF ScanIndex
<1>7. CASE ClearResponses
  BY <1>7 DEF ClearResponses, MutexFree, networkVars, TypeOK,
      StoredResponseIsQueued
<1>8. ASSUME NEW r \in Request, RunRequest(r)
      PROVE  StoredResponseIsQueued'
  BY <1>8 DEF RunRequest, MutexFree, readVars, networkVars, TypeOK,
      StoredResponseIsQueued
<1>9. ASSUME NEW r \in Request, GetLastResponse(r)
      PROVE  StoredResponseIsQueued'
  BY <1>9 DEF GetLastResponse, MutexFree, readVars, networkVars, TypeOK,
      StoredResponseIsQueued
<1>10. ASSUME NEW a \in ActionKey, GetDirectActionResponse(a)
      PROVE  StoredResponseIsQueued'
  BY <1>10 DEF GetDirectActionResponse, MutexFree, readVars, networkVars,
      IsFront, TypeOK, StoredResponseIsQueued
<1>11. ASSUME NEW a \in ActionKey, ForgetRequests(a)
      PROVE  StoredResponseIsQueued'
  BY <1>11 DEF ForgetRequests, MutexFree, readVars, networkVars, TypeOK,
      StoredResponseIsQueued
<1>12. ASSUME NEW a \in ActionKey, DeleteAction(a)
      PROVE  StoredResponseIsQueued'
  BY <1>12 DEF DeleteAction, MutexFree, readVars, networkVars, DeleteRequests,
      TypeOK, StoredResponseIsQueued
<1>13. CASE UNCHANGED vars
  BY <1>13 DEF vars, readVars, networkVars, TypeOK, StoredResponseIsQueued
<1> QED
  BY <1>1, <1>2, <1>3, <1>4, <1>5, <1>6, <1>7, <1>8, <1>9, <1>10, <1>11,
      <1>12, <1>13 DEF Next, NetworkStep, ReadStep

\* No step leaves a pointer to a deleted request behind.
LEMMA DanglingStep ==
    ASSUME TypeOK, ReadProgress, IndexedById, NoDanglingRequest, [Next]_vars
    PROVE  ReadProgress' /\ IndexedById' /\ NoDanglingRequest'
<1> USE NodeMediumAssumption DEF Serial, Stored, Queued, Direct, Answer,
    Handed, Message, Nothing, Id
<1>1. ASSUME NEW a \in ActionKey, NEW i \in Id, NEW k \in {"request", "action"},
             IsServicedByAction(a, i, k)
      PROVE  ReadProgress' /\ IndexedById' /\ NoDanglingRequest'
  BY <1>1 DEF IsServicedByAction, MutexFree, readVars, TypeOK,
      NoDanglingRequest, ReadProgress, IndexedById
<1>2. CASE SetResponse
  BY <1>2 DEF SetResponse, MutexFree, readVars, TypeOK, NoDanglingRequest,
      ReadProgress, IndexedById
<1>3. CASE AddActionResponse
  BY <1>3 DEF AddActionResponse, MutexFree, readVars, TypeOK,
      NoDanglingRequest, ReadProgress, IndexedById
<1>4. CASE EraseMedium
  BY <1>4 DEF EraseMedium, MutexFree, readVars, networkVars, TypeOK,
      NoDanglingRequest, ReadProgress, IndexedById
<1>5. CASE BeginGetResponse
  BY <1>5 DEF BeginGetResponse, MutexFree, networkVars, TypeOK,
      NoDanglingRequest, ReadProgress, IndexedById
<1>6. CASE ScanIndex
  BY <1>6 DEF ScanIndex, MutexFree, networkVars, Answers, IsFront, TypeOK,
      NoDanglingRequest, ReadProgress, IndexedById
<1>7. CASE ClearResponses
  BY <1>7 DEF ClearResponses, MutexFree, networkVars, TypeOK,
      NoDanglingRequest, ReadProgress, IndexedById
<1>8. ASSUME NEW r \in Request, RunRequest(r)
      PROVE  ReadProgress' /\ IndexedById' /\ NoDanglingRequest'
  BY <1>8 DEF RunRequest, MutexFree, readVars, networkVars, TypeOK,
      NoDanglingRequest, ReadProgress, IndexedById
<1>9. ASSUME NEW r \in Request, GetLastResponse(r)
      PROVE  ReadProgress' /\ IndexedById' /\ NoDanglingRequest'
  BY <1>9 DEF GetLastResponse, MutexFree, readVars, networkVars, TypeOK,
      NoDanglingRequest, ReadProgress, IndexedById
<1>10. ASSUME NEW a \in ActionKey, GetDirectActionResponse(a)
      PROVE  ReadProgress' /\ IndexedById' /\ NoDanglingRequest'
  BY <1>10 DEF GetDirectActionResponse, MutexFree, readVars, networkVars,
      IsFront, TypeOK, NoDanglingRequest, ReadProgress, IndexedById
<1>11. ASSUME NEW a \in ActionKey, ForgetRequests(a)
      PROVE  ReadProgress' /\ IndexedById' /\ NoDanglingRequest'
  BY <1>11 DEF ForgetRequests, MutexFree, readVars, networkVars, TypeOK,
      NoDanglingRequest, ReadProgress, IndexedById
<1>12. ASSUME NEW a \in ActionKey, DeleteAction(a)
      PROVE  ReadProgress' /\ IndexedById' /\ NoDanglingRequest'
  BY <1>12 DEF DeleteAction, MutexFree, readVars, networkVars, DeleteRequests,
      TypeOK, NoDanglingRequest, ReadProgress, IndexedById
<1>13. CASE UNCHANGED vars
  BY <1>13 DEF vars, readVars, networkVars, TypeOK, NoDanglingRequest,
      ReadProgress, IndexedById
<1> QED
  BY <1>1, <1>2, <1>3, <1>4, <1>5, <1>6, <1>7, <1>8, <1>9, <1>10, <1>11,
      <1>12, <1>13 DEF Next, NetworkStep, ReadStep

\* No step hands a response over before an older one of the same owner.
LEMMA OrderStep ==
    ASSUME TypeOK, MessageNumbered, ReadProgress, IndexedById,
           Arrived, ReadInOrder, HandedInOrder, [Next]_vars
    PROVE  Arrived' /\ ReadInOrder' /\ HandedInOrder'
<1> USE NodeMediumAssumption DEF Serial, Stored, Queued, Direct, Answer,
    Handed, Message, Nothing, Id
<1>1. ASSUME NEW a \in ActionKey, NEW i \in Id, NEW k \in {"request", "action"},
             IsServicedByAction(a, i, k)
      PROVE  Arrived' /\ ReadInOrder' /\ HandedInOrder'
  BY <1>1 DEF IsServicedByAction, MutexFree, readVars, TypeOK,
      MessageNumbered, ReadProgress, IndexedById, Arrived, ReadInOrder,
      HandedInOrder
<1>2. CASE SetResponse
  BY <1>2 DEF SetResponse, MutexFree, readVars, TypeOK, MessageNumbered,
      ReadProgress, IndexedById, Arrived, ReadInOrder, HandedInOrder
<1>3. CASE AddActionResponse
  BY <1>3 DEF AddActionResponse, MutexFree, readVars, TypeOK, MessageNumbered,
      ReadProgress, IndexedById, Arrived, ReadInOrder, HandedInOrder
<1>4. CASE EraseMedium
  BY <1>4 DEF EraseMedium, MutexFree, readVars, networkVars, TypeOK,
      MessageNumbered, ReadProgress, IndexedById, Arrived, ReadInOrder,
      HandedInOrder
<1>5. CASE BeginGetResponse
  BY <1>5 DEF BeginGetResponse, MutexFree, networkVars, TypeOK,
      MessageNumbered, ReadProgress, IndexedById, Arrived, ReadInOrder,
      HandedInOrder
<1>6. CASE ScanIndex
  <2>1. CASE UNCHANGED <<synchronizeQueue, requestResponse, deleteList>>
    BY <1>6, <2>1 DEF ScanIndex, networkVars, Arrived, ReadInOrder, HandedInOrder
  <2>2. ASSUME requestResponse' = requestResponse \cup Answers(iterator),
               deleteList' = deleteList \cup {s \in responses : s.id = iterator}
        PROVE  Arrived' /\ ReadInOrder' /\ HandedInOrder'
    <3>1. /\ UNCHANGED <<responses, actionToResponse, processedRequests, handed,
                         inFlight, serial>>
          /\ iterator \in Id
      BY <1>6 DEF ScanIndex, networkVars
    <3>2. ASSUME NEW p \in requestResponse', p \notin requestResponse
          PROVE  \E s \in responses \ deleteList :
                     p.serial = s.serial /\ s.id = iterator /\ p.to = idToRequest[iterator]
      <4>1. PICK s \in responses : s.id = iterator
                /\ p = [serial |-> s.serial, to |-> idToRequest[iterator]]
        BY <2>2, <3>2 DEF Answers
      <4>2. s \notin deleteList
        BY <3>1, <4>1 DEF ReadProgress
      <4> QED
        BY <4>1, <4>2
    <3>3. Arrived'
      BY <3>1, <3>2 DEF Arrived
    <3>4. ReadInOrder'
      <4>1. ASSUME NEW s \in responses' \ deleteList', NEW p \in requestResponse',
                   p.to \in Request, IdOf[p.to] = s.id
            PROVE  p.serial < s.serial
        <5>1. s \in responses \ deleteList /\ s.id # iterator
          BY <2>2, <3>1
        <5>2. p \in requestResponse
          BY <3>1, <3>2, <4>1, <5>1 DEF IndexedById, TypeOK
        <5> QED
          BY <4>1, <5>1, <5>2 DEF ReadInOrder
      <4> QED
        BY <2>2, <3>1, <4>1 DEF ReadInOrder
    <3>5. HandedInOrder'
      <4>1. ASSUME NEW h \in handed, NEW p \in requestResponse', h.to = p.to
            PROVE  h.serial < p.serial
        <5>1. CASE p \in requestResponse
          BY <4>1, <5>1 DEF HandedInOrder
        <5>2. CASE p \notin requestResponse
          <6>1. PICK s \in responses \ deleteList :
                    p.serial = s.serial /\ s.id = iterator /\ p.to = idToRequest[iterator]
            BY <3>2, <5>2
          <6>2. h.to \in Request /\ IdOf[h.to] = iterator
            BY <3>1, <4>1, <6>1 DEF TypeOK, IndexedById
          <6> QED
            BY <6>1, <6>2 DEF ReadInOrder
        <5> QED
          BY <5>1, <5>2
      <4> QED
        BY <3>1, <4>1 DEF HandedInOrder
    <3> QED
      BY <3>3, <3>4, <3>5
  <2> QED
    BY <1>6, <2>1, <2>2 DEF ScanIndex
<1>7. CASE ClearResponses
  BY <1>7 DEF ClearResponses, MutexFree, networkVars, TypeOK, MessageNumbered,
      ReadProgress, IndexedById, Arrived, ReadInOrder, HandedInOrder
<1>8. ASSUME NEW r \in Request, RunRequest(r)
      PROVE  Arrived' /\ ReadInOrder' /\ HandedInOrder'
  BY <1>8 DEF RunRequest, MutexFree, readVars, networkVars, TypeOK,
      MessageNumbered, ReadProgress, IndexedById, Arrived, ReadInOrder,
      HandedInOrder
<1>9. ASSUME NEW r \in Request, GetLastResponse(r)
      PROVE  Arrived' /\ ReadInOrder' /\ HandedInOrder'
  BY <1>9 DEF GetLastResponse, MutexFree, readVars, networkVars, TypeOK,
      MessageNumbered, ReadProgress, IndexedById, Arrived, ReadInOrder,
      HandedInOrder
<1>10. ASSUME NEW a \in ActionKey, GetDirectActionResponse(a)
      PROVE  Arrived' /\ ReadInOrder' /\ HandedInOrder'
  BY <1>10 DEF GetDirectActionResponse, MutexFree, readVars, networkVars,
      IsFront, TypeOK, MessageNumbered, ReadProgress, IndexedById, Arrived,
      ReadInOrder, HandedInOrder
<1>11. ASSUME NEW a \in ActionKey, ForgetRequests(a)
      PROVE  Arrived' /\ ReadInOrder' /\ HandedInOrder'
  BY <1>11 DEF ForgetRequests, MutexFree, readVars, networkVars, TypeOK,
      MessageNumbered, ReadProgress, IndexedById, Arrived, ReadInOrder,
      HandedInOrder
<1>12. ASSUME NEW a \in ActionKey, DeleteAction(a)
      PROVE  Arrived' /\ ReadInOrder' /\ HandedInOrder'
  BY <1>12 DEF DeleteAction, MutexFree, readVars, networkVars, DeleteRequests,
      TypeOK, MessageNumbered, ReadProgress, IndexedById, Arrived,
      ReadInOrder, HandedInOrder
<1>13. CASE UNCHANGED vars
  BY <1>13 DEF vars, readVars, networkVars, TypeOK, MessageNumbered,
      ReadProgress, IndexedById, Arrived, ReadInOrder, HandedInOrder
<1> QED
  BY <1>1, <1>2, <1>3, <1>4, <1>5, <1>6, <1>7, <1>8, <1>9, <1>10, <1>11,
      <1>12, <1>13 DEF Next, NetworkStep, ReadStep

\* The conjunction of the parts is inductive.
LEMMA IInvHolds == Spec => []IInv
<1>1. Init => IInv
  BY NodeMediumAssumption DEF Init, IInv, TypeOK, MessageNumbered, ReadProgress,
      IndexedById, Arrived, ReadInOrder, StoredResponseIsQueued,
      NoDanglingRequest, HandedInOrder, Id, Message, Nothing
<1>2. IInv /\ [Next]_vars => IInv'
  BY TypeStep, QueuedStep, DanglingStep, OrderStep DEF IInv
<1> QED
  BY <1>1, <1>2, PTL DEF Spec

\* The containers of the medium and of its handler stay well typed through
\* every interleaving of the network thread with the action loop.
THEOREM TypeCorrect == Spec => []TypeOK
<1>1. IInv => TypeOK
  BY DEF IInv
<1> QED
  BY <1>1, IInvHolds, PTL

\* setResponse, addActionResponse, getResponseAndClear, deleteRequest and
\* deleteAction never strand a response: what is stored is queued and indexed.
THEOREM QueuedTheorem == Spec => []StoredResponseIsQueued
<1>1. IInv => StoredResponseIsQueued
  BY DEF IInv
<1> QED
  BY <1>1, IInvHolds, PTL

\* After ~CAction no container of the medium or of its handler holds a pointer
\* to one of the requests that died with the action.
THEOREM DanglingTheorem == Spec => []NoDanglingRequest
<1>1. IInv => NoDanglingRequest
  BY DEF IInv
<1> QED
  BY <1>1, IInvHolds, PTL

\* accept() sees the answers of a request, and the messages of an action, in
\* the order in which the network thread received them, each at most once.
THEOREM OrderTheorem == Spec => []HandedInOrder
<1>1. IInv => HandedInOrder
  BY DEF IInv
<1> QED
  BY <1>1, IInvHolds, PTL
=============================================================================
