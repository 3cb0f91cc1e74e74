------------------------------ MODULE Admission ------------------------------
(***************************************************************************)
(* A tracker joins a monitor: free registration (tracker/registerAction,   *)
(* monitor/admitTrackerAction), then the copy of the monitor's storage     *)
(* (synchronizationAction on both sides, monitor/copyStorageHandler).      *)
(*                                                                         *)
(* Nothing keeps a user from starting a second registration while the      *)
(* first one runs, so there is a set of attempts; each has an action of    *)
(* either kind on either side, which share the connection and what the     *)
(* monitor knows of the tracker.                                           *)
(*                                                                         *)
(* Of the action loop the module keeps what decides which answers reach an *)
(* action: the answers to its requests, those included that it forgot in   *)
(* the same turn (`old', and "late" for a time event), until the turn      *)
(* ends.  Acks of the monitor, which the tracker discards in every state,  *)
(* are left out.                                                           *)
(***************************************************************************)
EXTENDS Integers, Sequences, SequencesExt

CONSTANTS
    Attempt,      \* the CRegisterActions a user starts
    Headers,      \* segment headers the monitor has
    FirstBlocks,  \* blocks the monitor has at first
    MaxBlocks,    \* bound on the blocks it comes to have
    MaxRetries,   \* bound on the messages sent again after a time event
    MaxLength,    \* bound on the messages to the tracker, for Info sent again
    MayLose,      \* whether the connection breaks
    MayExpire     \* whether the contract of the tracker ends

ASSUME AdmissionAssumption ==
    /\ Headers \in Nat \ {0} /\ FirstBlocks \in Nat \ {0}
    /\ MaxBlocks \in Nat /\ FirstBlocks <= MaxBlocks
    /\ MaxRetries \in Nat /\ MaxLength \in Nat
    /\ MayLose \in BOOLEAN /\ MayExpire \in BOOLEAN

VARIABLES
    reg,         \* reg[a]: the CRegisterAction of the tracker
    sync,        \* sync[a]: its CSynchronizationAction
    lastId,      \* lastId[a]: ids of requests given out
    connected,   \* the attempts that called setInNetwork( true )
    admit,       \* admit[a]: the CAdmitTrackerAction of the monitor
    session,     \* session[a]: its CSynchronizationAction
    registered,    \* the tracker is in m_registeredTrackers
    allowed,       \* ... in m_allowSynchronization
    synchronized,  \* ... in m_synchronizedTrackers
    wasRegistered, \* history: it was registered at some time
    marked,        \* history: the attempts that called onSynchronizedExit
    blocks,      \* calculateStoredBlockNumber of the monitor
    copy,        \* m_copyRequest, whether the loop copies, m_copyCreated
    toMonitor, toTracker,  \* what is on its way or stored by the medium
    retries,     \* messages sent again
    disturbed    \* history: something was lost or late, or the contract ended

tracker == <<reg, sync, lastId, connected>>
reputation == <<registered, allowed, synchronized, wasRegistered, marked>>
monitor == <<admit, session, reputation>>
storage == <<blocks, copy>>
vars == <<tracker, monitor, storage, toMonitor, toTracker, retries, disturbed>>

-----------------------------------------------------------------------------
Asks == {"AdmitAsk", "SyncAsk"}
Message == [a : Attempt, id : Nat, n : Nat,
            kind : Asks \cup {"AdmitAck", "Ack", "BitcoinAsk", "StorageAsk",
                              "GetHeader", "GetBlock", "Admit", "Sync",
                              "BitcoinHeader", "Info", "Header", "Block"}]
Msg(a, kind, id, n) == [a |-> a, kind |-> kind, id |-> id, n |-> n]

NoReg == [state |-> "none", id |-> 0, exit |-> FALSE]
\* m_result has no value until it is set; a result the parent does not know
NoSync == [state |-> "none", id |-> 0, old |-> 0, timer |-> "none", exit |-> FALSE,
           k |-> 0, size |-> 0, result |-> "none"]
NoSession == [state |-> "none", key |-> 0, id |-> 0, old |-> 0, exit |-> FALSE,
              asked |-> FALSE, stored |-> 0, last |-> FALSE]

TypeOK ==
    /\ reg \in [Attempt -> [state : {"none", "terms", "ask", "sync", "done"},
                            id : Nat, exit : BOOLEAN]]
    /\ sync \in [Attempt -> [state : {"none", "ask", "bitcoin", "info", "headers",
                                      "blocks", "done"},
                             id : Nat, old : Nat, timer : {"none", "set", "late"},
                             exit : BOOLEAN, k : Nat, size : 0 .. MaxBlocks,
                             result : {"none", "bad", "good"}]]
    /\ lastId \in [Attempt -> Nat]
    /\ connected \subseteq Attempt
    /\ admit \in [Attempt -> {"none", "wait", "done"}]
    /\ session \in [Attempt -> [state : {"none", "uninit", "copy", "serve", "done"},
                                key : Nat, id : Nat, old : Nat,
                                exit : BOOLEAN, asked : BOOLEAN,
                                stored : 0 .. MaxBlocks, last : BOOLEAN]]
    /\ \A a \in Attempt : session[a].state = "serve" => session[a].stored > 0
    /\ registered \in BOOLEAN /\ allowed \in BOOLEAN
    /\ synchronized \in BOOLEAN /\ wasRegistered \in BOOLEAN
    /\ marked \subseteq Attempt
    /\ blocks \in FirstBlocks .. MaxBlocks
    /\ copy \in [request : BOOLEAN, copying : BOOLEAN, created : BOOLEAN]
    /\ toMonitor \in Seq(Message) /\ toTracker \in Seq(Message)
    /\ retries \in 0 .. MaxRetries /\ disturbed \in BOOLEAN

Init ==
    /\ reg = [a \in Attempt |-> NoReg] /\ sync = [a \in Attempt |-> NoSync]
    /\ lastId = [a \in Attempt |-> 0] /\ connected = {}
    /\ admit = [a \in Attempt |-> "none"]
    /\ session = [a \in Attempt |-> NoSession]
    /\ registered = FALSE /\ allowed = FALSE /\ synchronized = FALSE
    /\ wasRegistered = FALSE /\ marked = {}
    /\ blocks = FirstBlocks
    /\ copy = [request |-> FALSE, copying |-> FALSE, created |-> FALSE]
    /\ toMonitor = <<>> /\ toTracker = <<>>
    /\ retries = 0 /\ disturbed = FALSE

-----------------------------------------------------------------------------
(* The tracker's register action.                                          *)

\* The next message is for attempt a, and answers one of the requests.
Answered(a, requests, kind) ==
    /\ toTracker # <<>>
    /\ Head(toTracker).a = a /\ Head(toTracker).kind = kind
    /\ Head(toTracker).id \in requests
    /\ toTracker' = Tail(toTracker)

\* registerInNetwork: the action is scheduled to learn the terms first.
Register(a) ==
    /\ reg[a].state = "none"
    /\ reg' = [reg EXCEPT ![a].state = "terms"]
    /\ UNCHANGED <<sync, lastId, connected, monitor, storage, toMonitor, toTracker,
                   retries, disturbed>>

\* CRegistrationTermsEvent: AdmitAsk, with a time event beside it
Terms(a) ==
    /\ reg[a].state = "terms" /\ ~ reg[a].exit
    /\ lastId' = [lastId EXCEPT ![a] = @ + 1]
    /\ reg' = [reg EXCEPT ![a].state = "ask", ![a].id = lastId'[a]]
    /\ toMonitor' = Append(toMonitor, Msg(a, "AdmitAsk", lastId'[a], 0))
    /\ UNCHANGED <<sync, connected, monitor, storage, toTracker, retries, disturbed>>

\* CFailureEvent of the action that asked for the terms
NoTerms(a) ==
    /\ reg[a].state = "terms" /\ ~ reg[a].exit
    /\ reg' = [reg EXCEPT ![a].exit = TRUE]
    /\ UNCHANGED <<sync, lastId, connected, monitor, storage, toMonitor, toTracker,
                   retries, disturbed>>

\* CMessageResult.  The constructor of the tracker's CSynchronizationAction sends
\* its first message, after the Ack of the register action.
AdmitResult(a) ==
    /\ reg[a].state = "ask" /\ Answered(a, {reg[a].id}, "Admit")
    /\ LET m == Head(toTracker)
           ack == Msg(a, "AdmitAck", m.id, 0)
       IN  \/ /\ m.n = 1
              /\ reg' = [reg EXCEPT ![a].state = "sync"]
              /\ lastId' = [lastId EXCEPT ![a] = @ + 1]
              /\ sync' = [sync EXCEPT ![a].state = "ask", ![a].id = lastId'[a],
                                      ![a].timer = "set"]
              /\ toMonitor' = toMonitor \o <<ack, Msg(a, "SyncAsk", lastId'[a], 0)>>
           \/ /\ m.n = 0
              /\ reg' = [reg EXCEPT ![a].exit = TRUE]
              /\ toMonitor' = Append(toMonitor, ack)
              /\ UNCHANGED <<sync, lastId>>
    /\ UNCHANGED <<connected, monitor, storage, retries, disturbed>>

\* CTimeEvent; an answer in the same turn is still handed over.
RegisterTimeout(a) ==
    /\ reg[a].state = "ask" /\ ~ reg[a].exit
    /\ reg' = [reg EXCEPT ![a].exit = TRUE]
    /\ disturbed' = TRUE
    /\ UNCHANGED <<sync, lastId, connected, monitor, storage, toMonitor, toTracker,
                   retries>>

\* needToExit: the next turn deletes the action.
RegisterEnd(a) ==
    /\ reg[a].exit /\ reg[a].state # "done"
    /\ reg' = [reg EXCEPT ![a].state = "done"]
    /\ UNCHANGED <<sync, lastId, connected, monitor, storage, toMonitor, toTracker,
                   retries, disturbed>>

-----------------------------------------------------------------------------
(* The tracker's synchronisation action.                                   *)

\* forgetRequests, then a message with a new id, and perhaps a time event;
\* what was added before, like an Ack, is sent all the same.  An answer leaves
\* the time event of the request it answered, which may come in the same turn.
Ask(a, s, before, kind, n, timer) ==
    /\ lastId' = [lastId EXCEPT ![a] = @ + 1]
    /\ sync' = [sync EXCEPT ![a] = [s EXCEPT !.id = lastId'[a],
           !.timer = IF timer THEN "set" ELSE IF @ = "none" THEN @ ELSE "late"]]
    /\ toMonitor' = (toMonitor \o before) \o <<Msg(a, kind, lastId'[a], n)>>

\* Faulty loop: an answer to a forgotten request reaches the action.
RequestsEver(a) == 1 .. lastId[a]

\* Requests whose answers reach the action; one that is to exit sends those it
\* has added, and is deleted before an answer can come.
Requests(a) == {sync[a].old} \cup (IF sync[a].exit THEN {} ELSE {sync[a].id})

\* The answer of this turn has been handed over.
Taken(s) == [s EXCEPT !.old = 0]

\* setExit with a result; the requests are forgotten.
Exit(s, result) ==
    [s EXCEPT !.id = 0, !.old = 0, !.result = result, !.exit = TRUE,
              !.timer = IF @ = "none" THEN @ ELSE "late"]

SyncAck(a) == <<Msg(a, "Ack", Head(toTracker).id, 0)>>

\* CSynchronizingRegistrationAsk: admitted or refused
SyncResult(a) ==
    /\ sync[a].state = "ask" /\ Answered(a, Requests(a), "Sync")
    /\ \/ /\ Head(toTracker).n = 1
          /\ Ask(a, [Taken(sync[a]) EXCEPT !.state = "bitcoin"], SyncAck(a),
                 "BitcoinAsk", 0, TRUE)
       \/ /\ Head(toTracker).n = 0
          /\ sync' = [sync EXCEPT ![a] = Exit(@, "bad")]
          /\ toMonitor' = toMonitor \o SyncAck(a)
          /\ UNCHANGED lastId
    /\ UNCHANGED <<reg, connected, monitor, storage, retries, disturbed>>

\* CGetBitcoinHeader: the header is stored, and no time event is asked for.
BitcoinHeader(a) ==
    /\ sync[a].state = "bitcoin" /\ Answered(a, Requests(a), "BitcoinHeader")
    /\ Ask(a, [Taken(sync[a]) EXCEPT !.state = "info", !.timer = "none"], SyncAck(a),
           "StorageAsk", 0, FALSE)
    /\ UNCHANGED <<reg, connected, monitor, storage, retries, disturbed>>

\* CSynchronizingGetInfo: the sizes are what the tracker goes by from here on.
SynchronizationInfo(a) ==
    /\ sync[a].state = "info" /\ Answered(a, Requests(a), "Info")
    /\ Ask(a, [Taken(sync[a]) EXCEPT !.state = "headers", !.k = 0,
                                    !.size = Head(toTracker).n],
           SyncAck(a), "GetHeader", 0, TRUE)
    /\ UNCHANGED <<reg, connected, monitor, storage, retries, disturbed>>

\* CSynchronizingHeaders; only the first request of a state has a time event.
HeaderReceived(a) ==
    /\ sync[a].state = "headers" /\ Answered(a, Requests(a), "Header")
    /\ LET k == sync[a].k + 1
           s == Taken(sync[a])
       IN  IF Headers > k
           THEN Ask(a, [s EXCEPT !.k = k], SyncAck(a), "GetHeader", k, FALSE)
           ELSE Ask(a, [s EXCEPT !.state = "blocks", !.k = 0], SyncAck(a),
                    "GetBlock", 0, TRUE)
    /\ UNCHANGED <<reg, connected, monitor, storage, retries, disturbed>>

\* CSynchronizingBlocks
BlockReceived(a) ==
    /\ sync[a].state = "blocks" /\ Answered(a, Requests(a), "Block")
    /\ LET k == sync[a].k + 1
           s == [Taken(sync[a]) EXCEPT !.k = k]
       IN  \/ /\ sync[a].size > k
              /\ Ask(a, s, SyncAck(a), "GetBlock", k, FALSE)
           \/ /\ sync[a].size <= k
              /\ sync' = [sync EXCEPT ![a] = Exit(s, "good")]
              /\ toMonitor' = toMonitor \o SyncAck(a)
              /\ UNCHANGED lastId
    /\ UNCHANGED <<reg, connected, monitor, storage, retries, disturbed>>

\* CTimeEvent in each of the states.  Asking to be synchronised leaves without a
\* result; an answer in the same turn is still handed over.
SyncTimeout(a) ==
    /\ sync[a].timer = "late" \/ (sync[a].timer = "set" /\ ~ sync[a].exit)
    /\ LET s == [sync[a] EXCEPT !.old = IF @ = 0 THEN sync[a].id ELSE @]
       IN  \/ /\ s.state \in {"ask", "bitcoin"}
              /\ sync' = [sync EXCEPT ![a] = [s EXCEPT !.exit = TRUE, !.timer = "none",
                     !.id = 0, !.result = IF s.state = "bitcoin" THEN "bad" ELSE @]]
              /\ UNCHANGED <<lastId, toMonitor, retries>>
           \/ /\ s.state \in {"headers", "blocks"} /\ retries < MaxRetries
              /\ Ask(a, s, <<>>, IF s.state = "headers" THEN "GetHeader" ELSE "GetBlock",
                     s.k, TRUE)
              /\ retries' = retries + 1
    /\ disturbed' = TRUE
    /\ UNCHANGED <<reg, connected, monitor, storage, toTracker>>

\* The turn in which requests were forgotten is over.
SyncTurn(a) ==
    /\ sync[a].state \notin {"none", "done"} /\ ~ sync[a].exit
    /\ sync[a].old # 0 \/ sync[a].timer = "late"
    /\ sync' = [sync EXCEPT ![a].old = 0, ![a].timer = IF @ = "late" THEN "none" ELSE @]
    /\ UNCHANGED <<reg, lastId, connected, monitor, storage, toMonitor, toTracker,
                   retries, disturbed>>

\* The register action has not left.
Waits(a) == reg[a].state = "sync" /\ ~ reg[a].exit

\* Faulty CFreeRegistration: it leaves only when it joined.
SynchronizationResultGoodOnly(a) ==
    \/ /\ Waits(a) /\ sync[a].result = "good"
       /\ connected' = connected \cup {a}
       /\ reg' = [reg EXCEPT ![a].exit = TRUE]
    \/ /\ ~ Waits(a) \/ sync[a].result # "good"
       /\ UNCHANGED <<reg, connected>>

\* What CFreeRegistration does with the result of its scheduled action: setInNetwork.
SynchronizationResult(a) ==
    \/ /\ Waits(a) /\ sync[a].result = "good"
       /\ connected' = connected \cup {a}
       /\ reg' = [reg EXCEPT ![a].exit = TRUE]
    \/ /\ Waits(a) /\ sync[a].result = "bad"
       /\ reg' = [reg EXCEPT ![a].exit = TRUE]
       /\ UNCHANGED connected
    \/ /\ ~ Waits(a) \/ sync[a].result = "none"
       /\ UNCHANGED <<reg, connected>>

\* needToExit: the next turn deletes the action, which hands its result to its
\* parent.
SyncEnd(a) ==
    /\ sync[a].exit /\ sync[a].state # "done"
    /\ sync' = [sync EXCEPT ![a].state = "done"]
    /\ SynchronizationResult(a)
    /\ UNCHANGED <<lastId, monitor, storage, toMonitor, toTracker, retries, disturbed>>

\* An answer to a request that is forgotten, or whose action is gone, reaches
\* nobody.
TrackerIgnores ==
    /\ toTracker # <<>>
    /\ LET m == Head(toTracker)
       IN  \/ m.kind = "Admit" /\ reg[m.a].state # "ask"
           \/ m.kind # "Admit" /\ (sync[m.a].state = "done" \/ m.id \notin Requests(m.a))
    /\ toTracker' = Tail(toTracker)
    /\ UNCHANGED <<tracker, monitor, storage, toMonitor, retries, disturbed>>

-----------------------------------------------------------------------------
(* The monitor: the message thread creates actions, the loop serves them.  *)

\* The thread that takes messages from the socket stores most of them for the
\* loop, but makes an action out of the first of these at once: it does not
\* wait until the loop has seen what came before.
Arrives(i, kind) ==
    /\ i \in DOMAIN toMonitor /\ toMonitor[i].kind = kind
    /\ \A j \in 1 .. i - 1 : toMonitor[j].kind \notin Asks
    /\ toMonitor' = RemoveAt(toMonitor, i)

\* CWaitForInfo: the time event is forgotten, the Ack of the tracker awaited.
AdmitAsk(i) ==
    /\ Arrives(i, "AdmitAsk")
    /\ LET m == toMonitor[i]
       IN  \E n \in {0, 1} :  \* isAdmitted
               /\ toTracker' = Append(toTracker, Msg(m.a, "Admit", m.id, n))
               /\ admit' = [admit EXCEPT ![m.a] = IF n = 1 THEN "wait" ELSE "done"]
    /\ UNCHANGED <<tracker, session, reputation, storage,
                   retries, disturbed>>

\* The constructors of CSynchronizationAction and CSynchronizedUninitialized
SynchronizationAsk(i) ==
    /\ Arrives(i, "SyncAsk")
    /\ LET m == toMonitor[i]
       IN  /\ toTracker' = Append(toTracker, Msg(m.a, "Sync", m.id,
                                                IF allowed THEN 1 ELSE 0))
           /\ session' = [session EXCEPT ![m.a] =
                  [@ EXCEPT !.state = "uninit", !.exit = ~ allowed]]
    /\ UNCHANGED <<tracker, admit, reputation, storage,
                   retries, disturbed>>

\* The loop takes the first message the medium stored.
Stored(kind) ==
    /\ toMonitor # <<>> /\ Head(toMonitor).kind = kind
    /\ toMonitor' = Tail(toMonitor)

\* Faulty handler: addTracker is not called.
AdmitAckNotAdded ==
    /\ Stored("AdmitAck")
    /\ admit[Head(toMonitor).a] = "wait"
    /\ admit' = [admit EXCEPT ![Head(toMonitor).a] = "done"]
    /\ allowed' = TRUE
    /\ UNCHANGED <<tracker, session, registered, synchronized, wasRegistered, marked,
                   storage, toTracker, retries, disturbed>>

\* CWaitForInfo: the tracker is registered and may synchronise.
AdmitAck ==
    /\ Stored("AdmitAck")
    /\ admit[Head(toMonitor).a] = "wait"
    /\ admit' = [admit EXCEPT ![Head(toMonitor).a] = "done"]
    /\ allowed' = TRUE /\ registered' = TRUE /\ wasRegistered' = TRUE
    /\ UNCHANGED <<tracker, session, synchronized, marked, storage, toTracker, retries,
                   disturbed>>

\* CSynchronizedUninitialized: BitcoinHeaderAsk
BitcoinAsk ==
    /\ Stored("BitcoinAsk")
    /\ LET m == Head(toMonitor)
       IN  /\ session[m.a].state = "uninit" /\ ~ session[m.a].exit
           /\ toTracker' = Append(toTracker, Msg(m.a, "BitcoinHeader", m.id, 0))
    /\ UNCHANGED <<tracker, monitor, storage, retries, disturbed>>

\* CSynchronizedUninitialized: StorageInfoAsk, and CSynchronizedProvideCopy
StorageAsk ==
    /\ Stored("StorageAsk")
    /\ LET m == Head(toMonitor)
       IN  /\ session[m.a].state = "uninit" /\ ~ session[m.a].exit
           /\ session' = [session EXCEPT ![m.a] =
                  [@ EXCEPT !.state = "copy", !.key = m.id]]
    /\ UNCHANGED <<tracker, admit, reputation, storage,
                   toTracker, retries, disturbed>>

\* Faulty handler: the sizes are not read.
InfoAckUninitialized ==
    /\ Stored("Ack")
    /\ LET m == Head(toMonitor)
       IN  /\ session[m.a].state = "copy" /\ session[m.a].id = m.id
           /\ session' = [session EXCEPT ![m.a] =
                  [@ EXCEPT !.state = "serve", !.id = 0, !.last = FALSE]]
    /\ UNCHANGED <<tracker, admit, reputation, storage,
                   toTracker, retries, disturbed>>

\* CSynchronizedProvideCopy, CAckEvent: the sizes are read a second time.
InfoAck ==
    /\ Stored("Ack")
    /\ LET m == Head(toMonitor)
       IN  /\ session[m.a].state = "copy" /\ session[m.a].id = m.id
           /\ session' = [session EXCEPT ![m.a] =
                  [@ EXCEPT !.state = "serve", !.id = 0, !.last = FALSE,
                                           !.stored = blocks]]
    /\ UNCHANGED <<tracker, admit, reputation, storage,
                   toTracker, retries, disturbed>>

\* Faulty m_exit: any block counts.
IsLastAny(n, stored) == TRUE

\* Faulty m_exit: off by one.
IsLastPastEnd(n, stored) == n = stored

\* m_exit of CSynchronized
IsLast(n, stored) == n = stored - 1

\* CSynchronized, SynchronizationGet: what there is, is sent.
Get ==
    /\ \E kind \in {"GetHeader", "GetBlock"} : Stored(kind)
    /\ LET m == Head(toMonitor)
           s == session[m.a]
           block == m.kind = "GetBlock" /\ m.n < s.stored
           header == m.kind = "GetHeader" /\ m.n < Headers
       IN  /\ s.state = "serve"
           /\ IF block \/ header
              THEN /\ toTracker' = Append(toTracker,
                          Msg(m.a, IF block THEN "Block" ELSE "Header", m.id, m.n))
                   /\ session' = [session EXCEPT ![m.a].id = m.id, ![m.a].old = s.id,
                          ![m.a].last = IF block THEN IsLast(m.n, s.stored) ELSE @]
              ELSE UNCHANGED <<toTracker, session>>
    /\ UNCHANGED <<tracker, admit, reputation, storage,
                   retries, disturbed>>

\* CSynchronized, CAckEvent, with onSynchronizedExit
BlockAck ==
    /\ Stored("Ack")
    /\ LET m == Head(toMonitor)
           s == session[m.a]
       IN  /\ s.state = "serve" /\ m.id \in {s.id, s.old}
           /\ session' = [session EXCEPT ![m.a] =
                  [@ EXCEPT !.id = 0, !.old = 0, !.exit = s.exit \/ s.last]]
           /\ marked' = IF s.last THEN marked \cup {m.a} ELSE marked
           /\ synchronized' = (synchronized \/ (s.last /\ registered))
    /\ UNCHANGED <<tracker, admit, registered, allowed, wasRegistered, storage,
                   toTracker, retries, disturbed>>

\* CTimeEvent of CSynchronizedUninitialized; CSynchronized has none.
SessionTimeout(a) ==
    /\ session[a].state = "uninit" /\ ~ session[a].exit
    /\ session' = [session EXCEPT ![a].exit = TRUE]
    /\ disturbed' = TRUE
    /\ UNCHANGED <<tracker, admit, reputation, storage,
                   toMonitor, toTracker, retries>>

\* CTimeEvent of CSynchronizedProvideCopy: createCopyRequest first, which waits
\* while the loop copies, then the sizes once a copy is there; and again.
CopyTimeout(a) ==
    /\ session[a].state = "copy"
    /\ \/ /\ ~ session[a].asked /\ ~ copy.copying
          /\ session' = [session EXCEPT ![a].asked = ~ copy.request]
          /\ copy' = [copy EXCEPT !.request = TRUE]
          /\ UNCHANGED toTracker
       \/ /\ session[a].asked /\ copy.created
          /\ Len(toTracker) < MaxLength
          /\ toTracker' = Append(toTracker, Msg(a, "Info", session[a].key, blocks))
          /\ session' = [session EXCEPT ![a].id = session[a].key]
          /\ UNCHANGED copy
    /\ UNCHANGED <<tracker, admit, reputation, blocks,
                   toMonitor, retries, disturbed>>

\* The turn in which a request was forgotten is over.
SessionTurn(a) ==
    /\ session[a].old # 0
    /\ session' = [session EXCEPT ![a].old = 0]
    /\ UNCHANGED <<tracker, admit, reputation, storage,
                   toMonitor, toTracker, retries, disturbed>>

\* needToExit: the next turn deletes the action.
SessionEnd(a) ==
    /\ session[a].exit /\ session[a].state # "done"
    /\ session' = [session EXCEPT ![a] = [NoSession EXCEPT !.state = "done"]]
    /\ UNCHANGED <<tracker, admit, reputation, storage,
                   toMonitor, toTracker, retries, disturbed>>

\* Messages whose action is gone or does not react to them; an Ack counts if
\* its request is current or was when the turn began.
MonitorIgnores ==
    /\ toMonitor # <<>>
    /\ LET m == Head(toMonitor)
           s == session[m.a]
       IN  \/ m.kind = "AdmitAck" /\ admit[m.a] # "wait"
           \/ m.kind = "Ack" /\ (s.state \notin {"copy", "serve"}
                                     \/ m.id \notin {s.id, s.old})
           \/ m.kind \in {"BitcoinAsk", "StorageAsk"} /\ (s.state # "uninit" \/ s.exit)
           \/ m.kind \in {"GetHeader", "GetBlock"} /\ s.state # "serve"
    /\ toMonitor' = Tail(toMonitor)
    /\ UNCHANGED <<tracker, monitor, storage, toTracker, retries, disturbed>>

-----------------------------------------------------------------------------
(* The copy loop, the storage, the contract and the connection.            *)

\* CCopyStorageHandler::loop holds m_requestLock from here to EndCopy.
BeginCopy ==
    /\ copy.request /\ ~ copy.copying
    /\ copy' = [copy EXCEPT !.copying = TRUE, !.created = FALSE]
    /\ UNCHANGED <<tracker, monitor, blocks, toMonitor, toTracker, retries, disturbed>>

EndCopy ==
    /\ copy.copying
    /\ copy' = [request |-> FALSE, copying |-> FALSE, created |-> TRUE]
    /\ UNCHANGED <<tracker, monitor, blocks, toMonitor, toTracker, retries, disturbed>>

\* flushLoop of the storage fills a block.
Grow ==
    /\ blocks < MaxBlocks
    /\ blocks' = blocks + 1
    /\ UNCHANGED <<tracker, monitor, copy, toMonitor, toTracker, retries, disturbed>>

\* CReputationTracker::loop: the contract is over.
Expire ==
    /\ MayExpire /\ registered
    /\ registered' = FALSE /\ allowed' = FALSE
    /\ disturbed' = TRUE
    /\ UNCHANGED <<tracker, admit, session, synchronized, wasRegistered, marked,
                   storage, toMonitor, toTracker, retries>>

\* The connection breaks, and comes back: what was on its way or stored is gone.
Lose ==
    /\ MayLose /\ (toMonitor # <<>> \/ toTracker # <<>>)
    /\ toMonitor' = <<>> /\ toTracker' = <<>>
    /\ disturbed' = TRUE
    /\ UNCHANGED <<tracker, monitor, storage, retries>>

TrackerStep(a) ==
    \/ AdmitResult(a) \/ RegisterEnd(a)
    \/ SyncResult(a) \/ BitcoinHeader(a) \/ SynchronizationInfo(a)
    \/ HeaderReceived(a) \/ BlockReceived(a) \/ SyncEnd(a)

MonitorStep ==
    \/ \E i \in DOMAIN toMonitor : AdmitAsk(i) \/ SynchronizationAsk(i)
    \/ AdmitAck \/ BitcoinAsk \/ StorageAsk \/ InfoAck \/ Get \/ BlockAck
    \/ MonitorIgnores

Next ==
    \/ \E a \in Attempt : \/ Register(a) \/ Terms(a) \/ NoTerms(a)
                          \/ TrackerStep(a) \/ RegisterTimeout(a) \/ SyncTimeout(a)
                          \/ SyncTurn(a) \/ SessionTurn(a) \/ SessionEnd(a)
                          \/ SessionTimeout(a) \/ CopyTimeout(a)
    \/ TrackerIgnores \/ MonitorStep
    \/ BeginCopy \/ EndCopy \/ Grow \/ Expire \/ Lose

\* Both loops go on, the scheduled actions answer, time passes where a state
\* waits for nothing else, and the copy loop works.  CopyTimeout is disabled
\* again and again while that loop holds its lock, and gets it in the end.
Fairness ==
    /\ WF_vars(TrackerIgnores) /\ WF_vars(MonitorStep)
    /\ WF_vars(BeginCopy) /\ WF_vars(EndCopy)
    /\ \A a \in Attempt : /\ WF_vars(Terms(a) \/ NoTerms(a)) /\ WF_vars(TrackerStep(a))
                          /\ WF_vars(SyncTurn(a)) /\ WF_vars(SessionTurn(a))
                          /\ WF_vars(SessionEnd(a)) /\ SF_vars(CopyTimeout(a))

Spec == Init /\ [][Next]_vars /\ Fairness

-----------------------------------------------------------------------------
(* Properties.                                                             *)

\* A tracker that takes itself for a member of the network (setInNetwork) was
\* registered by the monitor, whatever was lost, late or sent again.
JoinedWasAdmitted == connected # {} => wasRegistered

\* The monitor takes a tracker for synchronised (onSynchronizedExit) only when
\* that attempt has stored every block the monitor had: m_exit is set when the
\* last block is asked for, and read at an Ack that may belong to another one.
SynchronizedHasEverything ==
    \A a \in marked :
        /\ sync[a].result = "good" /\ sync[a].k = sync[a].size
        /\ session[a].state = "serve" => sync[a].size = session[a].stored

\* An answer that reaches the tracker's action is the one its state is made for,
\* with the index it asserts, although requests are sent again
\* (assert( synchronizationBlock.m_blockIndex == m_currentBlock )).
AnswerFits ==
    toTracker # <<>> =>
        LET m == Head(toTracker)
            s == sync[m.a]
        IN  (m.kind # "Admit" /\ m.id \in Requests(m.a) /\ s.state # "done") =>
                \/ s.state = "ask" /\ m.kind = "Sync"
                \/ s.state = "bitcoin" /\ m.kind = "BitcoinHeader"
                \/ s.state = "info" /\ m.kind = "Info"
                \/ s.state = "headers" /\ m.kind = "Header" /\ m.n = s.k
                \/ s.state = "blocks" /\ m.kind = "Block" /\ m.n = s.k

\* A registration ends, one way or the other, unless something was lost or late:
\* several of its states wait without a time event.
RegistrationEnds ==
    \A a \in Attempt : reg[a].state = "terms" ~> (reg[a].state = "done" \/ disturbed)

\* A tracker that joined becomes synchronised for the monitor too, unless
\* something was lost or late or the storage grew meanwhile (m_storedBlocks is
\* read after the sizes were sent).
JoinedIsSynchronized ==
    \A a \in Attempt : a \in connected ~>
                           (synchronized \/ disturbed \/ blocks > FirstBlocks)
=============================================================================
