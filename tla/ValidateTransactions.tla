------------------------- MODULE ValidateTransactions -------------------------
(***************************************************************************)
(* How trackers agree on a bundle of client transactions                   *)
(* (tracker/validateTransactionsAction.cpp) and how an approved bundle     *)
(* reaches the records of a tracker (tracker/transactionRecordManager.cpp, *)
(* tracker/internalOperationsMedium.cpp).                                  *)
(*                                                                         *)
(* The tracker whose pool gave the bundle validates it, sends it to all    *)
(* the others and waits until everybody says Validated, then it sends      *)
(* Confirmed.  A tracker that gets a bundle validates it, passes it on and *)
(* reports Validated when it has heard of all the others or lost patience. *)
(* All trackers a tracker knows are connected and active; the queues of a  *)
(* connection and the action loop are the subject of NodeMedium and        *)
(* ActionHandler, of which this module keeps the order of messages.        *)
(***************************************************************************)
EXTENDS Naturals, Sequences

CONSTANTS
    Tracker, PeersOf,   \* the active network trackers a tracker knows
    Bundle, OriginOf,   \* what a pool held in one turn of its loop, and whose
    Tx, BundleOf, Order,  \* transactions, and their order inside a bundle
    Signed,             \* transactions whose scripts verify
    Output, RecordOf, IndexOf,  \* an output is one of a transaction's CCoins record
    Spends, Makes,      \* inputs and outputs of a transaction
    Genesis,            \* outputs known to every tracker at the start
    FeeVaries,          \* a transaction may pay too little
    MayLose,            \* messages may be lost with a connection
    SlowTimers          \* PropagateWaitTime is longer than any exchange

ASSUME ValidateTransactionsAssumption ==
    /\ PeersOf \in [Tracker -> SUBSET Tracker]
    /\ \A t \in Tracker : t \notin PeersOf[t]
    /\ OriginOf \in [Bundle -> Tracker]
    /\ BundleOf \in [Tx -> Bundle] /\ Order \in [Tx -> Nat] /\ Signed \subseteq Tx
    /\ IndexOf \in [Output -> Nat] /\ Genesis \subseteq Output
    /\ Spends \in [Tx -> SUBSET Output] /\ Makes \in [Tx -> SUBSET Output]
    /\ {FeeVaries, MayLose, SlowTimers} \subseteq BOOLEAN

VARIABLES
    action,     \* the CValidateTransactionsAction of a bundle at a tracker
    started,    \* bundles taken from a pool
    response,   \* what the client of the origin was told last
    channel,    \* messages from one tracker to another, oldest first
    timers,     \* running time events, oldest first: all are equally long
    coins,      \* the coins database of a tracker: unspent outputs
    nulled,     \* outputs set to null in the cache, not flushed
    stored,     \* transactions in the storage of a tracker
    vouched,    \* who ever reported a bundle as Validated (history)
    down        \* trackers whose action loop died of an exception

records == <<coins, nulled, stored>>
vars == <<action, started, response, channel, timers, records, vouched, down>>

Kind == {"Transactions", "Validated", "NotValid", "Confirmed"}
Message == [kind : Kind, about : Bundle, txs : SUBSET Tx, path : SUBSET Tracker]

\* "pass" and "origin" wait for the internal medium, "passChecked" and
\* "originChecked" have its answer; m_known is always {initiator}.
Action ==
    [state : {"none", "origin", "originChecked", "propagate", "pass", "passChecked",
              "broadcast", "validate", "approved"},
     txs : SUBSET Tx, invalid : SUBSET Tx, initiator : Tracker, message : Message,
     partners : SUBSET Tracker, validated : SUBSET Tracker, exceptions : SUBSET Tracker]

\* The indexes of an answer that is not taken yet are those of its bundle.
TypeOK ==
    /\ action \in [Tracker -> [Bundle -> Action]]
    /\ \A t \in Tracker, b \in Bundle :
           action[t][b].state \in {"originChecked", "passChecked"} =>
               action[t][b].invalid \subseteq action[t][b].txs
    /\ started \subseteq Bundle
    /\ response \in [Tx -> {"none", "Invalid", "Validated"}]
    /\ channel \in [Tracker -> [Tracker -> Seq(Message)]]
    /\ timers \in Seq(Tracker \X Bundle)
    /\ coins \in [Tracker -> SUBSET Output] /\ nulled \in [Tracker -> SUBSET Output]
    /\ stored \in [Tracker -> SUBSET Tx]
    /\ vouched \in [Bundle -> SUBSET Tracker]
    /\ down \subseteq Tracker

NoAction(t, b) ==
    [state |-> "none", txs |-> {}, invalid |-> {}, initiator |-> t, partners |-> {},
     message |-> [kind |-> "Transactions", about |-> b, txs |-> {}, path |-> {}],
     validated |-> {}, exceptions |-> {}]

Init ==
    /\ action = [t \in Tracker |-> [b \in Bundle |-> NoAction(t, b)]]
    /\ started = {} /\ response = [x \in Tx |-> "none"]
    /\ channel = [t \in Tracker |-> [u \in Tracker |-> <<>>]] /\ timers = <<>>
    /\ coins = [t \in Tracker |-> Genesis] /\ nulled = [t \in Tracker |-> {}]
    /\ stored = [t \in Tracker |-> {}]
    /\ vouched = [b \in Bundle |-> {}] /\ down = {}

TxsOf(b) == {x \in Tx : BundleOf[x] = b}
In(t, b, state) == t \notin down /\ action[t][b].state = state
Tell(X, answer) == [x \in Tx |-> IF x \in X THEN answer ELSE response[x]]
Become(t, b, a) == action' = [action EXCEPT ![t][b] = a]
Exit(t, b) == Become(t, b, NoAction(t, b))

\* The sequence s without the entries that are e
Without(s, e) ==
    LET kept[n \in 0 .. Len(s)] ==
            IF n = 0 THEN <<>>
            ELSE IF s[n] = e THEN kept[n - 1] ELSE Append(kept[n - 1], s[n])
    IN  kept[Len(s)]

\* Requests of an action that are forgotten, or deleted with it, tell no time.
WithoutTimers(t, b) == Without(timers, <<t, b>>)

\* A message t signs; what it passes on is wrapped in it.
Wrapped(m, t) == [m EXCEPT !.path = @ \cup {t}]
Status(kind, b) == [kind |-> kind, about |-> b, txs |-> {}, path |-> {}]
Send(ch, t, targets, m) ==
    [ch EXCEPT ![t] = [u \in Tracker |->
        IF u \in targets THEN Append(@[u], Wrapped(m, t)) ELSE @[u]]]

-----------------------------------------------------------------------------
(* Records                                                                 *)

Available(t) == coins[t] \ nulled[t]
Before(x, y) == Order[x] < Order[y]

\* Faulty validateTransactionBundle: the index is incremented too early.
InvalidTransactionsNext(t, X) ==
    LET invalid == {x \in X : x \notin Signed /\ Spends[x] \subseteq Available(t)}
    IN  {z \in Tx : \E x \in invalid : BundleOf[z] = BundleOf[x] /\ Order[z] = Order[x] + 1}

\* validateTransactionBundle: a transaction whose inputs are not there ends the
\* check, and nobody looks at the result that says so.
InvalidTransactions(t, X) ==
    {x \in X : /\ x \notin Signed
               /\ \A y \in X : Spends[y] \subseteq Available(t) \/ Before(x, y)}

\* GetCoins finds the record of a transaction as long as one output is unspent;
\* the record ends with the last of those.
HasRecord(t, o) == \E p \in coins[t] : RecordOf[p] = RecordOf[o]
InRecord(t, o) == \E p \in coins[t] : RecordOf[p] = RecordOf[o] /\ IndexOf[p] >= IndexOf[o]

Spent(X) == UNION {Spends[x] : x \in X}
Made(X) == UNION {Makes[x] : x \in X}

\* CApproved, entered by action a: addValidatedTransactionBundle sets the inputs
\* to null one after the other and gives up, in the middle, at one without a
\* record; vout.at() throws for one behind the end of its record, and what the
\* action was about to send stays unsent (before, not after).  Otherwise the
\* outputs are added, the cache is flushed and the transactions are stored.  All
\* outputs pay to a key or its hash, so that retrieveKeyIds understands them.
Approve(t, b, a, before, after) ==
    LET X == a.txs
        missing == {x \in X : \E o \in Spends[x] : ~ HasRecord(t, o)}
        cut == {x \in X : \E o \in Spends[x] : HasRecord(t, o) /\ ~ InRecord(t, o)}
        First(x) == \A y \in missing \cup cut : ~ Before(y, x)
    IN  /\ timers' = WithoutTimers(t, b)
        /\ \/ /\ missing \cup cut = {}
              /\ coins' = [coins EXCEPT ![t] = (@ \ (nulled[t] \cup Spent(X))) \cup Made(X)]
              /\ nulled' = [nulled EXCEPT ![t] = {}]
              /\ stored' = [stored EXCEPT ![t] = @ \cup X]
              /\ Become(t, b, [a EXCEPT !.state = "approved"])
              /\ channel' = after
              /\ UNCHANGED down
           \/ \E x \in missing :
                /\ First(x)
                /\ \E part \in SUBSET {o \in Spends[x] : InRecord(t, o)} :
                     nulled' = [nulled EXCEPT ![t] =
                                    @ \cup Spent({y \in X : Before(y, x)}) \cup part]
                /\ Exit(t, b)
                /\ channel' = after
                /\ UNCHANGED <<coins, stored, down>>
           \/ /\ \E x \in cut : First(x)
              /\ down' = down \cup {t}
              /\ channel' = before
              /\ UNCHANGED <<records, action>>

-----------------------------------------------------------------------------
(* The tracker the bundle comes from                                       *)

\* loop of CTransactionRecordManager and COriginInitial.  The outputs of the
\* transactions seen so far add up to the fee, and one without an output for the
\* tracker is both refused and, if the sum suffices, kept.
Start(b) ==
    LET t == OriginOf[b]
    IN  /\ b \notin started /\ In(t, b, "none")
        /\ \E kept, refused \in SUBSET TxsOf(b) :
               /\ kept \cup refused = TxsOf(b)
               /\ FeeVaries \/ refused = {}
               /\ Become(t, b, [NoAction(t, b) EXCEPT !.state = "origin", !.txs = kept])
               /\ response' = Tell(refused, "Invalid")
        /\ started' = started \cup {b}
        /\ UNCHANGED <<channel, timers, records, vouched, down>>

\* CInternalOperationsMedium::add( CValidateTransactionsRequest )
Validate(t, b) ==
    LET a == action[t][b]
        Answered(state) ==
            [a EXCEPT !.state = state, !.invalid = InvalidTransactions(t, a.txs)]
    IN  /\ \/ In(t, b, "origin") /\ Become(t, b, Answered("originChecked"))
           \/ In(t, b, "pass") /\ Become(t, b, Answered("passChecked"))
        /\ UNCHANGED <<started, response, channel, timers, records, vouched, down>>

\* Faulty COriginInitial: the other trackers are not counted.
OriginValidatedAlone(t, b) ==
    LET a == action[t][b]
        X == a.txs \ a.invalid
    IN  /\ In(t, b, "originChecked")
        /\ response' = [x \in Tx |-> IF x \in X THEN "Validated"
                                     ELSE Tell(a.invalid, "Invalid")[x]]
        /\ Approve(t, b, [a EXCEPT !.txs = X], channel, channel)
        /\ UNCHANGED <<started, vouched>>

\* CPropagateBundle, entered by action a
PropagateBundle(t, b, a) ==
    /\ channel' = Send(channel, t, PeersOf[t],
                       [Status("Transactions", b) EXCEPT !.txs = a.txs])
    /\ timers' = Append(timers, <<t, b>>)
    /\ Become(t, b, [a EXCEPT !.state = "propagate", !.partners = PeersOf[t]])
    /\ UNCHANGED <<records, down>>

\* The CValidationEvent of COriginInitial: CRejected, CPropagateBundle or, without
\* other trackers, CApproved
OriginValidated(t, b) ==
    LET a == action[t][b]
        X == a.txs \ a.invalid
        next == [a EXCEPT !.txs = X]
    IN  /\ In(t, b, "originChecked")
        /\ response' = [x \in Tx |-> IF x \in X THEN "Validated"
                                     ELSE Tell(a.invalid, "Invalid")[x]]
        /\ \/ /\ X = {}
              /\ Exit(t, b)
              /\ UNCHANGED <<channel, timers, records, down>>
           \/ X # {} /\ PeersOf[t] # {} /\ PropagateBundle(t, b, next)
           \/ X # {} /\ PeersOf[t] = {} /\ Approve(t, b, next, channel, channel)
        /\ UNCHANGED <<started, vouched>>

\* The rest of these actions takes a message m from the channel of u to t.
Taken(t, u) == [channel EXCEPT ![u][t] = Tail(@)]

\* Faulty CPropagateBundle: the else branch is lost, a refusal counts as approval.
PropagateStatusAny(t, u, b, m) ==
    LET a == action[t][b]
        waiting == a.partners \ m.path
        told == IF m.kind = "Validated" THEN response ELSE Tell(a.txs, "Invalid")
    IN  /\ In(t, b, "propagate")
        /\ response' = told
        /\ \/ /\ waiting # {}
              /\ Become(t, b, [a EXCEPT !.partners = waiting])
              /\ channel' = Taken(t, u)
              /\ UNCHANGED <<timers, records, down>>
           \/ /\ waiting = {}
              /\ Approve(t, b, [a EXCEPT !.partners = {}], Taken(t, u),
                         Send(Taken(t, u), t, PeersOf[t], Status("Confirmed", b)))
        /\ UNCHANGED <<started, vouched>>

\* A status reaches CPropagateBundle: Validated by the participants of the message,
\* by everybody with them, or any other.
PropagateStatus(t, u, b, m) ==
    LET a == action[t][b]
        waiting == a.partners \ m.path
    IN  /\ In(t, b, "propagate")
        /\ \/ /\ m.kind = "Validated" /\ waiting # {}
              /\ Become(t, b, [a EXCEPT !.partners = waiting])
              /\ channel' = Taken(t, u)
              /\ UNCHANGED <<response, timers, records, down>>
           \/ /\ m.kind = "Validated" /\ waiting = {}
              /\ Approve(t, b, [a EXCEPT !.partners = {}], Taken(t, u),
                         Send(Taken(t, u), t, PeersOf[t], Status("Confirmed", b)))
              /\ UNCHANGED response
           \/ /\ m.kind # "Validated"
              /\ response' = Tell(a.txs, "Invalid")
              /\ Exit(t, b) /\ timers' = WithoutTimers(t, b)
              /\ channel' = Taken(t, u)
              /\ UNCHANGED <<records, down>>
        /\ UNCHANGED <<started, vouched>>

-----------------------------------------------------------------------------
(* A tracker that gets the bundle                                          *)

\* CPassBundle keeps any message it gets; a status read as a bundle is empty if it
\* says Validated (0) and cannot be read otherwise.
PassBundle(t, u, b, m) ==
    /\ channel' = Taken(t, u)
    /\ IF m.kind \in {"Transactions", "Validated"}
       THEN /\ Become(t, b, [NoAction(t, b) EXCEPT !.state = "pass", !.txs = m.txs,
                                !.initiator = u, !.message = m])
            /\ UNCHANGED down
       ELSE down' = down \cup {t} /\ UNCHANGED action
    /\ UNCHANGED <<started, response, timers, records, vouched>>

\* CPassBundleInvalidate
PassBundleInvalidate(t, b, a) ==
    /\ channel' = Send(channel, t, {a.initiator}, Status("NotValid", b))
    /\ Exit(t, b)
    /\ UNCHANGED timers

\* CBroadcastBundle, which passes the message on
BroadcastBundle(t, b, a) ==
    LET others == PeersOf[t] \ {a.initiator}
    IN  /\ channel' = Send(channel, t, others, a.message)
        /\ timers' = Append(timers, <<t, b>>)
        /\ Become(t, b, [a EXCEPT !.state = "broadcast", !.partners = others])

\* The CValidationEvent of CPassBundle: all or nothing
PassValidated(t, b) ==
    LET a == action[t][b]
    IN  /\ In(t, b, "passChecked")
        /\ \/ a.invalid # {} /\ PassBundleInvalidate(t, b, a)
           \/ a.invalid = {} /\ BroadcastBundle(t, b, a)
        /\ UNCHANGED <<started, response, records, vouched, down>>

\* CPassBundleValidate, entered by action a
PassBundleValidate(t, b, a, ch, timersLeft, targets) ==
    /\ Become(t, b, [a EXCEPT !.state = "validate"])
    /\ channel' = Send(ch, t, targets, Status("Validated", b))
    /\ timers' = Append(timersLeft, <<t, b>>)
    /\ vouched' = [vouched EXCEPT ![b] = @ \cup {t}]

\* CNoMedium in CBroadcastBundle: there was nobody to pass the bundle to.
NoMedium(t, b) ==
    LET a == action[t][b]
    IN  /\ In(t, b, "broadcast") /\ PeersOf[t] \subseteq {a.initiator}
        /\ PassBundleValidate(t, b, a, channel, timers, {a.initiator})
        /\ UNCHANGED <<started, response, records, down>>

\* A status reaches CBroadcastBundle.  The initiator is in m_known and never in
\* m_partners, so the two sets that are compared differ.
BroadcastStatus(t, u, b, m) ==
    LET a == [action[t][b] EXCEPT
                  !.validated = IF m.kind = "Validated" THEN @ \cup m.path ELSE @]
    IN  /\ In(t, b, "broadcast")
        /\ IF a.validated \cup {a.initiator} = a.partners
           THEN PassBundleValidate(t, b, a, Taken(t, u), timers, {a.initiator})
           ELSE Become(t, b, a) /\ channel' = Taken(t, u) /\ UNCHANGED <<timers, vouched>>
        /\ UNCHANGED <<started, response, records, down>>

\* Faulty CPassBundleValidate: Confirmed is passed on only.
ValidateStatusDeaf(t, u, b, m) ==
    LET a == [action[t][b] EXCEPT !.exceptions = @ \cup m.path]
    IN  /\ In(t, b, "validate")
        /\ Become(t, b, a)
        /\ channel' = IF m.kind = "Confirmed"
                      THEN Send(Taken(t, u), t, PeersOf[t] \ a.exceptions, m)
                      ELSE Taken(t, u)
        /\ UNCHANGED <<started, response, timers, records, vouched, down>>

\* A status reaches CPassBundleValidate: Confirmed is passed on and obeyed.
ValidateStatus(t, u, b, m) ==
    LET a == [action[t][b] EXCEPT !.exceptions = @ \cup m.path]
    IN  /\ In(t, b, "validate")
        /\ \/ /\ m.kind = "Confirmed"
              /\ Approve(t, b, a, Taken(t, u),
                         Send(Taken(t, u), t, PeersOf[t] \ a.exceptions, m))
           \/ /\ m.kind # "Confirmed"
              /\ channel' = Taken(t, u)
              /\ Become(t, b, a)
              /\ UNCHANGED <<timers, records, down>>
        /\ UNCHANGED <<started, response, vouched>>

\* Nobody waits for the message: a status of a bundle without an action, or whose
\* action does not react; a bundle whose action exists, for its id is no request.
Discard(t, u, b, m) ==
    /\ t \notin down
    /\ \/ m.kind # "Transactions" /\ action[t][b].state \in {"none", "approved"}
       \/ m.kind = "Transactions" /\ action[t][b].state # "none"
    /\ channel' = Taken(t, u)
    /\ UNCHANGED <<action, started, response, timers, records, vouched, down>>

\* processMessage, and the direct response of an action
Receive(t, u) ==
    /\ channel[u][t] # <<>>
    /\ LET m == Head(channel[u][t])
           b == m.about
       IN  \/ m.kind = "Transactions" /\ In(t, b, "none") /\ PassBundle(t, u, b, m)
           \/ /\ m.kind # "Transactions" /\ (In(t, b, "pass") \/ In(t, b, "passChecked"))
              /\ PassBundle(t, u, b, m)
           \/ m.kind # "Transactions" /\ PropagateStatus(t, u, b, m)
           \/ m.kind # "Transactions" /\ BroadcastStatus(t, u, b, m)
           \/ m.kind # "Transactions" /\ ValidateStatus(t, u, b, m)
           \/ Discard(t, u, b, m)

-----------------------------------------------------------------------------
(* Time, monitors and connections                                          *)

Busy(t) == \/ \E u \in Tracker : channel[u][t] # <<>>
           \/ \E b \in Bundle :
                \/ action[t][b].state \in {"origin", "originChecked", "pass", "passChecked"}
                \/ action[t][b].state = "broadcast" /\ action[t][b].partners = {}

\* Faulty CPropagateBundle: its time event is not a reaction.
TimeoutNotAtOrigin ==
    /\ timers # <<>>
    /\ SlowTimers => \A t \in Tracker \ down : ~ Busy(t)
    /\ LET t == Head(timers)[1]
           b == Head(timers)[2]
           a == action[t][b]
       IN  \/ /\ In(t, b, "validate")
              /\ Exit(t, b)
              /\ timers' = WithoutTimers(t, b)
              /\ UNCHANGED <<channel, vouched>>
           \/ /\ In(t, b, "broadcast") /\ a.partners # {}
              /\ PassBundleValidate(t, b, a, channel, Tail(timers), a.partners)
           \/ /\ t \in down \/ In(t, b, "propagate")
              /\ timers' = Tail(timers)
              /\ UNCHANGED <<action, channel, vouched>>
    /\ UNCHANGED <<started, response, records, down>>

\* The CTimeEvent of CPropagateBundle, CPassBundleValidate and CBroadcastBundle.
\* CNoMedium, of the same turn of the loop, is never later than 15 s.
Timeout ==
    /\ timers # <<>>
    /\ SlowTimers => \A t \in Tracker \ down : ~ Busy(t)
    /\ LET t == Head(timers)[1]
           b == Head(timers)[2]
           a == action[t][b]
       IN  \/ /\ In(t, b, "propagate") \/ In(t, b, "validate")
              /\ Exit(t, b)
              /\ timers' = WithoutTimers(t, b)
              /\ UNCHANGED <<channel, vouched>>
           \/ /\ In(t, b, "broadcast") /\ a.partners # {}
              /\ PassBundleValidate(t, b, a, channel, Tail(timers), a.partners)
           \/ /\ t \in down
              /\ timers' = Tail(timers)
              /\ UNCHANGED <<action, channel, vouched>>
    /\ UNCHANGED <<started, response, records, down>>

\* CApproved: a monitor acknowledges the bundle, or there is none.
MonitorAnswer(t, b) ==
    /\ In(t, b, "approved")
    /\ Exit(t, b)
    /\ UNCHANGED <<started, response, channel, timers, records, vouched, down>>

\* A connection breaks with what is on the way, and is made again.
Lose(t, u) ==
    /\ MayLose /\ channel[t][u] # <<>>
    /\ channel' = [channel EXCEPT ![t][u] = <<>>]
    /\ UNCHANGED <<action, started, response, timers, records, vouched, down>>

Step(t, b) ==
    Validate(t, b) \/ OriginValidated(t, b) \/ PassValidated(t, b) \/ NoMedium(t, b)

Next ==
    \/ \E b \in Bundle : Start(b)
    \/ \E t \in Tracker, b \in Bundle : Step(t, b) \/ MonitorAnswer(t, b)
    \/ \E t, u \in Tracker : Receive(t, u) \/ Lose(t, u)
    \/ Timeout

Spec == Init /\ [][Next]_vars

\* The loop of a tracker turns, its connections deliver and time passes; clients
\* and monitors owe nothing.
FairSpec ==
    /\ Spec
    /\ \A t \in Tracker, b \in Bundle : WF_vars(Step(t, b))
    /\ \A t, u \in Tracker : WF_vars(Receive(t, u))
    /\ WF_vars(Timeout)

-----------------------------------------------------------------------------
(* Properties                                                              *)

\* CPropagateBundle waits for all: whatever the trackers store of a bundle, all
\* trackers its origin knows have reported it as Validated, through losses
\* and actions that ended too early.
NoLoneApproval ==
    \A t \in Tracker : \A x \in stored[t] :
        PeersOf[OriginOf[BundleOf[x]]] \subseteq vouched[BundleOf[x]]

\* setClientResponse( Invalid ): no tracker ever stores a transaction whose client
\* has last been told it is invalid.
RejectedNowhere ==
    \A t \in Tracker : \A x \in stored[t] : response[x] # "Invalid"

\* PropagateWaitTime of CPropagateBundle: the origin does not wait for a status for
\* ever, whatever is lost on the way.
OriginDecides ==
    \A b \in Bundle : b \in started ~>
        \/ action[OriginOf[b]][b].state \in {"none", "approved"}
        \/ OriginOf[b] \in down

\* setClientResponse( Validated ): what a client is told to be validated comes to be
\* stored by its tracker and all that one knows, if nothing is lost or late.
ClientAnswerHolds ==
    \A x \in Tx : response[x] = "Validated" ~>
        LET t == OriginOf[BundleOf[x]]
        IN  \A u \in {t} \cup PeersOf[t] : x \in stored[u]

\* validateTransactionBundle and addValidatedTransactionBundle: no tracker stores two
\* transactions that spend the same output.
NoDoubleSpend ==
    \A t \in Tracker : \A x, y \in stored[t] : x # y => Spends[x] \cap Spends[y] = {}
=============================================================================
