----------------------------- MODULE Execution -----------------------------
(***************************************************************************)
(* Layer 7: Executor (l7_execution/executor.py), the two brokers it can    *)
(* drive (broker.py) and the trade journal it writes (db/repository.py,    *)
(* TradeRepository.record_open).                                           *)
(*                                                                         *)
(* A batch is one call of execute_all; its legs are executed one at a      *)
(* time.  A leg that passes the guards goes through three separate steps - *)
(* the broker sends, the id is marked seen, the fill is journalled - so a  *)
(* restart or a broker exception may fall between any two of them.         *)
(*                                                                         *)
(* Operators commented "Mutant:" are not part of the model; each is a      *)
(* plausible bug that a property below is shown to catch.                  *)
(***************************************************************************)
EXTENDS Integers

CONSTANTS
  Symbols,      \* instruments
  Sizes,        \* signed decision sizes in even units, so half of one exists; 0 = not approved
  MaxNow,       \* bound: the clock runs over minutes 0 .. MaxNow
  BarLen,       \* minutes per bar
  BarTs,        \* subset of BOOLEAN: does the caller pass bar_ts to execute?
  MaxRetries,   \* ExecutionConfig.max_retries
  Live,         \* TRUE: MT5Broker, FALSE: PaperBroker
  MaxRequotes,  \* bound on PaperBroker.requotes
  JournalMayFail, \* can record_open raise?
  MaxRestarts   \* bound on restarts of the trading process

ASSUME ExecutionAssumption ==
  /\ Sizes \subseteq Int /\ MaxNow \in Nat /\ BarLen \in Nat \ {0}
  /\ BarTs \subseteq BOOLEAN /\ MaxRetries \in Nat /\ Live \in BOOLEAN
  /\ MaxRequotes \in Nat /\ JournalMayFail \in BOOLEAN /\ MaxRestarts \in Nat

Minutes == 0 .. MaxNow

(* Executor._order_id: the magic number is constant, so an id is a symbol  *)
(* and a minute, the minute of bar_ts or, when that is omitted, of now.    *)
OrderIds == [sym : Symbols, key : Minutes]
OrderId(s, k) == [sym |-> s, key |-> k]
BarOf(minute) == minute - (minute % BarLen)

Fills == {"FILLED", "PARTIAL"}          \* OrderResult.is_fill
NoCall == [pc |-> "none"]

VARIABLES
  now,       \* wall clock, in minutes
  seen,      \* Executor._seen
  key,       \* the timestamp the running batch keys its ids with
  todo,      \* legs <<symbol, size>> execute_all has still to handle
  call,      \* the execute call in flight
  paper,     \* PaperBroker: requotes left, fill_ratio in halves, slippage over the limit?, quoted symbols
  orders,    \* ids the broker has received an order for
  deals,     \* number of deals the broker made per id
  lots,      \* signed volume of those deals per id
  journal,   \* trades table: <<trade_id, lots>> rows
  restarts   \* restarts so far

executor == <<seen, key, todo, call>>
broker == <<paper, orders, deals, lots>>
vars == <<now, executor, broker, journal, restarts>>

InFlight ==
  [pc : {"sending", "sent", "filled"}, id : OrderIds, size : Int,
   attempts : 0 .. MaxRetries + 1, status : {"none", "REQUOTE", "REJECTED"} \cup Fills,
   requoted : BOOLEAN, got : Int]

Papers == [requotes : 0 .. MaxRequotes, halves : 0 .. 2, slips : BOOLEAN,
           quoted : SUBSET Symbols]

(* The retry loop never makes more than max_retries + 1 attempts, no row   *)
(* or deal belongs to anything but an order id, and so on.                 *)
TypeOK ==
  /\ now \in Minutes /\ key \in Minutes
  /\ seen \subseteq OrderIds
  /\ todo \subseteq (Symbols \X Sizes)
  /\ call \in InFlight \cup {NoCall}
  /\ paper \in Papers
  /\ orders \subseteq OrderIds
  /\ deals \in [OrderIds -> Nat] /\ lots \in [OrderIds -> Int]
  /\ journal \subseteq (OrderIds \X Int)
  /\ restarts \in 0 .. MaxRestarts

Init ==
  /\ now = 0 /\ seen = {} /\ key = 0 /\ todo = {} /\ call = NoCall
  /\ paper \in {p \in Papers : p.quoted \in {{}, Symbols}}
  /\ Live => paper = [requotes |-> 0, halves |-> 0, slips |-> FALSE, quoted |-> {}]
  /\ orders = {}
  /\ deals = [id \in OrderIds |-> 0] /\ lots = [id \in OrderIds |-> 0]
  /\ journal = {} /\ restarts = 0

-----------------------------------------------------------------------------
(* The executor.                                                           *)

Idle == call = NoCall /\ todo = {}

(* execute_all is called with one decision per symbol; bar_ts, when given, *)
(* is the open of this bar or of an earlier one that is being reprocessed. *)
Begin(S, size) ==
  /\ Idle
  /\ todo' = {<<s, size[s]>> : s \in S}
  /\ \E given \in BarTs, m \in 0 .. now : key' = IF given THEN BarOf(m) ELSE now
  /\ UNCHANGED <<now, seen, call, broker, journal, restarts>>

(* Mutant: the idempotence check is gone. *)
NeverDuplicate(id) == FALSE
Duplicate(id) == id \in seen

(* Mutant: a guard skip consumes the id. *)
SkipAndConsume(leg, guardsOk) ==
  /\ call = NoCall /\ leg \in todo
  /\ leg[2] = 0 \/ Duplicate(OrderId(leg[1], key)) \/ ~ guardsOk
  /\ todo' = todo \ {leg} /\ seen' = seen \cup {OrderId(leg[1], key)}
  /\ UNCHANGED <<now, key, call, broker, journal, restarts>>

(* execute returns SKIPPED: no quote, no position, duplicate id, or a      *)
(* spread/news guard (guardsOk = FALSE).  The id is not consumed.          *)
Skip(leg, guardsOk) ==
  /\ call = NoCall /\ leg \in todo
  /\ leg[2] = 0 \/ Duplicate(OrderId(leg[1], key)) \/ ~ guardsOk
  /\ todo' = todo \ {leg}
  /\ UNCHANGED <<now, seen, key, call, broker, journal, restarts>>

(* execute passes its guards and builds the OrderRequest. *)
Route(leg, guardsOk) ==
  /\ call = NoCall /\ leg \in todo
  /\ leg[2] # 0 /\ ~ Duplicate(OrderId(leg[1], key)) /\ guardsOk
  /\ todo' = todo \ {leg}
  /\ call' = [pc |-> "sending", id |-> OrderId(leg[1], key), size |-> leg[2],
              attempts |-> 0, status |-> "none", requoted |-> FALSE, got |-> 0]
  /\ UNCHANGED <<now, seen, key, broker, journal, restarts>>

(* Mutants: whatever is not a fill is sent again; one attempt too many. *)
RetryUnfilled(status, n) == status \notin Fills /\ n <= MaxRetries
RetryOneMore(status, n) == status = "REQUOTE" /\ n <= MaxRetries + 1

(* _send_with_retry's loop goes round again after the n-th answer. *)
Retry(status, n) == status = "REQUOTE" /\ n <= MaxRetries

(* Mutant: try until filled, counting nothing. *)
AnswerUntilFilled(status, requoted, got) ==
  call' = [call EXCEPT !.status = status, !.requoted = requoted, !.got = got,
             !.pc = IF status \in Fills THEN "sent" ELSE "sending"]

Answer(status, requoted, got) ==
  LET n == call.attempts + 1 IN
  call' = [call EXCEPT !.attempts = n, !.status = status, !.requoted = requoted,
             !.got = got, !.pc = IF Retry(status, n) THEN "sending" ELSE "sent"]

(* place_order raised: execute, and execute_all around it, are abandoned. *)
Abandon == call' = NoCall /\ todo' = {}

Deal(id, volume) ==
  /\ deals' = [deals EXCEPT ![id] = @ + 1]
  /\ lots' = [lots EXCEPT ![id] = @ + volume]

(* PaperBroker.place_order. *)
PaperPlaceOrder ==
  /\ ~ Live /\ call.pc = "sending"
  /\ orders' = orders \cup {call.id}
  /\ \/ /\ paper.requotes > 0
        /\ paper' = [paper EXCEPT !.requotes = @ - 1]
        /\ Answer("REQUOTE", TRUE, 0)
        /\ UNCHANGED <<todo, deals, lots>>
     \/ /\ paper.requotes = 0 /\ call.id.sym \notin paper.quoted
        /\ Abandon                          \* KeyError on _quotes
        /\ UNCHANGED <<paper, deals, lots>>
     \/ /\ paper.requotes = 0 /\ call.id.sym \in paper.quoted /\ paper.slips
        /\ Answer("REJECTED", FALSE, 0)
        /\ UNCHANGED <<todo, paper, deals, lots>>
     \/ /\ paper.requotes = 0 /\ call.id.sym \in paper.quoted /\ ~ paper.slips
        /\ LET got == (call.size * paper.halves) \div 2 IN
           /\ Answer(IF paper.halves = 2 THEN "FILLED" ELSE "PARTIAL", FALSE, got)
           /\ Deal(call.id, got)
        /\ UNCHANGED <<todo, paper>>
  /\ UNCHANGED <<now, seen, key, journal, restarts>>

(* MT5Broker.place_order: every answer but DONE, a requote included, comes *)
(* back as REJECTED; when the answer of order_send is lost (None, timeout) *)
(* the server may have dealt all the same.                                 *)
LivePlaceOrder ==
  /\ Live /\ call.pc = "sending"
  /\ \/ /\ Abandon                          \* no tick: raises before order_send
        /\ UNCHANGED <<orders, deals, lots>>
     \/ /\ orders' = orders \cup {call.id} /\ UNCHANGED todo
        /\ \/ Answer("FILLED", FALSE, call.size) /\ Deal(call.id, call.size)
           \/ Answer("REJECTED", FALSE, 0) /\ Deal(call.id, call.size)
           \/ /\ \E requoted \in BOOLEAN : Answer("REJECTED", requoted, 0)
              /\ UNCHANGED <<deals, lots>>
  /\ UNCHANGED <<now, seen, key, paper, journal, restarts>>

(* Mutant: only a fill is remembered, as if _seen.add stood in the is_fill *)
(* branch.                                                                 *)
MarkSeenIfFilled ==
  /\ call.pc = "sent"
  /\ seen' = IF call.status \in Fills THEN seen \cup {call.id} ELSE seen
  /\ call' = IF call.status \in Fills THEN [call EXCEPT !.pc = "filled"] ELSE NoCall
  /\ UNCHANGED <<now, key, todo, broker, journal, restarts>>

(* Mutant: the journal is written whatever the result was. *)
MarkSeenAlwaysJournal ==
  /\ call.pc = "sent"
  /\ seen' = seen \cup {call.id}
  /\ call' = [call EXCEPT !.pc = "filled"]
  /\ UNCHANGED <<now, key, todo, broker, journal, restarts>>

(* self._seen.add(coid), after the sends. *)
MarkSeen ==
  /\ call.pc = "sent"
  /\ seen' = seen \cup {call.id}
  /\ call' = IF call.status \in Fills THEN [call EXCEPT !.pc = "filled"] ELSE NoCall
  /\ UNCHANGED <<now, key, todo, broker, journal, restarts>>

(* Mutant: the requested size is journalled, not filled_lots. *)
JournalRequested(id) == journal \cup {<<id, call.size>>}

(* TradeRepository.record_open: ON CONFLICT (trade_id) DO NOTHING. *)
Journalled(id) ==
  IF \E row \in journal : row[1] = id THEN journal ELSE journal \cup {<<id, call.got>>}

(* Executor._journal: a failed write is only logged. *)
RecordOpen(written) ==
  /\ call.pc = "filled"
  /\ written \/ JournalMayFail
  /\ journal' = IF written THEN Journalled(call.id) ELSE journal
  /\ call' = NoCall
  /\ UNCHANGED <<now, seen, key, todo, broker, restarts>>

-----------------------------------------------------------------------------
(* The environment.                                                        *)

Tick ==
  /\ now < MaxNow
  /\ now' = now + 1
  /\ UNCHANGED <<executor, broker, journal, restarts>>

(* PaperBroker.set_quote. *)
SetQuote(s) ==
  /\ ~ Live /\ s \notin paper.quoted
  /\ paper' = [paper EXCEPT !.quoted = @ \cup {s}]
  /\ UNCHANGED <<now, executor, orders, deals, lots, journal, restarts>>

(* The process dies anywhere and is started again: a new Executor with an  *)
(* empty _seen; the account and the database are not touched.  (A paper    *)
(* account lives in the process, so a paper restart is just Init.)         *)
Restart ==
  /\ Live /\ restarts < MaxRestarts
  /\ restarts' = restarts + 1
  /\ seen' = {} /\ todo' = {} /\ call' = NoCall
  /\ UNCHANGED <<now, key, broker, journal>>

Legs == Symbols \X Sizes

(* The thread running execute_all takes its next step. *)
Step ==
  \/ \E leg \in Legs, ok \in BOOLEAN : Skip(leg, ok) \/ Route(leg, ok)
  \/ PaperPlaceOrder \/ LivePlaceOrder
  \/ MarkSeen
  \/ \E written \in BOOLEAN : RecordOpen(written)

Next ==
  \/ \E S \in SUBSET Symbols : \E size \in [S -> Sizes] : Begin(S, size)
  \/ Step
  \/ Tick
  \/ \E s \in Symbols : SetQuote(s)
  \/ Restart

Spec == Init /\ [][Next]_vars

(* That thread keeps running while it has something to do. *)
FairSpec == Spec /\ WF_vars(Step)

-----------------------------------------------------------------------------
(* Properties.                                                             *)

(* "One order per (symbol, bar), so reprocessing a bar never double-fires" *)
(* (executor.py:7-8): the account never holds two deals for one bar.       *)
OneFillPerBar ==
  \A id, other \in OrderIds :
    /\ id.sym = other.sym /\ BarOf(id.key) = BarOf(other.key)
    /\ deals[id] > 0 /\ deals[other] > 0
    => id = other /\ deals[id] = 1

(* Whatever the broker hides and wherever the process dies, an order id is *)
(* dealt at most once per life of the process.                             *)
OneDealPerLife == \A id \in OrderIds : deals[id] <= restarts + 1

(* An id in _seen is never dealt again: "a fill is never repeated"         *)
(* (executor.py:120).                                                      *)
SeenNeverDealsAgain == [][\A id \in seen : deals'[id] = deals[id]]_vars

(* Only a send consumes an id (executor.py:118-120): a leg skipped by a    *)
(* guard, or cut off by an exception on an earlier leg, can still fire.    *)
OnlySendsConsume == seen \subseteq orders

(* "Retry on transient requotes" (executor.py:9), on requotes only and on  *)
(* all of them: who is about to send once more was last answered by a      *)
(* requote, and the loop ends on a requote only when the max_retries + 1   *)
(* attempts are spent.                                                     *)
RequotesRetried ==
  /\ call.pc = "sending" => (call.attempts > 0 => call.requoted)
  /\ call.pc = "sent" => (call.requoted => call.attempts = MaxRetries + 1)

(* The journal never names a trade the account does not have, in whatever  *)
(* order sends, crashes and journal failures come.                         *)
JournalIsReal == \A row \in journal : deals[row[1]] > 0

(* Between batches the journal and the account agree, trade by trade and   *)
(* lot by lot, partial fills included (no restart, no failed write).       *)
JournalMatchesAccount ==
  Idle => {row \in journal : row[2] # 0} = {<<id, lots[id]>> : id \in {i \in OrderIds : lots[i] # 0}}

(* Every batch returns, whatever the broker answers. *)
BatchReturns == [](~ Idle => <>Idle)

(* The executor decides each order id once: see IdealOrders. *)
status ==
  [id \in OrderIds |-> IF deals[id] > 0 THEN "filled"
                       ELSE IF id \in seen THEN "closed" ELSE "open"]
Ideal == INSTANCE IdealOrders WITH OrderIds <- OrderIds, status <- status
DecidedOnce == Ideal!IdealSpec
=============================================================================
