-------------------------- MODULE ExecutionProofs --------------------------
(***************************************************************************)
(* Proofs about Execution, for any symbols, sizes, retry budget, broker    *)
(* and number of restarts.                                                 *)
(***************************************************************************)
EXTENDS Execution, TLAPS

(* The type invariant is inductive once a round that is still sending is   *)
(* known to have an attempt left.                                          *)
AttemptLeft == call.pc = "sending" => call.attempts <= MaxRetries
TypeInv == TypeOK /\ AttemptLeft

(* BarOf stays within the clock's range. *)
LEMMA BarOfMinute == \A m \in Minutes : BarOf(m) \in 0 .. m
  BY ExecutionAssumption, SMTT(30) DEF BarOf, Minutes

Answers == {"REQUOTE", "REJECTED"} \cup Fills

LEMMA CallTypes ==
  ASSUME call \in InFlight \cup {NoCall}, call.pc # "none"
  PROVE  /\ call \in InFlight /\ call.id \in OrderIds /\ call.id.sym \in Symbols
         /\ call.size \in Int /\ call.got \in Int
  BY DEF InFlight, NoCall, OrderIds

(* What one answer of the broker does to the call in flight. *)
LEMMA Answered ==
  ASSUME TypeInv, call.pc = "sending", NEW status_ \in Answers,
         NEW requoted_ \in BOOLEAN, NEW got_ \in Int, Answer(status_, requoted_, got_)
  PROVE  /\ call' \in InFlight /\ AttemptLeft'
         /\ call'.id = call.id /\ call'.status = status_ /\ call'.requoted = requoted_
         /\ call'.pc = "sending" => status_ = "REQUOTE"
         /\ call'.pc \in {"sending", "sent"}
         /\ call'.pc = "sent" /\ status_ = "REQUOTE" => call'.attempts = MaxRetries + 1
<1> DEFINE n == call.attempts + 1
           next == IF Retry(status_, n) THEN "sending" ELSE "sent"
<1>1. call \in InFlight
  BY CallTypes DEF TypeInv, TypeOK
<1>2. n \in 0 .. MaxRetries + 1
  BY <1>1, ExecutionAssumption DEF TypeInv, AttemptLeft, InFlight
<1>3. call' = [pc |-> next, id |-> call.id, size |-> call.size, attempts |-> n,
               status |-> status_, requoted |-> requoted_, got |-> got_]
  BY <1>1 DEF Answer, InFlight
<1>4. next \in {"sending", "sent"} /\ (next = "sending" => status_ = "REQUOTE" /\ n <= MaxRetries)
  BY DEF Retry
<1>5. next = "sent" /\ status_ = "REQUOTE" => n = MaxRetries + 1
  BY <1>2, ExecutionAssumption DEF Retry
<1> HIDE DEF n, next
<1> QED
  BY <1>1, <1>2, <1>3, <1>4, <1>5 DEF AttemptLeft, InFlight, Answers

(* What both brokers have in common: either the call is abandoned and the  *)
(* account untouched, or it is answered, with at most one deal, and with   *)
(* none if the answer is a requote and one if it is a fill.                *)
AnsweredStep ==
  \E st \in Answers, r \in BOOLEAN, g \in Int :
    /\ Answer(st, r, g) /\ call.id \in orders'
    /\ \/ st \notin Fills /\ UNCHANGED <<deals, lots>>
       \/ st # "REQUOTE" /\ \E v \in Int : Deal(call.id, v)
    /\ ~ Live => (r <=> st = "REQUOTE")
AbandonedStep == Abandon /\ UNCHANGED <<deals, lots>>

LEMMA PaperStep ==
  ASSUME TypeInv, PaperPlaceOrder
  PROVE  paper' \in Papers /\ orders' = orders \cup {call.id}
         /\ (AbandonedStep \/ (AnsweredStep /\ todo' = todo))
<1>1. paper \in Papers /\ call.id \in orders' /\ ~ Live /\ orders' = orders \cup {call.id}
  BY DEF TypeInv, TypeOK, PaperPlaceOrder
<1>2. call.size \in Int
  BY CallTypes DEF TypeInv, TypeOK, PaperPlaceOrder
<1>3. CASE /\ paper.requotes > 0
           /\ paper' = [paper EXCEPT !.requotes = @ - 1]
           /\ Answer("REQUOTE", TRUE, 0)
           /\ UNCHANGED <<todo, deals, lots>>
  <2>1. paper' \in Papers
    BY <1>1, <1>3, ExecutionAssumption DEF Papers
  <2>2. AnsweredStep
    <3>1. "REQUOTE" \in Answers /\ "REQUOTE" \notin Fills
      BY DEF Answers, Fills
    <3> USE <1>1, <3>1 DEF AnsweredStep
    <3> WITNESS "REQUOTE" \in Answers, TRUE \in BOOLEAN, 0 \in Int
    <3> QED BY <1>1, <1>3, <3>1
  <2> QED BY <1>1, <1>3, <2>1, <2>2
<1>4. CASE Abandon /\ UNCHANGED <<paper, deals, lots>>
  BY <1>1, <1>4 DEF AbandonedStep, Abandon
<1>5. CASE Answer("REJECTED", FALSE, 0) /\ UNCHANGED <<todo, paper, deals, lots>>
  <2>1. AnsweredStep
    <3>1. "REJECTED" \in Answers /\ "REJECTED" \notin Fills
      BY DEF Answers, Fills
    <3> USE <1>1, <3>1 DEF AnsweredStep
    <3> WITNESS "REJECTED" \in Answers, FALSE \in BOOLEAN, 0 \in Int
    <3> QED BY <1>1, <1>5, <3>1
  <2> QED BY <1>1, <1>5, <2>1
<1> DEFINE got == (call.size * paper.halves) \div 2
<1>6. CASE /\ Answer(IF paper.halves = 2 THEN "FILLED" ELSE "PARTIAL", FALSE, got)
           /\ Deal(call.id, got)
           /\ UNCHANGED <<todo, paper>>
  <2>1. got \in Int
    <3>1. call.size * paper.halves \in Int
      BY <1>1, <1>2 DEF Papers
    <3> QED BY <3>1
  <2> HIDE DEF got
  <2>2. AnsweredStep
    <3>1. PICK st \in Fills : Answer(st, FALSE, got)
      BY <1>6 DEF Fills
    <3>2. st \in Answers /\ st # "REQUOTE"
      BY <3>1 DEF Fills, Answers
    <3> QED BY <1>1, <1>6, <2>1, <3>1, <3>2 DEF AnsweredStep
  <2> QED BY <1>1, <1>6, <2>2
<1> QED BY <1>1, <1>3, <1>4, <1>5, <1>6 DEF PaperPlaceOrder

LEMMA LiveStep ==
  ASSUME TypeInv, LivePlaceOrder
  PROVE  paper' = paper /\ orders \subseteq orders' /\ orders' \subseteq orders \cup {call.id}
         /\ (AbandonedStep \/ (AnsweredStep /\ todo' = todo))
<1>1. call.size \in Int /\ Live
  BY CallTypes DEF LivePlaceOrder, TypeInv, TypeOK
<1>2. CASE Abandon /\ UNCHANGED <<orders, deals, lots>>
  BY <1>2 DEF AbandonedStep, Abandon, LivePlaceOrder
<1>3. CASE orders' = orders \cup {call.id} /\ UNCHANGED todo /\ Answer("FILLED", FALSE, call.size)
           /\ Deal(call.id, call.size)
  <2>1. AnsweredStep
    <3>1. "FILLED" \in Answers /\ "FILLED" # "REQUOTE"
      BY DEF Answers, Fills
    <3> USE <1>1, <3>1 DEF AnsweredStep
    <3> WITNESS "FILLED" \in Answers, FALSE \in BOOLEAN, call.size \in Int
    <3> QED BY <1>1, <1>3, <3>1
  <2> QED BY <1>3, <2>1 DEF LivePlaceOrder
<1>4. CASE orders' = orders \cup {call.id} /\ UNCHANGED todo /\ Answer("REJECTED", FALSE, 0)
           /\ Deal(call.id, call.size)
  <2>1. AnsweredStep
    <3>1. "REJECTED" \in Answers /\ "REJECTED" # "REQUOTE"
      BY DEF Answers, Fills
    <3> USE <1>1, <3>1 DEF AnsweredStep
    <3> WITNESS "REJECTED" \in Answers, FALSE \in BOOLEAN, 0 \in Int
    <3> QED BY <1>1, <1>4, <3>1
  <2> QED BY <1>4, <2>1 DEF LivePlaceOrder
<1>5. CASE orders' = orders \cup {call.id} /\ UNCHANGED todo
           /\ (\E requoted \in BOOLEAN : Answer("REJECTED", requoted, 0))
           /\ UNCHANGED <<deals, lots>>
  <2>1. AnsweredStep
    <3>1. "REJECTED" \in Answers /\ "REJECTED" \notin Fills
      BY DEF Answers, Fills
    <3>2. PICK requoted \in BOOLEAN : Answer("REJECTED", requoted, 0)
      BY <1>5
    <3> USE <1>1, <3>1 DEF AnsweredStep
    <3> WITNESS "REJECTED" \in Answers, requoted \in BOOLEAN, 0 \in Int
    <3> QED BY <1>1, <1>5, <3>1, <3>2
  <2> QED BY <1>5, <2>1 DEF LivePlaceOrder
<1> QED BY <1>2, <1>3, <1>4, <1>5 DEF LivePlaceOrder

PlaceOrder == PaperPlaceOrder \/ LivePlaceOrder

LEMMA PlaceStep ==
  ASSUME TypeInv, PlaceOrder
  PROVE  /\ call \in InFlight /\ call.pc = "sending" /\ call.id \in OrderIds
         /\ UNCHANGED <<now, seen, key, journal, restarts>>
         /\ paper' \in Papers
         /\ orders \subseteq orders' /\ orders' \subseteq orders \cup {call.id}
         /\ AbandonedStep \/ (AnsweredStep /\ todo' = todo)
<1>1. call.pc = "sending" /\ UNCHANGED <<now, seen, key, journal, restarts>> /\ paper \in Papers
  BY DEF PlaceOrder, PaperPlaceOrder, LivePlaceOrder, TypeInv, TypeOK
<1>2. call \in InFlight /\ call.id \in OrderIds
  BY <1>1, CallTypes DEF TypeInv, TypeOK
<1> QED BY <1>1, <1>2, PaperStep, LiveStep DEF PlaceOrder

(* Next, with the two brokers' steps taken together. *)
LEMMA NextCases ==
  ASSUME [Next]_vars
  PROVE  \/ \E S \in SUBSET Symbols : \E size \in [S -> Sizes] : Begin(S, size)
         \/ \E leg \in Legs, ok \in BOOLEAN : Skip(leg, ok)
         \/ \E leg \in Legs, ok \in BOOLEAN : Route(leg, ok)
         \/ PlaceOrder
         \/ MarkSeen
         \/ \E written \in BOOLEAN : RecordOpen(written)
         \/ Tick
         \/ \E s \in Symbols : SetQuote(s)
         \/ Restart
         \/ UNCHANGED vars
  BY DEF Next, Step, PlaceOrder

-----------------------------------------------------------------------------

LEMMA TypeInit == Init => TypeInv
  BY ExecutionAssumption
  DEF Init, TypeInv, TypeOK, AttemptLeft, Minutes, Papers, NoCall

LEMMA TypeStep == TypeInv /\ [Next]_vars => TypeInv'
<1> SUFFICES ASSUME TypeInv, [Next]_vars PROVE TypeInv'
  OBVIOUS
<1> USE DEF TypeInv, TypeOK, AttemptLeft, executor, broker
<1>1. ASSUME NEW S \in SUBSET Symbols, NEW size \in [S -> Sizes], Begin(S, size)
      PROVE  TypeInv'
  <2>1. key' \in Minutes
    <3>1. PICK given \in BarTs, m \in 0 .. now : key' = IF given THEN BarOf(m) ELSE now
      BY <1>1 DEF Begin
    <3>2. m \in Minutes
      BY ExecutionAssumption DEF Minutes
    <3>3. BarOf(m) \in 0 .. m
      BY <3>2, BarOfMinute
    <3> QED BY <3>1, <3>2, <3>3, ExecutionAssumption DEF Minutes
  <2>2. todo' \subseteq (Symbols \X Sizes)
    BY <1>1 DEF Begin
  <2> QED BY <1>1, <2>1, <2>2 DEF Begin
<1>2. ASSUME NEW leg \in Legs, NEW ok \in BOOLEAN, Skip(leg, ok) PROVE TypeInv'
  BY <1>2 DEF Skip
<1>3. ASSUME NEW leg \in Legs, NEW ok \in BOOLEAN, Route(leg, ok) PROVE TypeInv'
  <2>1. leg[1] \in Symbols /\ leg[2] \in Int
    BY ExecutionAssumption DEF Legs
  <2>2. OrderId(leg[1], key) \in OrderIds
    BY <2>1 DEF OrderId, OrderIds
  <2>3. call' \in InFlight /\ AttemptLeft'
    BY <1>3, <2>1, <2>2, ExecutionAssumption DEF Route, InFlight
  <2> QED BY <1>3, <2>3 DEF Route
<1>4. CASE PlaceOrder
  <2>1. call' \in InFlight \cup {NoCall} /\ AttemptLeft'
        /\ deals' \in [OrderIds -> Nat] /\ lots' \in [OrderIds -> Int] /\ todo' \subseteq todo
    <3>1. CASE AbandonedStep
      BY <3>1 DEF AbandonedStep, Abandon, NoCall
    <3>2. CASE AnsweredStep /\ todo' = todo
      <4>1. call' \in InFlight /\ AttemptLeft'
        BY <1>4, <3>2, PlaceStep, Answered DEF AnsweredStep
      <4>2. deals' \in [OrderIds -> Nat] /\ lots' \in [OrderIds -> Int]
        BY <1>4, <3>2, PlaceStep DEF AnsweredStep, Deal
      <4> QED BY <3>2, <4>1, <4>2
    <3> QED BY <1>4, <3>1, <3>2, PlaceStep
  <2> QED BY <1>4, <2>1, PlaceStep
<1>5. CASE MarkSeen
  <2>1. call \in InFlight /\ call.id \in OrderIds
    BY <1>5, CallTypes DEF MarkSeen
  <2>2. call' \in InFlight \cup {NoCall} /\ AttemptLeft'
    BY <1>5, <2>1 DEF MarkSeen, InFlight, NoCall
  <2> QED BY <1>5, <2>1, <2>2 DEF MarkSeen
<1>6. ASSUME NEW written \in BOOLEAN, RecordOpen(written) PROVE TypeInv'
  BY <1>6, CallTypes DEF RecordOpen, Journalled, NoCall
<1>7. CASE Tick
  BY <1>7, ExecutionAssumption DEF Tick, Minutes
<1>8. ASSUME NEW s \in Symbols, SetQuote(s) PROVE TypeInv'
  BY <1>8 DEF SetQuote, Papers
<1>9. CASE Restart
  BY <1>9, ExecutionAssumption DEF Restart, NoCall
<1>10. CASE UNCHANGED vars
  BY <1>10 DEF vars
<1> QED
  BY <1>1, <1>2, <1>3, <1>4, <1>5, <1>6, <1>7, <1>8, <1>9, <1>10, NextCases

(* Every variable keeps its type; in particular a round makes at most      *)
(* max_retries + 1 attempts, whichever broker answers.                     *)
THEOREM TypeCorrect == Spec => []TypeOK
<1>1. TypeInv => TypeOK
  BY DEF TypeInv
<1> QED BY <1>1, TypeInit, TypeStep, PTL DEF Spec

-----------------------------------------------------------------------------
(* An id in flight is not in _seen, and in this life of the process it has *)
(* been dealt only if it is in _seen or its round has just ended.          *)
InFlightUnseen == call.pc \in {"sending", "sent"} => call.id \notin seen
Spent(id) == id \in seen \/ (call.pc = "sent" /\ call.id = id)
DealtThisLife ==
  \A id \in OrderIds : deals[id] <= IF Spent(id) THEN restarts + 1 ELSE restarts
LifeInv == TypeInv /\ InFlightUnseen /\ DealtThisLife

LEMMA LifeInit == Init => LifeInv
  BY TypeInit DEF Init, LifeInv, InFlightUnseen, DealtThisLife, Spent, NoCall

LEMMA LifeStep == LifeInv /\ [Next]_vars => LifeInv'
<1> SUFFICES ASSUME LifeInv, [Next]_vars PROVE LifeInv'
  OBVIOUS
<1>0. TypeInv /\ TypeInv'
  BY TypeStep DEF LifeInv
<1>t. deals \in [OrderIds -> Nat] /\ restarts \in Nat
  BY <1>0, ExecutionAssumption DEF TypeInv, TypeOK
<1> SUFFICES InFlightUnseen' /\ DealtThisLife'
  BY <1>0 DEF LifeInv
<1> USE DEF LifeInv, InFlightUnseen, DealtThisLife, Spent, executor, broker
<1>1. ASSUME NEW S \in SUBSET Symbols, NEW size \in [S -> Sizes], Begin(S, size)
      PROVE  InFlightUnseen' /\ DealtThisLife'
  BY <1>1, <1>t DEF Begin, Idle
<1>2. ASSUME NEW leg \in Legs, NEW ok \in BOOLEAN, Skip(leg, ok)
      PROVE  InFlightUnseen' /\ DealtThisLife'
  BY <1>2, <1>t DEF Skip
<1>3. ASSUME NEW leg \in Legs, NEW ok \in BOOLEAN, Route(leg, ok)
      PROVE  InFlightUnseen' /\ DealtThisLife'
  <2>1. call'.pc = "sending" /\ call'.id \notin seen /\ call.pc = "none"
    BY <1>3 DEF Route, Duplicate, NoCall
  <2> QED BY <1>3, <1>t, <2>1 DEF Route
<1>4. CASE PlaceOrder
  <2>1. call.pc = "sending" /\ call.id \in OrderIds /\ seen' = seen /\ restarts' = restarts
    BY <1>0, <1>4, PlaceStep
  <2>2. CASE AbandonedStep
    BY <1>t, <2>1, <2>2 DEF AbandonedStep, Abandon, NoCall
  <2>3. CASE AnsweredStep
    <3>1. PICK st \in Answers, r \in BOOLEAN, g \in Int :
            /\ Answer(st, r, g)
            /\ \/ UNCHANGED deals
               \/ st # "REQUOTE" /\ \E v \in Int : Deal(call.id, v)
      BY <2>3 DEF AnsweredStep
    <3>2. /\ call'.id = call.id /\ call'.pc \in {"sending", "sent"}
          /\ call'.pc = "sending" => st = "REQUOTE"
      BY <1>0, <2>1, <3>1, Answered
    <3>3. CASE UNCHANGED deals
      BY <1>t, <2>1, <3>2, <3>3
    <3>4. CASE st # "REQUOTE" /\ deals' = [deals EXCEPT ![call.id] = @ + 1]
      BY <1>t, <2>1, <3>2, <3>4
    <3> QED BY <3>1, <3>3, <3>4 DEF Deal
  <2> QED BY <1>0, <1>4, <2>2, <2>3, PlaceStep
<1>5. CASE MarkSeen
  <2>1. call'.pc \notin {"sending", "sent"}
    BY <1>0, <1>5, CallTypes DEF MarkSeen, NoCall, TypeInv, TypeOK, InFlight
  <2> QED BY <1>5, <1>t, <2>1 DEF MarkSeen
<1>6. ASSUME NEW written \in BOOLEAN, RecordOpen(written)
      PROVE  InFlightUnseen' /\ DealtThisLife'
  BY <1>6, <1>t DEF RecordOpen, NoCall
<1>7. CASE Tick
  BY <1>7, <1>t DEF Tick
<1>8. ASSUME NEW s \in Symbols, SetQuote(s) PROVE InFlightUnseen' /\ DealtThisLife'
  BY <1>8, <1>t DEF SetQuote
<1>9. CASE Restart
  BY <1>9, <1>t DEF Restart, NoCall
<1>10. CASE UNCHANGED vars
  BY <1>10, <1>t DEF vars
<1> QED
  BY <1>1, <1>2, <1>3, <1>4, <1>5, <1>6, <1>7, <1>8, <1>9, <1>10, NextCases

LEMMA LifeCorrect == Spec => []LifeInv
  BY LifeInit, LifeStep, PTL DEF Spec

(* An order id is dealt at most once per life of the process, whatever the *)
(* broker answers, hides or raises and wherever the process dies.          *)
THEOREM DealtOncePerLife == Spec => []OneDealPerLife
<1>1. LifeInv => OneDealPerLife
  BY ExecutionAssumption DEF LifeInv, TypeInv, TypeOK, DealtThisLife, OneDealPerLife
<1> QED BY <1>1, LifeCorrect, PTL

(* An id in _seen is never dealt again. *)
THEOREM NoSecondDeal == Spec => SeenNeverDealsAgain
<1>1. LifeInv /\ [Next]_vars => [\A id \in seen : deals'[id] = deals[id]]_vars
  <2> SUFFICES ASSUME LifeInv, [Next]_vars
               PROVE  \A id \in seen : deals'[id] = deals[id]
    BY DEF vars
  <2>1. TypeInv /\ seen \subseteq OrderIds /\ deals \in [OrderIds -> Nat]
    BY DEF LifeInv, TypeInv, TypeOK
  <2>2. CASE PlaceOrder
    <3>1. call.id \notin seen
      BY <2>1, <2>2, PlaceStep DEF LifeInv, InFlightUnseen
    <3>2. UNCHANGED deals \/ \E v \in Int : Deal(call.id, v)
      BY <2>1, <2>2, PlaceStep DEF AbandonedStep, AnsweredStep
    <3> QED BY <2>1, <3>1, <3>2 DEF Deal
  <2>3. CASE UNCHANGED deals
    BY <2>3
  <2> QED
    BY <2>2, <2>3, NextCases
    DEF Begin, Skip, Route, MarkSeen, RecordOpen, Tick, SetQuote, Restart, broker, vars
<1> QED BY <1>1, LifeCorrect, PTL DEF Spec, SeenNeverDealsAgain

-----------------------------------------------------------------------------
(* Within one life of the process the executor implements IdealOrders: it  *)
(* decides every order id once and keeps to the decision.                  *)
THEOREM ExecutionImplementsIdeal ==
  ASSUME MaxRestarts = 0
  PROVE  Spec => DecidedOnce
<1>1. Init => Ideal!IdealInit
  BY DEF Init, Ideal!IdealInit, status
<1>2. LifeInv /\ LifeInv' /\ [Next]_vars => [Ideal!IdealNext]_status
  <2> SUFFICES ASSUME LifeInv, LifeInv', [Next]_vars,
                      status' # status
               PROVE  Ideal!IdealNext
    BY DEF status
  <2>1. /\ TypeInv /\ restarts = 0 /\ restarts' = 0 /\ seen \subseteq OrderIds
        /\ deals \in [OrderIds -> Nat] /\ deals' \in [OrderIds -> Nat]
    BY DEF LifeInv, TypeInv, TypeOK
  <2>2. CASE PlaceOrder
    <3>1. /\ call.pc = "sending" /\ call.id \in OrderIds /\ call.id \notin seen
          /\ seen' = seen
      BY <2>1, <2>2, PlaceStep DEF LifeInv, InFlightUnseen
    <3>2. deals[call.id] = 0
      BY <2>1, <3>1 DEF LifeInv, DealtThisLife, Spent
    <3>3. deals' # deals
      BY <3>1 DEF status
    <3>4. deals' = [deals EXCEPT ![call.id] = @ + 1]
      BY <2>1, <2>2, <3>3, PlaceStep DEF AbandonedStep, AnsweredStep, Deal
    <3>5. status[call.id] = "open"
      BY <3>1, <3>2 DEF status
    <3>6. status' = [status EXCEPT ![call.id] = "filled"]
      <4>1. deals'[call.id] = 1 /\ \A id \in OrderIds \ {call.id} : deals'[id] = deals[id]
        BY <2>1, <3>1, <3>2, <3>4
      <4>2. status' = [id \in OrderIds |-> IF id = call.id THEN "filled" ELSE status[id]]
        BY <3>1, <4>1 DEF status
      <4> QED BY <4>2 DEF status
    <3> QED BY <3>1, <3>5, <3>6 DEF Ideal!IdealNext, Ideal!Decide
  <2>3. CASE MarkSeen
    <3>1. /\ call.pc = "sent" /\ call.id \in OrderIds /\ call.id \notin seen
          /\ seen' = seen \cup {call.id} /\ deals' = deals
      BY <2>1, <2>3, CallTypes DEF MarkSeen, broker, TypeInv, TypeOK, LifeInv, InFlightUnseen
    <3>2. deals[call.id] = 0
      BY <2>1, <3>1 DEF status
    <3>3. status[call.id] = "open"
      BY <3>1, <3>2 DEF status
    <3>4. status' = [status EXCEPT ![call.id] = "closed"]
      BY <2>1, <3>1, <3>2 DEF status
    <3> QED BY <3>1, <3>3, <3>4 DEF Ideal!IdealNext, Ideal!Decide
  <2>4. ~ Restart
    BY <2>1 DEF Restart
  <2>5. CASE seen' = seen /\ deals' = deals
    BY <2>5 DEF status
  <2> QED
    BY <2>2, <2>3, <2>4, <2>5, NextCases
    DEF Begin, Skip, Route, RecordOpen, Tick, SetQuote, executor, broker, vars
<1> QED
  BY <1>1, <1>2, LifeCorrect, PTL DEF Spec, DecidedOnce, Ideal!IdealSpec

-----------------------------------------------------------------------------
(* Only a send puts an id in _seen. *)
SentBeforeSeen ==
  /\ seen \subseteq orders
  /\ call.pc = "sent" => call.id \in orders

(* A guard skip, an exception, a crash or a restart never consumes an id. *)
THEOREM IdsConsumedBySends == Spec => []OnlySendsConsume
<1>1. Init => SentBeforeSeen
  BY DEF Init, SentBeforeSeen, NoCall
<1>2. TypeInv /\ SentBeforeSeen /\ [Next]_vars => SentBeforeSeen'
  <2> SUFFICES ASSUME TypeInv, SentBeforeSeen, [Next]_vars PROVE SentBeforeSeen'
    OBVIOUS
  <2>1. CASE PlaceOrder
    <3>1. seen' = seen /\ orders \subseteq orders' /\ call.pc = "sending"
      BY <2>1, PlaceStep
    <3>2. call'.pc = "sent" => call'.id \in orders'
      <4>1. CASE AbandonedStep
        BY <4>1 DEF AbandonedStep, Abandon, NoCall
      <4>2. CASE AnsweredStep
        BY <3>1, <4>2, Answered DEF AnsweredStep
      <4> QED BY <2>1, <4>1, <4>2, PlaceStep
    <3> QED BY <3>1, <3>2 DEF SentBeforeSeen
  <2>2. CASE MarkSeen
    <3>1. call'.pc # "sent"
      BY <2>2, CallTypes DEF MarkSeen, NoCall, TypeInv, TypeOK, InFlight
    <3> QED BY <2>2, <3>1 DEF MarkSeen, SentBeforeSeen, broker
  <2>3. CASE orders' = orders /\ seen' \subseteq seen /\ (call' = call \/ call'.pc # "sent")
    BY <2>3 DEF SentBeforeSeen
  <2> QED
    BY <2>1, <2>2, <2>3, NextCases
    DEF Begin, Skip, Route, RecordOpen, Tick, SetQuote, Restart, executor, broker, vars, NoCall
<1>3. SentBeforeSeen => OnlySendsConsume
  BY DEF SentBeforeSeen, OnlySendsConsume
<1>4. Spec => []TypeInv
  BY TypeInit, TypeStep, PTL DEF Spec
<1> QED BY <1>1, <1>2, <1>3, <1>4, PTL DEF Spec

-----------------------------------------------------------------------------
(* A round that ended with a fill has a deal on the account, and so has    *)
(* every journal row.                                                      *)
FillIsDealt == call.pc \in {"sent", "filled"} /\ call.status \in Fills => deals[call.id] > 0
FilledIsFill == call.pc = "filled" => call.status \in Fills
JournalInv == FillIsDealt /\ FilledIsFill /\ JournalIsReal

(* The journal never names a trade the account does not have, whatever is  *)
(* sent, hidden, retried, lost by a failed write or cut off by a crash.    *)
THEOREM JournalNeverPhantom == Spec => []JournalIsReal
<1>1. Init => JournalInv
  BY DEF Init, JournalInv, FillIsDealt, FilledIsFill, JournalIsReal, NoCall
<1>2. TypeInv /\ JournalInv /\ [Next]_vars => JournalInv'
  <2> SUFFICES ASSUME TypeInv, JournalInv, [Next]_vars PROVE JournalInv'
    OBVIOUS
  <2>0. deals \in [OrderIds -> Nat] /\ journal \subseteq (OrderIds \X Int)
    BY DEF TypeInv, TypeOK
  <2> USE DEF JournalInv, FillIsDealt, FilledIsFill, JournalIsReal
  <2>1. CASE PlaceOrder
    <3>1. journal' = journal /\ call.id \in OrderIds /\ call.pc = "sending"
      BY <2>1, PlaceStep
    <3>2. \A id \in OrderIds : deals'[id] >= deals[id]
      BY <2>0, <2>1, <3>1, PlaceStep DEF AbandonedStep, AnsweredStep, Deal
    <3>3. JournalIsReal'
      <4> SUFFICES ASSUME NEW row \in journal PROVE deals'[row[1]] > 0
        BY <3>1
      <4>1. row[1] \in OrderIds /\ deals[row[1]] > 0
        BY <2>0
      <4>2. deals'[row[1]] >= deals[row[1]] /\ deals'[row[1]] \in Nat
        BY <2>1, <3>2, <4>1, TypeStep DEF TypeInv, TypeOK
      <4> QED BY <2>0, <4>1, <4>2
    <3>4. FillIsDealt' /\ FilledIsFill'
      <4>1. CASE AbandonedStep
        BY <4>1 DEF AbandonedStep, Abandon, NoCall
      <4>2. CASE AnsweredStep
        <5>1. PICK st \in Answers, r \in BOOLEAN, g \in Int :
                /\ Answer(st, r, g)
                /\ st \notin Fills \/ \E v \in Int : Deal(call.id, v)
          BY <4>2 DEF AnsweredStep
        <5>2. call'.id = call.id /\ call'.status = st /\ call'.pc \in {"sending", "sent"}
          BY <3>1, <5>1, Answered
        <5>3. st \in Fills => deals'[call.id] > 0
          BY <2>0, <3>1, <5>1 DEF Deal
        <5> QED BY <5>2, <5>3
      <4> QED BY <2>1, <4>1, <4>2, PlaceStep
    <3> QED BY <3>3, <3>4
  <2>2. CASE MarkSeen
    <3>1. call \in InFlight
      BY <2>2, CallTypes DEF MarkSeen, TypeInv, TypeOK
    <3>2. CASE call.status \in Fills
      BY <2>2, <3>1, <3>2 DEF MarkSeen, InFlight, broker
    <3>3. CASE call.status \notin Fills
      BY <2>2, <3>3 DEF MarkSeen, NoCall, broker
    <3> QED BY <3>2, <3>3
  <2>3. ASSUME NEW written \in BOOLEAN, RecordOpen(written) PROVE JournalInv'
    <3>1. deals[call.id] > 0
      BY <2>3 DEF RecordOpen
    <3> QED BY <2>3, <3>1 DEF RecordOpen, Journalled, NoCall, broker
  <2>4. ASSUME NEW leg \in Legs, NEW ok \in BOOLEAN, Route(leg, ok) PROVE JournalInv'
    BY <2>4 DEF Route, broker
  <2>5. CASE journal' = journal /\ deals' = deals /\ (call' = call \/ call' = NoCall)
    BY <2>5 DEF NoCall
  <2> QED
    BY <2>1, <2>2, <2>3, <2>4, <2>5, NextCases
    DEF Begin, Skip, Tick, SetQuote, Restart, executor, broker, vars
<1>3. JournalInv => JournalIsReal
  BY DEF JournalInv
<1>4. Spec => []TypeInv
  BY TypeInit, TypeStep, PTL DEF Spec
<1> QED BY <1>1, <1>2, <1>3, <1>4, PTL DEF Spec

-----------------------------------------------------------------------------
(* With PaperBroker, whose answer is a requote exactly when it requoted, a *)
(* requote is retried until it is answered or the attempts are spent, and  *)
(* nothing else is.  (MT5Broker never answers with a requote.)             *)
THEOREM PaperRequotesRetried ==
  ASSUME ~ Live
  PROVE  Spec => []RequotesRetried
<1>1. Init => RequotesRetried
  BY DEF Init, RequotesRetried, NoCall
<1>2. TypeInv /\ RequotesRetried /\ [Next]_vars => RequotesRetried'
  <2> SUFFICES ASSUME TypeInv, RequotesRetried, [Next]_vars PROVE RequotesRetried'
    OBVIOUS
  <2>1. CASE PlaceOrder
    <3>1. CASE AbandonedStep
      BY <3>1 DEF AbandonedStep, Abandon, NoCall, RequotesRetried
    <3>2. CASE AnsweredStep
      <4>1. PICK st \in Answers, r \in BOOLEAN, g \in Int :
              Answer(st, r, g) /\ (r <=> st = "REQUOTE")
        BY <3>2 DEF AnsweredStep
      <4> QED BY <2>1, <4>1, Answered, PlaceStep DEF RequotesRetried
    <3> QED BY <2>1, <3>1, <3>2, PlaceStep
  <2>2. CASE MarkSeen
    BY <2>2, CallTypes DEF MarkSeen, NoCall, RequotesRetried, TypeInv, TypeOK, InFlight
  <2>3. CASE \E leg \in Legs, ok \in BOOLEAN : Route(leg, ok)
    BY <2>3 DEF Route, RequotesRetried
  <2>4. CASE call' = call \/ call' = NoCall
    BY <2>4 DEF NoCall, RequotesRetried
  <2> QED
    BY <2>1, <2>2, <2>3, <2>4, NextCases
    DEF Begin, Skip, RecordOpen, Tick, SetQuote, Restart, executor, vars
<1>3. Spec => []TypeInv
  BY TypeInit, TypeStep, PTL DEF Spec
<1> QED BY <1>1, <1>2, <1>3, PTL DEF Spec

-----------------------------------------------------------------------------
(* When every caller passes bar_ts, ids are minutes at which a bar opens.  *)
Aligned(minute) == minute = BarOf(minute)
AlignedIds ==
  /\ Aligned(key)
  /\ call.pc # "none" => Aligned(call.id.key)
  /\ \A id \in OrderIds : deals[id] > 0 => Aligned(id.key)

LEMMA BarsAligned == \A m \in Minutes : Aligned(BarOf(m))
<1> SUFFICES ASSUME NEW m \in Minutes PROVE BarOf(m) % BarLen = 0
  BY ExecutionAssumption DEF Aligned, BarOf, Minutes
<1>1. m \in Int /\ BarLen \in Nat \ {0}
  BY ExecutionAssumption DEF Minutes
<1> QED BY <1>1, SMTT(30) DEF BarOf

LEMMA AlignedStep == BarTs \subseteq {TRUE} /\ TypeInv /\ AlignedIds /\ [Next]_vars => AlignedIds'
<1> SUFFICES ASSUME BarTs \subseteq {TRUE}, TypeInv, AlignedIds, [Next]_vars PROVE AlignedIds'
  OBVIOUS
<1>1. ASSUME NEW S \in SUBSET Symbols, NEW size \in [S -> Sizes], Begin(S, size) PROVE AlignedIds'
  <2>1. PICK m \in 0 .. now : key' = BarOf(m)
    BY <1>1 DEF Begin
  <2>2. m \in Minutes
    BY <2>1, ExecutionAssumption DEF Minutes, TypeInv, TypeOK
  <2> QED BY <1>1, <2>1, <2>2, BarsAligned DEF Begin, AlignedIds, broker
<1>2. ASSUME NEW leg \in Legs, NEW ok \in BOOLEAN, Route(leg, ok) PROVE AlignedIds'
  BY <1>2 DEF Route, OrderId, AlignedIds, broker
<1>3. CASE PlaceOrder
  <2>1. call.id \in OrderIds /\ call.pc = "sending" /\ key' = key
    BY <1>3, PlaceStep
  <2>2. CASE AbandonedStep
    BY <2>1, <2>2 DEF AbandonedStep, Abandon, NoCall, AlignedIds
  <2>3. CASE AnsweredStep
    <3>1. call'.id = call.id
      BY <2>1, <2>3, Answered DEF AnsweredStep
    <3>2. \A id \in OrderIds : id # call.id => deals'[id] = deals[id]
      BY <2>3 DEF AnsweredStep, Deal, TypeInv, TypeOK
    <3> QED BY <2>1, <3>1, <3>2 DEF AlignedIds
  <2> QED BY <1>3, <2>2, <2>3, PlaceStep
<1>4. CASE key' = key /\ deals' = deals /\ (call' = call \/ call' = NoCall)
  BY <1>4 DEF AlignedIds, NoCall
<1>5. ASSUME key' = key, deals' = deals, call.pc # "none", call' = [call EXCEPT !.pc = "filled"]
      PROVE  AlignedIds'
  <2>1. call \in InFlight
    BY <1>5, CallTypes DEF TypeInv, TypeOK
  <2> QED BY <1>5, <2>1 DEF AlignedIds, InFlight
<1> QED
  BY <1>1, <1>2, <1>3, <1>4, <1>5, NextCases
  DEF Skip, MarkSeen, RecordOpen, Tick, SetQuote, Restart, executor, broker, vars

(* "One order per (symbol, bar), so reprocessing a bar never double-fires" *)
(* (executor.py:7-8) is true of one life of the process in which every     *)
(* caller passes bar_ts, whatever the broker answers.                      *)
THEOREM OneFillWithBarTs ==
  ASSUME MaxRestarts = 0, BarTs \subseteq {TRUE}
  PROVE  Spec => []OneFillPerBar
<1>1. Init => AlignedIds
  BY ExecutionAssumption, SMTT(30) DEF Init, AlignedIds, Aligned, BarOf, NoCall
<1>2. TypeInv /\ AlignedIds /\ [Next]_vars => AlignedIds'
  BY AlignedStep
<1>3. TypeInv /\ AlignedIds /\ OneDealPerLife => OneFillPerBar
  <2> SUFFICES ASSUME TypeInv, AlignedIds, OneDealPerLife,
                      NEW id \in OrderIds, NEW other \in OrderIds,
                      id.sym = other.sym, BarOf(id.key) = BarOf(other.key),
                      deals[id] > 0, deals[other] > 0
               PROVE  id = other /\ deals[id] = 1
    BY DEF OneFillPerBar
  <2>1. id.key = other.key
    BY DEF AlignedIds, Aligned
  <2>2. restarts = 0 /\ deals[id] \in Nat /\ deals[id] <= restarts + 1
    BY DEF TypeInv, TypeOK, OneDealPerLife
  <2> QED BY <2>1, <2>2 DEF OrderIds
<1>4. Spec => []TypeInv
  BY TypeInit, TypeStep, PTL DEF Spec
<1> QED BY <1>1, <1>2, <1>3, <1>4, DealtOncePerLife, PTL DEF Spec

-----------------------------------------------------------------------------
(* The books of a paper account: a row names a seen id that is no longer   *)
(* in flight and holds its volume; a volume not yet in the journal belongs *)
(* to the call in flight.                                                  *)
RowsSettled ==
  \A row \in journal : /\ row[1] \in seen /\ row[2] = lots[row[1]]
                       /\ call.pc # "none" => call.id # row[1]
Pending(id) ==
  /\ call.pc \in {"sent", "filled"} /\ call.id = id /\ call.status \in Fills
VolumesKnown ==
  \A id \in OrderIds : lots[id] # 0 =>
    /\ id \in seen \/ (call.pc = "sent" /\ call.id = id)
    /\ <<id, lots[id]>> \in journal \/ Pending(id)
GotIsVolume == call.pc \in {"sent", "filled"} => call.got = lots[call.id]
FilledSeen == call.pc = "filled" => call.id \in seen
Books == RowsSettled /\ VolumesKnown /\ GotIsVolume /\ FilledSeen

(* The paper broker reports exactly the volume it dealt. *)
LEMMA PaperReports ==
  ASSUME TypeInv, PaperPlaceOrder
  PROVE  \/ Abandon /\ UNCHANGED lots
         \/ \E st \in Answers, r \in BOOLEAN, g \in Int :
              /\ Answer(st, r, g)
              /\ \/ st \notin Fills /\ g = 0 /\ UNCHANGED lots
                 \/ st \in Fills /\ lots' = [lots EXCEPT ![call.id] = @ + g]
<1>1. paper \in Papers /\ call.size \in Int
  BY CallTypes DEF TypeInv, TypeOK, PaperPlaceOrder
<1>2. ASSUME NEW st \in {"REQUOTE", "REJECTED"}, NEW r \in BOOLEAN, Answer(st, r, 0),
             UNCHANGED lots
      PROVE  \E s \in Answers, q \in BOOLEAN, g \in Int :
               Answer(s, q, g) /\ s \notin Fills /\ g = 0 /\ UNCHANGED lots
  <2>1. st \in Answers /\ st \notin Fills
    BY DEF Answers, Fills
  <2>2. Answer(st, r, 0) /\ st \notin Fills /\ UNCHANGED lots
    BY <1>2, <2>1
  <2> QED BY <2>1, <2>2
<1> DEFINE got == (call.size * paper.halves) \div 2
<1>3. ASSUME NEW st \in Fills, Answer(st, FALSE, got), Deal(call.id, got)
      PROVE  \E s \in Answers, q \in BOOLEAN, g \in Int :
               Answer(s, q, g) /\ s \in Fills /\ lots' = [lots EXCEPT ![call.id] = @ + g]
  <2>1. got \in Int
    <3>1. call.size * paper.halves \in Int
      BY <1>1 DEF Papers
    <3> QED BY <3>1
  <2> HIDE DEF got
  <2>2. st \in Answers /\ FALSE \in BOOLEAN
    BY DEF Answers, Fills
  <2>3. Answer(st, FALSE, got) /\ st \in Fills /\ lots' = [lots EXCEPT ![call.id] = @ + got]
    BY <1>3 DEF Deal
  <2> QED BY <2>1, <2>2, <2>3
<1> HIDE DEF got
<1>4. CASE Answer("REQUOTE", TRUE, 0) /\ UNCHANGED <<todo, deals, lots>>
  BY <1>2, <1>4
<1>5. CASE Answer("REJECTED", FALSE, 0) /\ UNCHANGED <<todo, paper, deals, lots>>
  BY <1>2, <1>5
<1>6. CASE /\ Answer(IF paper.halves = 2 THEN "FILLED" ELSE "PARTIAL", FALSE, got)
           /\ Deal(call.id, got)
  <2>1. PICK st \in Fills : Answer(st, FALSE, got)
    BY <1>6 DEF Fills
  <2> QED BY <1>3, <1>6, <2>1
<1> QED BY <1>4, <1>5, <1>6 DEF PaperPlaceOrder, got

LEMMA BooksStep ==
  ASSUME ~ Live, ~ JournalMayFail
  PROVE  LifeInv /\ Books /\ [Next]_vars => Books'
<1> SUFFICES ASSUME LifeInv, Books, [Next]_vars PROVE Books'
  OBVIOUS
<1>0. /\ TypeInv /\ lots \in [OrderIds -> Int] /\ journal \subseteq (OrderIds \X Int)
      /\ call \in InFlight \cup {NoCall} /\ NoCall.pc = "none"
  BY DEF LifeInv, TypeInv, TypeOK, NoCall
<1>b. RowsSettled /\ VolumesKnown /\ GotIsVolume /\ FilledSeen
  BY DEF Books
<1> USE DEF RowsSettled, VolumesKnown, GotIsVolume, FilledSeen, Pending
<1>1. CASE /\ seen' = seen /\ lots' = lots /\ journal' = journal
           /\ call.pc \in {"none", "sending"} /\ call' = NoCall
  BY <1>0, <1>b, <1>1 DEF Books
<1>2. ASSUME NEW leg \in Legs, NEW ok \in BOOLEAN, Route(leg, ok) PROVE Books'
  <2>1. /\ call.pc = "none" /\ call'.pc = "sending" /\ call'.id \notin seen
        /\ UNCHANGED <<seen, lots, journal>>
    BY <1>0, <1>2 DEF Route, Duplicate, broker
  <2> QED BY <1>0, <1>b, <2>1 DEF Books
<1>3. CASE PlaceOrder
  <2>1. /\ PaperPlaceOrder /\ call.pc = "sending" /\ call.id \in OrderIds
        /\ UNCHANGED <<seen, journal>>
    BY <1>0, <1>3, PlaceStep DEF PlaceOrder, LivePlaceOrder
  <2>2. call.id \notin seen /\ lots[call.id] = 0
    BY <1>b, <2>1 DEF LifeInv, InFlightUnseen
  <2>3. CASE Abandon /\ UNCHANGED lots
    BY <1>1, <2>1, <2>3 DEF Abandon
  <2>4. ASSUME NEW st \in Answers, NEW r \in BOOLEAN, NEW g \in Int, Answer(st, r, g),
               \/ st \notin Fills /\ g = 0 /\ UNCHANGED lots
               \/ st \in Fills /\ lots' = [lots EXCEPT ![call.id] = @ + g]
        PROVE  Books'
    <3>1. /\ call'.id = call.id /\ call'.status = st
          /\ call'.pc \in {"sending", "sent"} /\ (call'.pc = "sending" => st = "REQUOTE")
      BY <1>0, <2>1, <2>4, Answered
    <3>2. call'.got = g
      BY <1>0, <2>1, <2>4 DEF Answer, InFlight
    <3>3. /\ lots'[call.id] = g /\ (g # 0 => st \in Fills)
          /\ \A id \in OrderIds \ {call.id} : lots'[id] = lots[id]
      BY <1>0, <2>1, <2>2, <2>4
    <3>4. st \in Fills => call'.pc = "sent"
      BY <3>1 DEF Fills
    <3>5. RowsSettled'
      BY <1>0, <1>b, <2>1, <2>2, <3>1, <3>3
    <3>6. VolumesKnown'
      BY <1>0, <1>b, <2>1, <3>1, <3>3, <3>4
    <3> QED BY <3>1, <3>2, <3>3, <3>5, <3>6 DEF Books
  <2> QED BY <1>0, <2>1, <2>3, <2>4, PaperReports
<1>4. CASE MarkSeen
  <2>1. /\ call.pc = "sent" /\ call \in InFlight /\ call.id \in OrderIds /\ call.id \notin seen
        /\ seen' = seen \cup {call.id} /\ UNCHANGED <<lots, journal>>
    BY <1>0, <1>4, CallTypes DEF MarkSeen, broker, LifeInv, InFlightUnseen
  <2>2. CASE call.status \in Fills /\ call' = [call EXCEPT !.pc = "filled"]
    <3>1. /\ call'.pc = "filled" /\ call'.id = call.id /\ call'.status = call.status
          /\ call'.got = call.got
      BY <2>1, <2>2 DEF InFlight
    <3> QED BY <1>0, <1>b, <2>1, <2>2, <3>1 DEF Books
  <2>3. CASE call.status \notin Fills /\ call' = NoCall
    <3>1. lots[call.id] = 0
      BY <1>b, <2>1, <2>3
    <3> QED BY <1>0, <1>b, <2>1, <2>3, <3>1 DEF Books
  <2> QED BY <1>4, <2>2, <2>3 DEF MarkSeen
<1>5. ASSUME NEW written \in BOOLEAN, RecordOpen(written) PROVE Books'
  <2>1. /\ call.pc = "filled" /\ call.id \in OrderIds /\ call.id \in seen
        /\ call' = NoCall /\ UNCHANGED <<seen, lots>> /\ journal' = Journalled(call.id)
    BY <1>0, <1>5, <1>b, CallTypes DEF RecordOpen, broker
  <2>2. journal' = journal \cup {<<call.id, lots[call.id]>>}
    BY <1>b, <2>1 DEF Journalled
  <2> QED BY <1>0, <1>b, <2>1, <2>2 DEF Books
<1>6. CASE UNCHANGED <<seen, lots, journal, call>>
  BY <1>b, <1>6 DEF Books
<1> QED
  BY <1>2, <1>3, <1>4, <1>5, <1>6, NextCases
  DEF Begin, Skip, Tick, SetQuote, Restart, executor, broker, vars

(* Between batches the journal and a paper account agree, trade by trade   *)
(* and lot by lot, however the batches, requotes, partial fills and missing*)
(* quotes came.                                                            *)
THEOREM BooksAgree ==
  ASSUME ~ Live, ~ JournalMayFail
  PROVE  Spec => []JournalMatchesAccount
<1>1. Init => Books
  BY DEF Init, Books, RowsSettled, VolumesKnown, GotIsVolume, FilledSeen, NoCall
<1>2. LifeInv /\ Books => JournalMatchesAccount
  <2> SUFFICES ASSUME LifeInv, Books, Idle
               PROVE  {row \in journal : row[2] # 0} =
                        {<<id, lots[id]>> : id \in {i \in OrderIds : lots[i] # 0}}
    BY DEF JournalMatchesAccount
  <2>1. call.pc = "none" /\ journal \subseteq (OrderIds \X Int)
    BY DEF Idle, NoCall, LifeInv, TypeInv, TypeOK
  <2>2. ASSUME NEW row \in journal
        PROVE  row[1] \in OrderIds /\ row = <<row[1], lots[row[1]]>> /\ row[2] = lots[row[1]]
    BY <2>1 DEF Books, RowsSettled
  <2>3. ASSUME NEW id \in OrderIds, lots[id] # 0
        PROVE  <<id, lots[id]>> \in journal
    BY <2>1, <2>3 DEF Books, VolumesKnown, Pending
  <2> QED BY <2>2, <2>3
<1> QED BY <1>1, <1>2, BooksStep, LifeCorrect, PTL DEF Spec
=============================================================================
