-------------------------- MODULE MarketDeskProofs --------------------------
(***************************************************************************)
(* What is proved of the venue, the chart, the history, the feeds, the     *)
(* income book and the archive: a market order is filled at most once and  *)
(* on the right side, the switch to hedge mode is true when it says so,    *)
(* the chart has no hole, no row of the history is missing without a name, *)
(* no closed candle is lost, no stream stays silent, the profit calendar   *)
(* is what the account gained, and the archive's files are in order.       *)
(***************************************************************************)
EXTENDS MarketDesk, SequenceTheorems, FiniteSetTheorems, WellFoundedInduction, TLAPS

-----------------------------------------------------------------------------
(* One order, one fill.                                                     *)

\* A fill closes the leg the order is for, or opens it; an opening may also reduce the
\* other leg of a one-way account.
RightSide(o, x) == IF Act[o] = "close" THEN x = [leg |-> Leg[o], by |-> -1]
                                       ELSE x.leg = Leg[o] \/ x.by = -1

FillsInv ==
  /\ DOMAIN executed = Orders
  /\ \E Moved : executed \in [Orders -> Seq(Moved)]
  /\ NeverWrongSide
  /\ KeepsIds => OrderOnce

LEMMA SidesOfLegs ==
  /\ Other("LONG") = "SHORT" /\ Other("SHORT") = "LONG"
  /\ \A o \in Orders : Act[o] \in {"open", "close"} /\ Leg[o] \in Legs
<1>1. \A l \in Legs : \E x \in Legs : x # l
  BY DEF Legs
<1>2. \A l \in Legs : Other(l) \in Legs /\ Other(l) # l
  BY <1>1 DEF Other
<1> QED
  BY <1>2, VenueAssumption DEF Legs

\* Whatever mode the adapter believed in when it chose the parameters, what the exchange
\* does with them is on the right side.
LEMMA EffectIsRight ==
  ASSUME NEW o \in Orders, NEW e, NEW mode, NEW x \in Effect(e, Payload(o, mode))
  PROVE  RightSide(o, x)
<1> DEFINE p == Payload(o, mode)
           buys == IF p.side = "BUY" THEN "LONG" ELSE "SHORT"
           against == Other(buys)
<1>1. /\ p.side = Side(o) /\ p.positionSide = IF mode = "hedge" THEN {Leg[o]} ELSE {}
      /\ p.reduceOnly = (mode # "hedge" /\ Act[o] = "close")
  BY DEF Payload
<1>2. Act[o] \in {"open", "close"} /\ Leg[o] \in {"LONG", "SHORT"}
  BY SidesOfLegs DEF Legs
<1>3. IF Act[o] = "open" THEN buys = Leg[o] ELSE buys # Leg[o] /\ against = Leg[o]
  BY <1>1, <1>2, SidesOfLegs DEF Side
<1>4. /\ Fits(e, p)
      /\ x \in IF dual[e]
                 THEN {[leg |-> l, by |-> IF l = buys THEN 1 ELSE -1] : l \in p.positionSide}
                 ELSE IF legs[e][against] > 0 THEN {[leg |-> against, by |-> -1]}
                 ELSE IF p.reduceOnly THEN {} ELSE {[leg |-> buys, by |-> 1]}
  BY DEF Effect
<1> HIDE DEF p, buys, against
<1>5. CASE dual[e]
  <2>1. mode = "hedge"
    BY <1>1, <1>4, <1>5 DEF Fits
  <2>2. x = [leg |-> Leg[o], by |-> IF Leg[o] = buys THEN 1 ELSE -1]
    BY <1>1, <1>4, <1>5, <2>1
  <2> QED
    BY <1>2, <1>3, <2>2 DEF RightSide
<1>6. CASE ~dual[e]
  <2>1. mode # "hedge"
    BY <1>1, <1>4, <1>6 DEF Fits
  <2>2. CASE legs[e][against] > 0
    <3>1. x = [leg |-> against, by |-> -1]
      BY <1>4, <1>6, <2>2
    <3> QED
      BY <1>2, <1>3, <3>1 DEF RightSide
  <2>3. CASE ~(legs[e][against] > 0)
    <3>1. ~p.reduceOnly /\ x = [leg |-> buys, by |-> 1]
      BY <1>4, <1>6, <2>3
    <3>2. Act[o] = "open"
      BY <1>1, <1>2, <2>1, <3>1
    <3> QED
      BY <1>3, <3>1, <3>2 DEF RightSide
  <2> QED
    BY <2>2, <2>3
<1> QED
  BY <1>5, <1>6

\* An exchange that keeps the ids does nothing with an order it has filled.
LEMMA EffectIsOnce ==
  ASSUME KeepsIds, NEW o \in Orders, NEW e, NEW mode, executed[o] # <<>>
  PROVE  Effect(e, Payload(o, mode)) = {}
<1>1. Known(Payload(o, mode))
  BY DEF Known, Payload
<1> QED
  BY <1>1 DEF Effect

LEMMA Appended ==
  ASSUME NEW S, NEW s \in Seq(S), NEW x \in S
  PROVE  /\ Append(s, x) \in Seq(S)
         /\ DOMAIN Append(s, x) = 1..(Len(s) + 1) /\ DOMAIN s = 1..Len(s) /\ Len(s) \in Nat
         /\ Append(s, x)[Len(s) + 1] = x /\ \A k \in DOMAIN s : Append(s, x)[k] = s[k]
OBVIOUS

LEMMA ExecuteOK ==
  ASSUME FillsInv, NEW o \in Orders, NEW e, NEW mode, Execute(o, e, Payload(o, mode))
  PROVE  FillsInv'
<1>1. CASE UNCHANGED executed
  BY <1>1 DEF FillsInv, NeverWrongSide, OrderOnce
<1>2. CASE executed' # executed
  <2>1. PICK x \in Effect(e, Payload(o, mode)) : executed' = [executed EXCEPT ![o] = Append(@, x)]
    BY <1>2 DEF Execute
  <2>2. PICK M : executed \in [Orders -> Seq(M)]
    BY DEF FillsInv
  <2> DEFINE N == M \cup {x}
  <2>3. \A q \in Orders : executed[q] \in Seq(M)
    BY <2>2
  <2>4. \A q \in Orders : executed[q] \in Seq(N)
    BY <2>3
  <2>5. Append(executed[o], x) \in Seq(N)
    BY <2>4
  <2>6. executed' \in [Orders -> Seq(N)] /\ DOMAIN executed' = Orders
    BY <2>1, <2>2, <2>4, <2>5
  <2>7. \A q \in Orders : executed'[q] = IF q = o THEN Append(executed[o], x) ELSE executed[q]
    BY <2>1, <2>2
  <2>8. NeverWrongSide'
    <3> SUFFICES ASSUME NEW q \in Orders, NEW i \in DOMAIN executed'[q]
                 PROVE  RightSide(q, executed'[q][i])
      BY DEF NeverWrongSide, RightSide
    <3>1. CASE q # o
      BY <2>7, <3>1 DEF FillsInv, NeverWrongSide, RightSide
    <3>2. CASE q = o
      <4>0. executed[o] \in Seq(N) /\ x \in N /\ executed'[o] = Append(executed[o], x)
        BY <2>4, <2>7
      <4> HIDE DEF N
      <4>1. /\ DOMAIN executed'[o] = 1..(Len(executed[o]) + 1) /\ Len(executed[o]) \in Nat
            /\ DOMAIN executed[o] = 1..Len(executed[o])
            /\ executed'[o][Len(executed[o]) + 1] = x
            /\ \A k \in DOMAIN executed[o] : executed'[o][k] = executed[o][k]
        BY <4>0, Appended
      <4>2. CASE i = Len(executed[o]) + 1
        <5>1. executed'[q][i] = x
          BY <3>2, <4>1, <4>2
        <5>2. RightSide(o, x)
          BY <2>1, EffectIsRight
        <5> QED
          BY <3>2, <5>1, <5>2
      <4>3. CASE i # Len(executed[o]) + 1
        <5>1. i \in DOMAIN executed[o] /\ executed'[q][i] = executed[o][i]
          BY <3>2, <4>1, <4>3
        <5> QED
          BY <3>2, <5>1 DEF FillsInv, NeverWrongSide, RightSide
      <4> QED
        BY <4>2, <4>3
    <3> QED
      BY <3>1, <3>2
  <2>9. KeepsIds => OrderOnce'
    <3> SUFFICES ASSUME KeepsIds PROVE OrderOnce'
      OBVIOUS
    <3>1. executed[o] = <<>>
      BY <2>1, EffectIsOnce
    <3>2. Len(executed'[o]) = 1 /\ Len(executed'[o]) \in Nat
      BY <2>7, <3>1
    <3>3. \A q \in Orders : Len(executed[q]) <= 1
      BY DEF FillsInv, OrderOnce
    <3>4. \A q \in Orders : q # o => executed'[q] = executed[q]
      BY <2>7
    <3> SUFFICES ASSUME NEW q \in Orders PROVE Len(executed'[q]) <= 1
      BY DEF OrderOnce
    <3>5. CASE q = o
      <4>1. \A n \in Nat : n = 1 => n <= 1
        OBVIOUS
      <4> QED
        BY <3>2, <3>5, <4>1
    <3>6. CASE q # o
      BY <3>3, <3>4, <3>6
    <3> QED
      BY <3>5, <3>6
  <2> QED
    BY <2>6, <2>8, <2>9 DEF FillsInv
<1> QED
  BY <1>1, <1>2

LEMMA FillsStep == FillsInv /\ [Next]_vars => FillsInv'
<1> SUFFICES ASSUME FillsInv, [Next]_vars PROVE FillsInv'
  OBVIOUS
<1>1. CASE \E o \in Orders : SendOrder(o)
  <2>1. PICK o \in Orders : SendOrder(o)
    BY <1>1
  <2>2. Execute(o, EnvOf(order[o]), Payload(o, order[o].mode)) \/ UNCHANGED executed
    BY <2>1 DEF SendOrder
  <2>3. CASE UNCHANGED executed
    BY <2>3 DEF FillsInv, NeverWrongSide, OrderOnce
  <2> QED
    BY <2>2, <2>3, ExecuteOK
<1>2. CASE UNCHANGED executed
  BY <1>2 DEF FillsInv, NeverWrongSide, OrderOnce
<1>3. VenueNext => (\E o \in Orders : SendOrder(o)) \/ UNCHANGED executed
  BY DEF VenueNext, PlaceOrder, OrderAdapter, OrderMode, EnsureHedgeMode, EnsureAdapter, AskMode,
         PostMode, SwitchByHand, venueVars
<1> QED
  BY <1>1, <1>2, <1>3 DEF Next, Trading, Keeping, vars, tradingVars, venueVars

LEMMA FillsInitially == Init => FillsInv
<1> SUFFICES ASSUME Init PROVE FillsInv
  OBVIOUS
<1>1. executed = [o \in Orders |-> <<>>]
  BY DEF Init, VenueInit
<1>2. executed \in [Orders -> Seq({})] /\ DOMAIN executed = Orders
  BY <1>1
<1>3. \A o \in Orders : DOMAIN executed[o] = {} /\ Len(executed[o]) = 0
  BY <1>1
<1> QED
  BY <1>2, <1>3 DEF FillsInv, NeverWrongSide, OrderOnce

\* The requests of one order are executed at most once although a request whose answer is
\* lost is sent again, if the exchange keeps the ids it has seen.
THEOREM OrderFilledOnce == KeepsIds => (Spec => []OrderOnce)
<1> SUFFICES ASSUME KeepsIds PROVE Spec => []OrderOnce
  OBVIOUS
<1>1. FillsInv => OrderOnce
  BY DEF FillsInv
<1> QED
  BY <1>1, FillsInitially, FillsStep, PTL DEF Spec

-----------------------------------------------------------------------------
(* The switch to hedge mode.  The adapter remembers that an account is in    *)
(* hedge mode; the account leaves it only by hand.                           *)

HedgedBy(d, s, e) == d[e] \/ s
Hedged(e) == HedgedBy(dual, switched, e)
HedgedThen(e) == HedgedBy(dual', switched', e)

CallOK(c) ==
  /\ DOMAIN c = {"pc", "account", "adapter", "mode", "tries", "round"}
  /\ c.account \in Accounts

AdaptersOK ==
  /\ adapters \in Seq([account : Accounts, mode : Modes])
  /\ cache # NoAdapter => cache \in DOMAIN adapters
  /\ DOMAIN dual = Envs
  /\ \A a \in DOMAIN adapters : adapters[a].mode = "hedge" => Hedged(adapters[a].account.env)

EnsureOK ==
  /\ CallOK(ensure)
  /\ ensure.pc \in {"ask", "post", "done"} => ensure.adapter \in DOMAIN adapters
  /\ ensure.pc = "done" => Hedged(EnvOf(ensure))

OrdersOK == DOMAIN order = Orders /\ \A o \in Orders : CallOK(order[o])

\* In the other desks the switch is at rest; the market service may start again there and
\* lose its adapters.
HedgeInv ==
  IF desk = "venue" THEN saved \in Accounts /\ AdaptersOK /\ EnsureOK /\ OrdersOK
                    ELSE ensure.pc = "idle"

\* What every step of the venue keeps: adapters stay, and a mode that was left was left by hand.
Stays ==
  /\ DOMAIN adapters \subseteq DOMAIN adapters'
  /\ \A a \in DOMAIN adapters : adapters'[a].account = adapters[a].account
  /\ \A e \in Envs : Hedged(e) => HedgedThen(e)

LEMMA EnvsOf == \A c \in Accounts : c.env \in Envs
BY DEF Envs

LEMMA ElementsOf ==
  ASSUME NEW S, NEW s \in Seq(S)
  PROVE  DOMAIN s = 1..Len(s) /\ Len(s) \in Nat /\ \A i \in DOMAIN s : s[i] \in S
OBVIOUS

LEMMA AdapterFields ==
  ASSUME adapters \in Seq([account : Accounts, mode : Modes])
  PROVE  /\ DOMAIN adapters = 1..Len(adapters) /\ Len(adapters) \in Nat
         /\ \A a \in DOMAIN adapters : /\ adapters[a] \in [account : Accounts, mode : Modes]
                                       /\ adapters[a].account \in Accounts
                                       /\ adapters[a].account.env \in Envs
<1> DEFINE Rows == [account : Accounts, mode : Modes]
<1>0. adapters \in Seq(Rows)
  OBVIOUS
<1> HIDE DEF Rows
<1>1. DOMAIN adapters = 1..Len(adapters) /\ Len(adapters) \in Nat /\ \A a \in DOMAIN adapters : adapters[a] \in Rows
  BY <1>0, ElementsOf
<1>2. \A a \in DOMAIN adapters : adapters[a] \in [account : Accounts, mode : Modes]
  BY <1>1 DEF Rows
<1>3. \A a \in DOMAIN adapters : adapters[a].account \in Accounts
  BY <1>2
<1> QED
  BY <1>1, <1>2, <1>3, EnvsOf

\* A new adapter remembers nothing.
LEMMA CreateOK ==
  ASSUME AdaptersOK, NEW account \in Accounts, Create(account), UNCHANGED <<dual, switched>>
  PROVE  /\ AdaptersOK' /\ Stays
         /\ Len(adapters) + 1 \in DOMAIN adapters'
<1> DEFINE new == [account |-> account, mode |-> "unknown"]
<1>1. new \in [account : Accounts, mode : Modes] /\ new.mode = "unknown"
  BY DEF Modes
<1>2. adapters' = Append(adapters, new) /\ cache' = Len(adapters) + 1
  BY DEF Create
<1> HIDE DEF new
<1>3. adapters \in Seq([account : Accounts, mode : Modes])
  BY DEF AdaptersOK
<1>4. /\ adapters' \in Seq([account : Accounts, mode : Modes])
      /\ DOMAIN adapters' = 1..(Len(adapters) + 1) /\ DOMAIN adapters = 1..Len(adapters) /\ Len(adapters) \in Nat
      /\ adapters'[Len(adapters) + 1] = new /\ \A a \in 1..Len(adapters) : adapters'[a] = adapters[a]
  BY <1>1, <1>2, <1>3
<1>5. \A e : HedgedThen(e) = Hedged(e)
  BY DEF Hedged, HedgedThen
<1>6. \A a \in DOMAIN adapters' : adapters'[a].mode = "hedge" => a \in DOMAIN adapters /\ adapters'[a] = adapters[a]
  BY <1>1, <1>4
<1>7. AdaptersOK'
  BY <1>2, <1>4, <1>5, <1>6 DEF AdaptersOK, Hedged, HedgedThen
<1> QED
  BY <1>4, <1>5, <1>7 DEF Stays

\* What an adapter remembers of the account is so, or somebody switched it by hand.
LEMMA RememberOK ==
  ASSUME AdaptersOK, NEW a, NEW mode \in Modes, Remember(a, mode), UNCHANGED cache,
         DOMAIN dual' = Envs, \A e \in Envs : Hedged(e) => HedgedThen(e),
         a \in DOMAIN adapters /\ mode = "hedge" => HedgedThen(adapters[a].account.env)
  PROVE  AdaptersOK' /\ Stays
<1>1. adapters \in Seq([account : Accounts, mode : Modes])
  BY DEF AdaptersOK
<1>2. adapters' = [adapters EXCEPT ![a] = [adapters[a] EXCEPT !.mode = mode]]
  BY DEF Remember
<1>3. CASE a \notin DOMAIN adapters
  <2>1. adapters' = adapters
    BY <1>1, <1>2, <1>3
  <2> QED
    BY <1>1, <2>1, AdapterFields DEF AdaptersOK, Stays, Hedged, HedgedThen
<1>4. CASE a \in DOMAIN adapters
  <2> DEFINE new == [adapters[a] EXCEPT !.mode = mode]
  <2>1. /\ new \in [account : Accounts, mode : Modes] /\ new.account = adapters[a].account
        /\ new.mode = mode
    BY <1>1, <1>4, AdapterFields
  <2>2. adapters' = [adapters EXCEPT ![a] = new]
    BY <1>2
  <2> HIDE DEF new
  <2>3. /\ adapters' \in Seq([account : Accounts, mode : Modes]) /\ DOMAIN adapters' = DOMAIN adapters
        /\ adapters'[a] = new /\ \A b \in DOMAIN adapters : b # a => adapters'[b] = adapters[b]
    BY <1>1, <1>4, <2>1, <2>2
  <2>4. \A b \in DOMAIN adapters' : adapters'[b].mode = "hedge" => HedgedThen(adapters'[b].account.env)
    <3> SUFFICES ASSUME NEW b \in DOMAIN adapters', adapters'[b].mode = "hedge"
                 PROVE  HedgedThen(adapters'[b].account.env)
      OBVIOUS
    <3>1. CASE b = a
      <4>1. mode = "hedge" /\ adapters'[b].account.env = adapters[a].account.env
        BY <2>1, <2>3, <3>1
      <4> QED
        BY <1>4, <4>1
    <3>2. CASE b # a
      <4>1. /\ adapters'[b] = adapters[b] /\ Hedged(adapters[b].account.env)
            /\ adapters[b].account.env \in Envs
        BY <1>1, <2>3, <3>2, AdapterFields DEF AdaptersOK
      <4> QED
        BY <4>1
    <3> QED
      BY <3>1, <3>2
  <2>5. AdaptersOK'
    BY <2>3, <2>4 DEF AdaptersOK, Hedged, HedgedThen
  <2>6. \A b \in DOMAIN adapters : adapters'[b].account = adapters[b].account
    BY <2>1, <2>3
  <2> QED
    BY <2>3, <2>5, <2>6 DEF Stays
<1> QED
  BY <1>3, <1>4

\* However the adapter comes to a mode: remembered, asked for, or guessed.
LEMMA ReadModeOK ==
  ASSUME AdaptersOK, NEW a, NEW answered \in BOOLEAN, NEW mode \in Modes, ReadMode(a, answered, mode),
         UNCHANGED <<cache, dual, switched>>
  PROVE  /\ AdaptersOK' /\ Stays
         /\ a \in DOMAIN adapters /\ mode = "hedge" => Hedged(adapters[a].account.env)
<1>1. \A e : HedgedThen(e) = Hedged(e)
  BY DEF Hedged, HedgedThen
<1>2. CASE UNCHANGED adapters
  <2>1. AdaptersOK' /\ Stays
    BY <1>1, <1>2 DEF AdaptersOK, Stays, Hedged, HedgedThen
  <2>2. CASE mode = adapters[a].mode
    BY <2>1, <2>2 DEF AdaptersOK
  <2>3. CASE mode = ModeOf(adapters[a].account.env)
    BY <2>1, <2>3 DEF ModeOf, Hedged, HedgedBy
  <2>4. CASE mode = "one-way"
    BY <2>1, <2>4
  <2> QED
    BY <2>2, <2>3, <2>4 DEF ReadMode, ModeWithoutAnswer
<1>3. CASE Remember(a, mode) /\ mode = ModeOf(adapters[a].account.env)
  <2>1. mode = "hedge" => Hedged(adapters[a].account.env)
    BY <1>3 DEF ModeOf, Hedged, HedgedBy
  <2>2. DOMAIN dual' = Envs
    BY DEF AdaptersOK
  <2>3. a \in DOMAIN adapters /\ mode = "hedge" => HedgedThen(adapters[a].account.env)
    BY <1>1, <2>1
  <2>4. AdaptersOK' /\ Stays
    BY <1>1, <1>3, <2>2, <2>3, RememberOK
  <2> QED
    BY <2>1, <2>4
<1> QED
  BY <1>2, <1>3 DEF ReadMode

LEMMA EnsureFrame ==
  ASSUME AdaptersOK, EnsureOK, Stays, UNCHANGED ensure
  PROVE  EnsureOK'
<1>1. CASE ensure.pc = "done"
  <2>1. /\ ensure.adapter \in DOMAIN adapters /\ Hedged(EnvOf(ensure))
        /\ EnvOf(ensure) \in Envs /\ EnvOf(ensure)' = EnvOf(ensure)
    BY <1>1, AdapterFields DEF EnsureOK, AdaptersOK, Stays, EnvOf
  <2>2. HedgedThen(EnvOf(ensure))
    BY <2>1 DEF Stays
  <2>3. Hedged(EnvOf(ensure))'
    BY <2>1, <2>2 DEF Hedged, HedgedThen
  <2> QED
    BY <2>1, <2>3 DEF EnsureOK, Stays, CallOK
<1>2. CASE ensure.pc # "done"
  BY <1>2 DEF EnsureOK, Stays, CallOK
<1> QED
  BY <1>1, <1>2

\* Adapters that are only forgotten, while the accounts stay or enter hedge mode.
LEMMA AdaptersStay ==
  ASSUME AdaptersOK, UNCHANGED adapters, cache' \in {cache, NoAdapter}, DOMAIN dual' = Envs,
         \A e \in Envs : Hedged(e) => HedgedThen(e)
  PROVE  AdaptersOK' /\ Stays
<1>1. \A a \in DOMAIN adapters : adapters[a].account.env \in Envs
  BY AdapterFields DEF AdaptersOK
<1>2. \A a \in DOMAIN adapters : adapters[a].mode = "hedge" => HedgedThen(adapters[a].account.env)
  BY <1>1 DEF AdaptersOK
<1> QED
  BY <1>2 DEF AdaptersOK, Stays, Hedged, HedgedThen

\* What the helpers make of a call.
LEMMA CallsOK ==
  ASSUME NEW c, CallOK(c), saved \in Accounts, NEW next
  PROVE  /\ CallOK(Got(c, next)) /\ Got(c, next).pc = next /\ Got(c, next).adapter = cache
         /\ CallOK(Made(c, next)) /\ Made(c, next).pc = next /\ Made(c, next).adapter = Len(adapters) + 1
         /\ CallOK(Reading(c)) /\ Reading(c).pc = "row"
BY DEF CallOK, Got, Made, Reading

LEMMA OrderSet ==
  ASSUME OrdersOK, NEW o \in Orders, NEW c, CallOK(c), order' = [order EXCEPT ![o] = c]
  PROVE  OrdersOK'
BY DEF OrdersOK, CallOK

\* A step of an order: the switch does not move, and finds what it found.
LEMMA OrderStepOK ==
  ASSUME HedgeInv, desk = "venue", NEW o \in Orders,
         PlaceOrder(o) \/ OrderAdapter(o) \/ OrderMode(o) \/ SendOrder(o)
  PROVE  saved' \in Accounts /\ AdaptersOK' /\ EnsureOK' /\ OrdersOK'
<1>0. /\ saved \in Accounts /\ AdaptersOK /\ EnsureOK /\ OrdersOK /\ CallOK(order[o])
      /\ UNCHANGED <<saved, ensure, dual, switched>>
  BY DEF HedgeInv, OrdersOK, PlaceOrder, OrderAdapter, OrderMode, SendOrder, registryVars
<1>1. DOMAIN dual' = Envs /\ \A e : HedgedThen(e) = Hedged(e)
  BY <1>0 DEF AdaptersOK, Hedged, HedgedThen
<1>2. CASE PlaceOrder(o)
  <2>1. OrdersOK'
    <3>1. PICK c \in {Got(order[o], "mode"), Reading(order[o])} : order' = [order EXCEPT ![o] = c]
      BY <1>2 DEF PlaceOrder
    <3>2. CallOK(c)
      BY <1>0, <3>1, CallsOK
    <3> QED
      BY <1>0, <3>1, <3>2, OrderSet
  <2>2. AdaptersOK' /\ Stays
    BY <1>0, <1>1, <1>2, AdaptersStay DEF PlaceOrder, registryVars
  <2> QED
    BY <1>0, <2>1, <2>2, EnsureFrame
<1>3. CASE OrderAdapter(o)
  <2>1. order' = [order EXCEPT ![o] = Made(order[o], "mode")] /\ Create(order[o].account)
    BY <1>3 DEF OrderAdapter
  <2>2. CallOK(Made(order[o], "mode"))
    BY <1>0, CallsOK
  <2>3. OrdersOK'
    BY <1>0, <2>1, <2>2, OrderSet
  <2>4. AdaptersOK' /\ Stays
    BY <1>0, <2>1, CreateOK DEF CallOK
  <2> QED
    BY <1>0, <2>3, <2>4, EnsureFrame
<1>4. CASE OrderMode(o)
  <2>1. PICK answered \in BOOLEAN, mode \in Modes \ {"unknown"} :
          /\ ReadMode(order[o].adapter, answered, mode)
          /\ order' = [order EXCEPT ![o].pc = "send", ![o].mode = mode]
    BY <1>4 DEF OrderMode
  <2> DEFINE c == [order[o] EXCEPT !.pc = "send", !.mode = mode]
  <2>2. CallOK(c)
    BY <1>0 DEF CallOK
  <2>3. order' = [order EXCEPT ![o] = c]
    BY <1>0, <2>1 DEF OrdersOK, CallOK
  <2> HIDE DEF c
  <2>4. OrdersOK'
    BY <1>0, <2>2, <2>3, OrderSet
  <2>5. UNCHANGED <<cache, dual, switched>>
    BY <1>4 DEF OrderMode
  <2>6. AdaptersOK' /\ Stays
    BY <1>0, <2>1, <2>5, ReadModeOK
  <2> QED
    BY <1>0, <2>4, <2>6, EnsureFrame
<1>5. CASE SendOrder(o)
  <2>1. PICK c : CallOK(c) /\ order' = [order EXCEPT ![o] = c]
    <3>1. CASE order' = [order EXCEPT ![o] = Unanswered(@)]
      <4>1. CallOK(Unanswered(order[o]))
        BY <1>0 DEF CallOK, Unanswered
      <4> QED
        BY <3>1, <4>1
    <3>2. CASE \E pc : order' = [order EXCEPT ![o].pc = pc]
      <4>1. PICK pc : order' = [order EXCEPT ![o].pc = pc]
        BY <3>2
      <4>2. CallOK([order[o] EXCEPT !.pc = pc])
        BY <1>0 DEF CallOK
      <4> QED
        BY <4>1, <4>2
    <3> QED
      BY <1>5, <3>1, <3>2 DEF SendOrder
  <2>2. OrdersOK'
    BY <1>0, <2>1, OrderSet
  <2>3. UNCHANGED <<adapters, cache>>
    BY <1>5 DEF SendOrder
  <2>4. AdaptersOK' /\ Stays
    BY <1>0, <1>1, <2>3, AdaptersStay
  <2> QED
    BY <1>0, <2>2, <2>4, EnsureFrame
<1> QED
  BY <1>2, <1>3, <1>4, <1>5

\* A step of the switch: when it says done, the account is in hedge mode.
LEMMA EnsureStepOK ==
  ASSUME HedgeInv, desk = "venue", EnsureHedgeMode \/ EnsureAdapter \/ AskMode \/ PostMode
  PROVE  saved' \in Accounts /\ AdaptersOK' /\ EnsureOK' /\ OrdersOK'
<1>0. /\ saved \in Accounts /\ AdaptersOK /\ EnsureOK /\ OrdersOK /\ CallOK(ensure)
      /\ UNCHANGED <<saved, order, switched>>
  BY DEF HedgeInv, EnsureOK, EnsureHedgeMode, EnsureAdapter, AskMode, PostMode, registryVars
<1>1. OrdersOK' /\ saved' \in Accounts
  BY <1>0 DEF OrdersOK, CallOK
<1>2. CASE EnsureHedgeMode
  <2>1. AdaptersOK' /\ Stays
    BY <1>0, <1>2, AdaptersStay DEF EnsureHedgeMode, registryVars, AdaptersOK, Hedged, HedgedThen
  <2>2. CASE Hit /\ ensure' = Got(ensure, "ask")
    <3>1. CallOK(ensure') /\ ensure'.pc = "ask" /\ ensure'.adapter = cache
      BY <1>0, <2>2, CallsOK
    <3>2. ensure'.adapter \in DOMAIN adapters'
      BY <1>0, <1>2, <2>2, <3>1 DEF Hit, AdaptersOK, EnsureHedgeMode, registryVars
    <3> QED
      BY <1>1, <2>1, <3>1, <3>2 DEF EnsureOK, CallOK
  <2>3. CASE ensure' = Reading(ensure)
    <3>1. CallOK(ensure') /\ ensure'.pc = "row"
      BY <1>0, <2>3, CallsOK
    <3> QED
      BY <1>1, <2>1, <3>1 DEF EnsureOK, CallOK
  <2> QED
    BY <1>2, <2>2, <2>3 DEF EnsureHedgeMode
<1>3. CASE EnsureAdapter
  <2>1. Create(ensure.account) /\ ensure' = Made(ensure, "ask") /\ UNCHANGED <<dual, switched>>
    BY <1>3 DEF EnsureAdapter
  <2>2. AdaptersOK' /\ Len(adapters) + 1 \in DOMAIN adapters'
    BY <1>0, <2>1, CreateOK DEF CallOK
  <2>3. CallOK(ensure') /\ ensure'.pc = "ask" /\ ensure'.adapter = Len(adapters) + 1
    BY <1>0, <2>1, CallsOK
  <2> QED
    BY <1>1, <2>2, <2>3 DEF EnsureOK, CallOK
<1>4. CASE AskMode
  <2>1. PICK answered \in BOOLEAN, mode \in Modes \ {"unknown"} :
          /\ ReadMode(ensure.adapter, answered, mode)
          /\ ensure' = [ensure EXCEPT !.pc = IF mode = "hedge" THEN "done" ELSE "post",
                                      !.mode = mode, !.tries = 0]
    BY <1>4 DEF AskMode
  <2>2. UNCHANGED <<cache, dual, switched>> /\ ensure.pc = "ask"
    BY <1>4 DEF AskMode
  <2>3. ensure.adapter \in DOMAIN adapters
    BY <1>0, <2>2 DEF EnsureOK
  <2>4. AdaptersOK' /\ Stays /\ (mode = "hedge" => Hedged(EnvOf(ensure)))
    BY <1>0, <2>1, <2>2, <2>3, ReadModeOK DEF EnvOf
  <2>5. /\ CallOK(ensure') /\ ensure'.adapter = ensure.adapter
        /\ ensure'.pc \in {"done", "post"} /\ (ensure'.pc = "done" => mode = "hedge")
    BY <1>0, <2>1 DEF CallOK
  <2>6. EnsureOK'
    <3>1. ensure'.adapter \in DOMAIN adapters' /\ adapters'[ensure'.adapter].account = adapters[ensure.adapter].account
      BY <2>3, <2>4, <2>5 DEF Stays
    <3> QED
      BY <2>2, <2>4, <2>5, <3>1 DEF EnsureOK, CallOK, Hedged, HedgedBy, EnvOf
  <2> QED
    BY <1>1, <2>4, <2>6
<1>5. CASE PostMode
  <2>1. /\ ensure.pc = "post" /\ UNCHANGED <<cache, switched>> /\ ensure.adapter \in DOMAIN adapters
    BY <1>0, <1>5 DEF PostMode, EnsureOK
  <2>2. EnvOf(ensure) \in Envs /\ DOMAIN dual = Envs
    BY <1>0, <2>1, AdapterFields DEF AdaptersOK, EnvOf
  <2>3. CASE /\ dual' = [dual EXCEPT ![EnvOf(ensure)] = TRUE] /\ Remember(ensure.adapter, "hedge")
             /\ ensure' = [ensure EXCEPT !.pc = "done"]
    <3>1. DOMAIN dual' = Envs /\ HedgedThen(EnvOf(ensure)) /\ \A e \in Envs : Hedged(e) => HedgedThen(e)
      BY <2>1, <2>2, <2>3 DEF Hedged, HedgedThen, HedgedBy
    <3>2. "hedge" \in Modes /\ HedgedThen(adapters[ensure.adapter].account.env)
      BY <3>1 DEF Modes, EnvOf
    <3>3. AdaptersOK' /\ Stays
      BY <1>0, <2>1, <2>3, <3>1, <3>2, RememberOK
    <3>4. CallOK(ensure') /\ ensure'.adapter = ensure.adapter /\ ensure'.pc = "done"
      BY <1>0, <2>3 DEF CallOK
    <3>5. ensure'.adapter \in DOMAIN adapters' /\ adapters'[ensure'.adapter].account = adapters[ensure.adapter].account
      BY <2>1, <3>3, <3>4 DEF Stays
    <3>6. EnsureOK'
      BY <3>2, <3>4, <3>5 DEF EnsureOK, CallOK, Hedged, HedgedThen, EnvOf
    <3> QED
      BY <1>1, <3>3, <3>6
  <2>4. CASE ensure' = [ensure EXCEPT !.pc = "failed"] /\ UNCHANGED <<adapters, dual>>
    <3>1. AdaptersOK'
      BY <1>0, <2>1, <2>2, <2>4, AdaptersStay DEF Hedged, HedgedThen
    <3>2. CallOK(ensure') /\ ensure'.pc = "failed"
      BY <1>0, <2>4 DEF CallOK
    <3> QED
      BY <1>1, <3>1, <3>2 DEF EnsureOK, CallOK
  <2>5. CASE /\ dual' \in {dual, [dual EXCEPT ![EnvOf(ensure)] = @ \/ CanSwitch(EnvOf(ensure))]}
             /\ ensure' = NextRound(ensure) /\ UNCHANGED adapters
    <3>1. DOMAIN dual' = Envs /\ \A e \in Envs : Hedged(e) => HedgedThen(e)
      BY <2>1, <2>2, <2>5 DEF Hedged, HedgedThen, HedgedBy
    <3>2. AdaptersOK' /\ Stays
      BY <1>0, <2>1, <2>5, <3>1, AdaptersStay
    <3>3. /\ CallOK(ensure') /\ ensure'.adapter = ensure.adapter /\ ensure'.pc \in {"post", "ask", "failed"}
      BY <1>0, <2>1, <2>5 DEF CallOK, NextRound
    <3> QED
      BY <1>1, <2>1, <2>5, <3>2, <3>3 DEF EnsureOK, CallOK
  <2> QED
    BY <1>5, <2>3, <2>4, <2>5 DEF PostMode
<1> QED
  BY <1>2, <1>3, <1>4, <1>5

LEMMA HedgeStep == HedgeInv /\ [Next]_vars => HedgeInv'
<1> SUFFICES ASSUME HedgeInv, [Next]_vars PROVE HedgeInv'
  OBVIOUS
<1>0. desk' = desk
  BY DEF Next, Trading, Keeping, vars
<1>1. CASE desk # "venue"
  <2>1. ensure' = ensure
    BY <1>1 DEF Next, Trading, Keeping, vars, tradingVars, venueVars
  <2> QED
    BY <1>0, <1>1, <2>1 DEF HedgeInv
<1>2. CASE desk = "venue" /\ UNCHANGED <<registryVars, venueVars>>
  <2>1. AdaptersOK' /\ Stays
    BY <1>2, AdaptersStay DEF HedgeInv, registryVars, venueVars, AdaptersOK, Hedged, HedgedThen
  <2>2. EnsureOK'
    BY <1>2, <2>1, EnsureFrame DEF HedgeInv, venueVars
  <2> QED
    BY <1>0, <1>2, <2>1, <2>2 DEF HedgeInv, registryVars, venueVars, OrdersOK, CallOK
<1>3. CASE desk = "venue" /\ VenueNext
  <2>1. CASE \E o \in Orders : PlaceOrder(o) \/ OrderAdapter(o) \/ OrderMode(o) \/ SendOrder(o)
    BY <1>0, <1>3, <2>1, OrderStepOK DEF HedgeInv
  <2>2. CASE EnsureHedgeMode \/ EnsureAdapter \/ AskMode \/ PostMode
    BY <1>0, <1>3, <2>2, EnsureStepOK DEF HedgeInv
  <2>3. CASE \E e \in Envs : SwitchByHand(e)
    <3>1. /\ DOMAIN dual' = Envs /\ switched' = TRUE
          /\ UNCHANGED <<saved, adapters, cache, order, ensure>>
      BY <1>3, <2>3 DEF SwitchByHand, HedgeInv, AdaptersOK
    <3>2. \A e : HedgedThen(e)
      BY <3>1 DEF HedgedThen, HedgedBy
    <3>3. AdaptersOK' /\ Stays
      BY <1>3, <3>1, <3>2, AdaptersStay DEF HedgeInv
    <3>4. EnsureOK'
      BY <1>3, <3>1, <3>3, EnsureFrame DEF HedgeInv
    <3> QED
      BY <1>0, <1>3, <3>1, <3>3, <3>4 DEF HedgeInv, OrdersOK, CallOK
  <2>4. CASE (SaveSettings \/ SettingsSaved) /\ UNCHANGED venueVars
    <3>1. /\ saved' \in Accounts /\ cache' \in {cache, NoAdapter}
          /\ UNCHANGED <<adapters, order, ensure, dual, switched>>
      BY <1>3, <2>4 DEF SaveSettings, SettingsSaved, Invalidate, venueVars, HedgeInv
    <3>2. AdaptersOK' /\ Stays
      BY <1>3, <3>1, AdaptersStay DEF HedgeInv, AdaptersOK, Hedged, HedgedThen
    <3>3. EnsureOK'
      BY <1>3, <3>1, <3>2, EnsureFrame DEF HedgeInv
    <3> QED
      BY <1>0, <1>3, <3>1, <3>2, <3>3 DEF HedgeInv, OrdersOK, CallOK
  <2> QED
    BY <1>3, <2>1, <2>2, <2>3, <2>4 DEF VenueNext
<1> QED
  BY <1>1, <1>2, <1>3 DEF Next, Trading, Keeping, vars, tradingVars

LEMMA HedgeInitially == Init => HedgeInv
<1> SUFFICES ASSUME Init PROVE HedgeInv
  OBVIOUS
<1>1. ensure = NoCall /\ order = [o \in Orders |-> NoCall] /\ DOMAIN dual = Envs
  BY DEF Init, VenueInit
<1>2. saved \in Accounts /\ adapters = <<>> /\ cache = NoAdapter
  BY RegistryAssumption DEF Init, RegistryInit, SeedFromEnv
<1>3. CallOK(NoCall) /\ NoCall.pc = "idle"
  BY RegistryAssumption DEF CallOK, NoCall
<1>4. AdaptersOK
  <2>1. DOMAIN adapters = {} /\ adapters \in Seq([account : Accounts, mode : Modes])
    BY <1>2
  <2> QED
    BY <1>1, <1>2, <2>1 DEF AdaptersOK
<1> QED
  BY <1>1, <1>2, <1>3, <1>4 DEF HedgeInv, EnsureOK, OrdersOK

\* However often the mode is guessed, remembered for too long or switched by hand, a close
\* only reduces its own leg, an open never increases the opposite one, and a start that was
\* told the account is in hedge mode finds it so (getPositionMode, ensureHedgeMode).
THEOREM RightSides == Spec => []SidesAreRight
<1>1. FillsInv /\ HedgeInv => SidesAreRight
  BY DEF FillsInv, HedgeInv, SidesAreRight, HedgeEnsured, EnsureOK, Hedged, HedgedBy
<1> QED
  BY <1>1, FillsInitially, FillsStep, HedgeInitially, HedgeStep, PTL DEF Spec

-----------------------------------------------------------------------------
(* The chart.  What the server keeps, what an answer carries, what the page *)
(* holds and what it draws are all one candle for every period.             *)

Candle == [time : Int, high : Prices, low : Prices, close : Prices]

Chain(s) == s \in Seq(Candle) /\ \A i \in 2..Len(s) : s[i].time = s[i - 1].time + 1

ChartKept ==
  /\ clock \in Int
  /\ Chain(series) /\ series # <<>> /\ Last(series).time = clock
  /\ Chain(carries) /\ Chain(base) /\ Chain(chart)
  /\ wire \in Seq(Prices) /\ live \in Prices \cup {NoPrice}

ChartInv == IF desk = "chart" THEN ChartKept ELSE chart = <<>>

LEMMA FlatOK ==
  ASSUME NEW t \in Int, NEW p \in Prices
  PROVE  FlatCandle(t, p) \in Candle /\ FlatCandle(t, p).time = t
BY DEF FlatCandle, Candle

LEMMA WidenedOK ==
  ASSUME NEW c \in Candle, NEW p \in Prices
  PROVE  Widened(c, p) \in Candle /\ Widened(c, p).time = c.time
<1> DEFINE h == IF p > c.high THEN p ELSE c.high
           l == IF p < c.low THEN p ELSE c.low
<1>1. Widened(c, p) = [[[c EXCEPT !.close = p] EXCEPT !.high = h] EXCEPT !.low = l]
  BY DEF Widened, Candle
<1>2. h \in Prices /\ l \in Prices
  BY DEF Candle
<1> HIDE DEF h, l
<1>3. [c EXCEPT !.close = p] \in Candle /\ [c EXCEPT !.close = p].time = c.time
  BY DEF Candle
<1>4. \A d \in Candle : [d EXCEPT !.high = h] \in Candle /\ [d EXCEPT !.high = h].time = d.time
  BY <1>2 DEF Candle
<1>5. \A d \in Candle : [d EXCEPT !.low = l] \in Candle /\ [d EXCEPT !.low = l].time = d.time
  BY <1>2 DEF Candle
<1> QED
  BY <1>1, <1>3, <1>4, <1>5

LEMMA EmptyChain == Chain(<<>>)
BY DEF Chain

LEMMA OneCandle ==
  ASSUME NEW c \in Candle
  PROVE  Chain(<<c>>) /\ <<c>> # <<>> /\ Last(<<c>>) = c
BY DEF Chain, Last

LEMMA LastOfChain ==
  ASSUME NEW s, Chain(s), s # <<>>
  PROVE  Len(s) \in Nat \ {0} /\ Last(s) \in Candle /\ Last(s) = s[Len(s)]
<1>1. s \in Seq(Candle)
  BY DEF Chain
<1>2. Len(s) \in Nat \ {0}
  BY <1>1, EmptySeq
<1> QED
  BY <1>1, <1>2, ElementOfSeq DEF Last

LEMMA AppendChain ==
  ASSUME NEW s, Chain(s), NEW c \in Candle, s # <<>>, c.time = Last(s).time + 1
  PROVE  Chain(Append(s, c)) /\ Append(s, c) # <<>> /\ Last(Append(s, c)) = c
<1>1. Len(s) \in Nat \ {0} /\ Last(s) = s[Len(s)] /\ s \in Seq(Candle)
  BY LastOfChain DEF Chain
<1>2. /\ Append(s, c) \in Seq(Candle) /\ Append(s, c) # <<>> /\ Len(Append(s, c)) = Len(s) + 1
      /\ \A i \in 1..Len(s) : Append(s, c)[i] = s[i]
      /\ Append(s, c)[Len(s) + 1] = c
  BY <1>1, AppendProperties
<1>3. \A i \in 2..Len(s) + 1 : Append(s, c)[i].time = Append(s, c)[i - 1].time + 1
  <2> SUFFICES ASSUME NEW i \in 2..Len(s) + 1
               PROVE  Append(s, c)[i].time = Append(s, c)[i - 1].time + 1
    OBVIOUS
  <2>1. CASE i = Len(s) + 1
    BY <1>1, <1>2, <2>1
  <2>2. CASE i # Len(s) + 1
    BY <1>1, <1>2, <2>2 DEF Chain
  <2> QED
    BY <2>1, <2>2
<1> QED
  BY <1>2, <1>3 DEF Chain, Last

LEMMA SliceChain ==
  ASSUME NEW s, Chain(s), NEW m \in Nat \ {0}, NEW n \in Nat, n <= Len(s)
  PROVE  Chain(SubSeq(s, m, n)) /\ Len(SubSeq(s, m, n)) = IF m <= n THEN n - m + 1 ELSE 0
<1>1. s \in Seq(Candle) /\ Len(s) \in Nat
  BY LenProperties DEF Chain
<1>2. \A i \in m..n : s[i] \in Candle
  BY <1>1, ElementOfSeq
<1>3. /\ SubSeq(s, m, n) \in Seq(Candle)
      /\ Len(SubSeq(s, m, n)) = IF m <= n THEN n - m + 1 ELSE 0
      /\ \A i \in 1..n - m + 1 : SubSeq(s, m, n)[i] = s[m + i - 1]
  BY <1>2, SubSeqProperties
<1>4. \A i \in 2..Len(SubSeq(s, m, n)) : SubSeq(s, m, n)[i].time = SubSeq(s, m, n)[i - 1].time + 1
  <2> SUFFICES ASSUME NEW i \in 2..Len(SubSeq(s, m, n))
               PROVE  SubSeq(s, m, n)[i].time = SubSeq(s, m, n)[i - 1].time + 1
    OBVIOUS
  <2>1. i \in 2..n - m + 1 /\ i - 1 \in 1..n - m + 1 /\ m + i - 1 \in 2..Len(s)
    BY <1>1, <1>3
  <2>2. SubSeq(s, m, n)[i] = s[m + i - 1] /\ SubSeq(s, m, n)[i - 1] = s[m + i - 2]
    BY <1>3, <2>1
  <2>3. s[m + i - 1].time = s[m + i - 1 - 1].time + 1 /\ m + i - 1 - 1 = m + i - 2
    BY <2>1 DEF Chain
  <2> QED
    BY <2>2, <2>3
<1> QED
  BY <1>3, <1>4 DEF Chain

LEMMA LastCandleOK ==
  ASSUME NEW s, Chain(s), NEW n \in Nat \ {0}
  PROVE  Chain(LastCandle(s, n))
<1>1. Len(s) \in Nat
  BY LenProperties DEF Chain
<1>2. (IF Len(s) > n THEN Len(s) - n + 1 ELSE 1) \in Nat \ {0}
  BY <1>1
<1> QED
  BY <1>1, <1>2, SliceChain DEF LastCandle

\* The last candle is drawn anew.
LEMMA RedrawnChain ==
  ASSUME NEW s, Chain(s), s # <<>>, NEW p \in Prices
  PROVE  LET r == Front(s) \o <<Widened(Last(s), p)>> IN
         Chain(r) /\ r # <<>> /\ Last(r).time = Last(s).time
<1> DEFINE f == Front(s)
           c == Widened(Last(s), p)
           r == f \o <<c>>
<1>1. s \in Seq(Candle) /\ Len(s) \in Nat \ {0} /\ Last(s) = s[Len(s)]
  BY LastOfChain DEF Chain
<1>2. c \in Candle /\ c.time = Last(s).time
  BY LastOfChain, WidenedOK
<1>3. f \in Seq(Candle) /\ Len(f) = Len(s) - 1 /\ \A i \in 1..Len(s) - 1 : f[i] = s[i]
  <2>1. \A i \in 1..Len(s) - 1 : s[i] \in Candle
    BY <1>1, ElementOfSeq
  <2>2. /\ SubSeq(s, 1, Len(s) - 1) \in Seq(Candle)
        /\ Len(SubSeq(s, 1, Len(s) - 1)) = IF 1 <= Len(s) - 1 THEN Len(s) - 1 - 1 + 1 ELSE 0
        /\ \A i \in 1..Len(s) - 1 - 1 + 1 : SubSeq(s, 1, Len(s) - 1)[i] = s[1 + i - 1]
    BY <1>1, <2>1, SubSeqProperties
  <2>3. Len(s) - 1 \in Nat /\ Len(s) - 1 - 1 + 1 = Len(s) - 1 /\ \A i \in 1..Len(s) - 1 : 1 + i - 1 = i
    BY <1>1
  <2>4. Len(f) = Len(s) - 1
    BY <2>2, <2>3 DEF Front
  <2>5. \A i \in 1..Len(s) - 1 : f[i] = s[i]
    <3> SUFFICES ASSUME NEW i \in 1..Len(s) - 1 PROVE f[i] = s[i]
      OBVIOUS
    <3>1. SubSeq(s, 1, Len(s) - 1)[i] = s[1 + i - 1] /\ 1 + i - 1 = i
      BY <2>2, <2>3
    <3> QED
      BY <3>1 DEF Front
  <2> QED
    BY <2>2, <2>4, <2>5 DEF Front
<1> HIDE DEF f, c
<1>4. <<c>> \in Seq(Candle) /\ Len(<<c>>) = 1 /\ <<c>>[1] = c
  BY <1>2
<1>5. /\ r \in Seq(Candle) /\ Len(r) = Len(f) + 1
      /\ \A i \in 1..Len(f) + 1 : r[i] = IF i <= Len(f) THEN f[i] ELSE <<c>>[i - Len(f)]
  BY <1>3, <1>4, ConcatProperties
<1> HIDE DEF r
<1>6. Len(r) = Len(s) /\ r[Len(s)] = c /\ \A i \in 1..Len(s) - 1 : r[i] = s[i]
  <2>1. Len(s) \in 1..Len(f) + 1 /\ ~(Len(s) <= Len(f)) /\ Len(s) - Len(f) = 1
    BY <1>1, <1>3
  <2>2. r[Len(s)] = c
    BY <1>4, <1>5, <2>1
  <2>3. Len(r) = Len(s)
    BY <1>1, <1>3, <1>5
  <2>4. ASSUME NEW i \in 1..Len(s) - 1 PROVE r[i] = s[i]
    <3>1. i \in 1..Len(f) + 1 /\ i <= Len(f)
      BY <1>1, <1>3
    <3>2. r[i] = f[i]
      BY <1>5, <3>1
    <3> QED
      BY <1>3, <3>2
  <2> QED
    BY <2>2, <2>3, <2>4
<1>7. \A i \in 2..Len(s) : r[i].time = r[i - 1].time + 1
  <2> SUFFICES ASSUME NEW i \in 2..Len(s) PROVE r[i].time = r[i - 1].time + 1
    OBVIOUS
  <2>1. r[i].time = s[i].time
    BY <1>1, <1>2, <1>6
  <2>2. r[i - 1] = s[i - 1]
    BY <1>1, <1>6
  <2> QED
    BY <2>1, <2>2 DEF Chain
<1>8. r # <<>>
  BY <1>1, <1>5, <1>6, EmptySeq
<1>9. Chain(r) /\ r # <<>> /\ Last(r).time = Last(s).time
  BY <1>1, <1>2, <1>5, <1>6, <1>7, <1>8 DEF Chain, Last
<1> QED
  BY <1>9 DEF r, f, c

LEMMA DrawnChain ==
  ASSUME NEW s, Chain(s), NEW p \in Prices \cup {NoPrice}, NEW t \in Int
  PROVE  Chain(Drawn(s, p, t))
<1>1. CASE s = <<>> \/ p = NoPrice
  BY <1>1 DEF Drawn
<1>2. CASE s # <<>> /\ p # NoPrice
  <2>1. p \in Prices /\ Drawn(s, p, t) = MergeLivePrice(s, p, t)
    BY <1>2 DEF Drawn
  <2>2. Chain(Front(s) \o <<Widened(Last(s), p)>>)
    BY <1>2, <2>1, RedrawnChain
  <2>3. CASE t = Last(s).time
    BY <2>1, <2>2, <2>3 DEF MergeLivePrice
  <2>4. CASE t = Last(s).time + 1
    <3>1. FlatCandle(t, p) \in Candle /\ FlatCandle(t, p).time = t
      BY <2>1, FlatOK
    <3>2. Chain(Append(s, FlatCandle(t, p)))
      BY <1>2, <2>4, <3>1, AppendChain
    <3>3. Chain(LastCandle(Append(s, FlatCandle(t, p)), ChartLimit))
      BY <3>2, LastCandleOK, ChartAssumption
    <3>4. Last(s).time \in Int
      BY <1>2, LastOfChain DEF Candle
    <3> QED
      BY <2>1, <2>4, <3>3, <3>4 DEF MergeLivePrice
  <2>5. CASE t # Last(s).time /\ t # Last(s).time + 1
    BY <2>1, <2>5 DEF MergeLivePrice
  <2> QED
    BY <2>3, <2>4, <2>5
<1> QED
  BY <1>1, <1>2

LEMMA ChartStep == ChartKept /\ [ChartNext]_chartVars => ChartKept'
<1> SUFFICES ASSUME ChartKept, [ChartNext]_chartVars PROVE ChartKept'
  OBVIOUS
<1>1. CASE UNCHANGED chartVars
  BY <1>1 DEF ChartKept, chartVars, Chain
<1>2. CASE Trade
  <2>1. PICK p \in Prices : series' = Front(series) \o <<Widened(Last(series), p)>>
                            /\ wire' = IF connected THEN Append(wire, p) ELSE wire
    BY <1>2 DEF Trade
  <2>2. Chain(series') /\ series' # <<>> /\ Last(series').time = Last(series).time
    BY <2>1, RedrawnChain DEF ChartKept
  <2>3. wire' \in Seq(Prices)
    BY <2>1, AppendProperties DEF ChartKept
  <2> QED
    BY <1>2, <2>2, <2>3 DEF Trade, ChartKept, Chain, Last
<1>3. CASE Roll
  <2> DEFINE c == FlatCandle(clock + 1, Last(series).close)
  <2>1. Last(series) \in Candle /\ clock \in Int
    BY LastOfChain DEF ChartKept
  <2>2. c \in Candle /\ c.time = clock + 1
    BY <2>1, FlatOK DEF Candle
  <2>3. series' = Append(series, c) /\ clock' = clock + 1
    BY <1>3 DEF Roll
  <2> HIDE DEF c
  <2>4. Chain(series') /\ series' # <<>> /\ Last(series') = c
    BY <2>2, <2>3, AppendChain DEF ChartKept
  <2> QED
    BY <1>3, <2>1, <2>2, <2>3, <2>4 DEF Roll, ChartKept, Chain, Last
<1>4. CASE PriceArrives
  <2>1. Head(wire) \in Prices /\ Tail(wire) \in Seq(Prices)
    BY <1>4, HeadTailProperties DEF PriceArrives, ChartKept
  <2>2. Chain(Drawn(base, live', clock))
    BY <1>4, <2>1, DrawnChain DEF PriceArrives, ChartKept
  <2> QED
    BY <1>4, <2>1, <2>2 DEF PriceArrives, ChartKept, Chain
<1>5. CASE ServerAnswers
  <2>1. Chain(carries')
    BY <1>5, LastCandleOK, ChartAssumption DEF ServerAnswers, ChartKept
  <2> QED
    BY <1>5, <2>1 DEF ServerAnswers, ChartKept, Chain
<1>6. CASE CandlesArrive
  <2>1. Chain(Drawn(carries, live, clock))
    BY DrawnChain DEF ChartKept
  <2> QED
    BY <1>6, <2>1 DEF CandlesArrive, ChartKept, Chain
<1>7. CASE Disconnect \/ Connect \/ CandlesFail
  <2>1. wire' \in {wire, <<>>} /\ UNCHANGED <<clock, series, live, carries, base, chart>>
    BY <1>7 DEF Disconnect, Connect, CandlesFail
  <2>2. wire' \in Seq(Prices)
    BY <2>1, EmptySeq DEF ChartKept
  <2> QED
    BY <2>1, <2>2 DEF ChartKept, Chain
<1> QED
  BY <1>1, <1>2, <1>3, <1>4, <1>5, <1>6, <1>7
  DEF ChartNext

LEMMA DeskStep == ChartInv /\ [Next]_vars => ChartInv'
<1> SUFFICES ASSUME ChartInv, [Next]_vars PROVE ChartInv'
  OBVIOUS
<1>1. /\ desk' = desk
      /\ IF desk = "chart" THEN [ChartNext]_chartVars ELSE chart' = chart
  BY DEF Next, Trading, Keeping, keptVars, vars, chartVars
<1> QED
  BY <1>1, ChartStep DEF ChartInv

LEMMA ChartInitially == Init => ChartInv
<1> SUFFICES ASSUME Init PROVE ChartInv
  OBVIOUS
<1>1. CASE desk # "chart"
  BY <1>1 DEF Init, ChartIdle, ChartInv
<1>2. CASE desk = "chart"
  <2>1. ChartInit
    BY <1>2 DEF Init
  <2>2. PICK p \in Prices : series = <<FlatCandle(1, p)>>
    BY <2>1 DEF ChartInit
  <2>3. FlatCandle(1, p) \in Candle /\ FlatCandle(1, p).time = 1
    BY FlatOK
  <2>4. Chain(series) /\ series # <<>> /\ Last(series).time = 1
    BY <2>2, <2>3, OneCandle
  <2>5. <<>> \in Seq(Prices)
    BY EmptySeq
  <2> QED
    BY <1>2, <2>1, <2>4, <2>5, EmptyChain DEF ChartInit, ChartInv, ChartKept
<1> QED
  BY <1>1, <1>2

\* The chart never has a hole nor draws a period twice, however late the answer and however
\* long the connection was gone (mergeLivePrice, useCandles).
THEOREM ChartIsWhole == Spec => []NoHoles
<1>1. ChartInv => NoHoles
  BY DEF ChartInv, ChartKept, Chain, NoHoles
<1> QED
  BY <1>1, ChartInitially, DeskStep, PTL DEF Spec

-----------------------------------------------------------------------------
(* The history is whole: what a call has behind it, at every page or file,  *)
(* is stored, or the gap has a name.                                        *)

\* The files of the archive cover time one after the other.
LEMMA FilesOf ==
  /\ \A i \in Nat : File(i) \in Nat
  /\ \A i, j \in Nat : i <= j => File(i) <= File(j)
  /\ \A f \in Nat : File((f + 1) * FileSpan) = f + 1 /\ (f + 1) * FileSpan \in Nat
<1>1. \A i \in Nat : File(i) \in Nat
  BY PullAssumption DEF File
<1>2. \A i, j \in Nat : i <= j => File(i) <= File(j)
  BY PullAssumption DEF File
<1>3. \A f \in Nat : File((f + 1) * FileSpan) = f + 1
  BY PullAssumption DEF File
<1>4. \A f \in Nat : (f + 1) * FileSpan \in Nat
  BY PullAssumption
<1> QED
  BY <1>1, <1>2, <1>3, <1>4

\* A set of natural numbers has a least member.
LEMMA Smallest ==
  ASSUME NEW N, N \subseteq Nat, N # {}
  PROVE  \E n \in N : \A k \in N : n <= k
<1> DEFINE R == OpToRel(<, Nat)
<1>1. \E n \in N : \A k \in N : ~(<<k, n>> \in R)
  <2>1. IsWellFoundedOn(R, Nat)
    BY NatLessThanWellFounded
  <2> HIDE DEF R
  <2> QED
    BY <2>1, WFMin
<1>2. PICK n \in N : \A k \in N : ~(<<k, n>> \in R)
  BY <1>1
<1>3. \A k \in N : ~(k < n)
  BY <1>2 DEF OpToRel
<1> QED
  BY <1>3

\* A page of a table is the rows of low rank: those few are earlier than.
RowsFine(S) == IsFiniteSet(S) /\ S \subseteq [id : Int, t : Int]

Earlier(S, r) == {s \in S : Before(s, r)}
Rank(S, r) == Cardinality(Earlier(S, r))
First(S) == {r \in S : Rank(S, r) < PageLimit}

LEMMA PageIs ==
  ASSUME NEW S, NEW from, NEW to
  PROVE  Page(S, from, to) = First(In(S, from, to))
BY DEF Page, First, Rank, Earlier

LEMMA Ranks ==
  ASSUME NEW S, RowsFine(S)
  PROVE  /\ \A r \in S : IsFiniteSet(Earlier(S, r)) /\ Rank(S, r) \in Nat
         /\ \A r, s \in S : Before(r, s) => Rank(S, r) < Rank(S, s)
<1>1. ASSUME NEW r \in S PROVE IsFiniteSet(Earlier(S, r)) /\ Rank(S, r) \in Nat
  <2>1. Earlier(S, r) \in SUBSET S
    BY DEF Earlier
  <2> QED
    BY <2>1, FS_Subset, FS_CardinalityType DEF RowsFine, Rank
<1>2. ASSUME NEW r \in S, NEW s \in S, Before(r, s) PROVE Rank(S, r) < Rank(S, s)
  <2>1. Earlier(S, r) \subseteq Earlier(S, s)
    BY <1>2 DEF Earlier, Before, RowsFine
  <2>2. r \in Earlier(S, s) /\ r \notin Earlier(S, r)
    BY <1>2 DEF Earlier, Before, RowsFine
  <2>3. IsFiniteSet(Earlier(S, s)) /\ Earlier(S, r) \in SUBSET Earlier(S, s) /\ Earlier(S, r) # Earlier(S, s)
    BY <1>1, <2>1, <2>2
  <2>4. Rank(S, r) <= Rank(S, s) /\ Rank(S, r) # Rank(S, s)
    BY <2>3, FS_Subset DEF Rank
  <2>5. Rank(S, r) \in Nat /\ Rank(S, s) \in Nat
    BY <1>1
  <2> QED
    BY <2>4, <2>5
<1> QED
  BY <1>1, <1>2

\* A page that is not full is all there is; it never has more rows than the limit.
LEMMA ShortPage ==
  ASSUME NEW S, RowsFine(S)
  PROVE  /\ First(S) \subseteq S /\ IsFiniteSet(First(S)) /\ Cardinality(First(S)) \in Nat
         /\ Cardinality(First(S)) < PageLimit => First(S) = S
         /\ Cardinality(First(S)) <= PageLimit
<1> DEFINE P == First(S)
<1>1. P \in SUBSET S
  BY DEF First
<1>2. IsFiniteSet(P) /\ Cardinality(P) \in Nat
  BY <1>1, FS_Subset, FS_CardinalityType DEF RowsFine
<1>0. PageLimit \in Nat \ {0}
  BY PullAssumption
<1>3. ASSUME P # S PROVE ~(Cardinality(P) < PageLimit)
  <2> DEFINE N == {Rank(S, r) : r \in S \ P}
  <2>1. N \subseteq Nat /\ N # {}
    BY <1>1, <1>3, Ranks
  <2>2. PICK n \in N : \A k \in N : n <= k
    <3> HIDE DEF N
    <3> QED
      BY <2>1, Smallest
  <2>3. PICK r \in S \ P : n = Rank(S, r)
    BY <2>2
  <2>4. Earlier(S, r) \in SUBSET P
    <3> SUFFICES ASSUME NEW s \in Earlier(S, r), s \notin P PROVE FALSE
      OBVIOUS
    <3>1. s \in S /\ Before(s, r)
      BY DEF Earlier
    <3>2. Rank(S, s) \in N /\ Rank(S, s) < n
      BY <2>3, <3>1, Ranks
    <3>3. n <= Rank(S, s) /\ n \in Nat /\ Rank(S, s) \in Nat
      BY <2>1, <2>2, <3>2
    <3> HIDE DEF N
    <3> QED
      BY <3>2, <3>3
  <2>5. Rank(S, r) <= Cardinality(P)
    BY <1>2, <2>4, FS_Subset DEF Rank
  <2>6. ~(Rank(S, r) < PageLimit) /\ Rank(S, r) \in Nat
    BY <2>3, Ranks DEF First
  <2> HIDE DEF N, P
  <2> QED
    BY <1>0, <1>2, <2>5, <2>6
<1>4. Cardinality(P) <= PageLimit
  <2>1. CASE P = {}
    BY <1>0, <2>1, FS_EmptySet
  <2>2. CASE P # {}
    <3> DEFINE N == {PageLimit - Rank(S, r) : r \in P}
    <3>1. \A r \in P : Rank(S, r) \in Nat /\ Rank(S, r) < PageLimit
      BY Ranks DEF First
    <3>2. N \subseteq Nat /\ N # {}
      <4> HIDE DEF P
      <4> QED
        BY <1>0, <2>2, <3>1
    <3>3. PICK n \in N : \A k \in N : n <= k
      <4> HIDE DEF N
      <4> QED
        BY <3>2, Smallest
    <3>4. PICK m \in P : n = PageLimit - Rank(S, m)
      BY <3>3
    <3>5. P \subseteq Earlier(S, m) \cup {m}
      <4> SUFFICES ASSUME NEW r \in P, r # m PROVE r \in Earlier(S, m)
        OBVIOUS
      <4>1. PageLimit - Rank(S, m) <= PageLimit - Rank(S, r)
        BY <3>3, <3>4
      <4>2. ~Before(m, r)
        <5>1. Rank(S, r) \in Nat /\ Rank(S, m) \in Nat
          BY <3>1
        <5>2. Before(m, r) => Rank(S, m) < Rank(S, r)
          BY <1>1, Ranks
        <5> HIDE DEF P
        <5> QED
          BY <1>0, <4>1, <5>1, <5>2
      <4>3. r \in S /\ m \in S
        BY <1>1
      <4>4. r \in [id : Int, t : Int] /\ m \in [id : Int, t : Int]
        BY <4>3 DEF RowsFine
      <4>5. Before(r, m)
        BY <4>2, <4>4 DEF Before
      <4> QED
        BY <4>3, <4>5 DEF Earlier
    <3>6. m \notin Earlier(S, m) /\ IsFiniteSet(Earlier(S, m)) /\ m \in S
      BY <1>1, Ranks DEF Earlier, Before, RowsFine
    <3>7. /\ IsFiniteSet(Earlier(S, m) \cup {m})
          /\ Cardinality(Earlier(S, m) \cup {m}) = Rank(S, m) + 1
      BY <3>6, FS_AddElement DEF Rank
    <3>8. Cardinality(P) <= Rank(S, m) + 1
      BY <3>5, <3>7, FS_Subset
    <3>9. Rank(S, m) \in Nat /\ Rank(S, m) < PageLimit
      BY <3>1
    <3> HIDE DEF P, N
    <3> QED
      BY <1>0, <1>2, <3>8, <3>9
  <2> QED
    BY <2>1, <2>2
<1> QED
  BY <1>1, <1>2, <1>3, <1>4

\* The last time of a page is that of one of its rows, and nothing before it is left out.
LEMMA LastRow ==
  ASSUME NEW S, RowsFine(S), First(S) # {}
  PROVE  /\ \E s \in First(S) : s.t = LastOf(First(S))
         /\ \A s \in First(S) : s.t <= LastOf(First(S))
         /\ \A r \in S \ First(S) : r.t >= LastOf(First(S))
<1> DEFINE P == First(S)
           Times == {r.t : r \in P}
<1>1. P \subseteq S /\ Times \subseteq Int
  BY DEF First, RowsFine
<1>2. \E x \in Times : \A y \in Times : x >= y
  <2> DEFINE N == {PageLimit - Rank(S, r) : r \in P}
  <2>0. PageLimit \in Nat
    BY PullAssumption
  <2>1. \A r \in P : Rank(S, r) \in Nat /\ Rank(S, r) < PageLimit
    BY Ranks DEF First
  <2>2. N \subseteq Nat /\ N # {}
    <3>1. P # {}
      OBVIOUS
    <3> HIDE DEF P
    <3> QED
      BY <2>0, <2>1, <3>1
  <2>3. PICK n \in N : \A k \in N : n <= k
    <3> HIDE DEF N
    <3> QED
      BY <2>2, Smallest
  <2>4. PICK m \in P : n = PageLimit - Rank(S, m)
    BY <2>3
  <2>5. ASSUME NEW r \in P PROVE m.t >= r.t
    <3>1. PageLimit - Rank(S, m) <= PageLimit - Rank(S, r)
      BY <2>3, <2>4
    <3>2. Rank(S, r) \in Nat /\ Rank(S, m) \in Nat
      BY <2>1
    <3>3. Before(m, r) => Rank(S, m) < Rank(S, r)
      BY <1>1, Ranks
    <3>4. ~Before(m, r)
      <4> HIDE DEF P, N
      <4> QED
        BY <2>0, <3>1, <3>2, <3>3
    <3>5. r.t \in Int /\ m.t \in Int
      BY <1>1
    <3> QED
      BY <3>4, <3>5 DEF Before
  <2> QED
    BY <2>5
<1>3. LastOf(P) \in Times /\ \A y \in Times : LastOf(P) >= y
  <2> HIDE DEF P
  <2> QED
    BY <1>2 DEF LastOf, Max
<1>4. PICK s \in P : s.t = LastOf(P)
  BY <1>3
<1>5. ASSUME NEW r \in S \ P PROVE r.t >= LastOf(P)
  <2>1. ~Before(r, s)
    <3>1. Before(r, s) => Rank(S, r) < Rank(S, s)
      BY <1>1, Ranks
    <3>2. Rank(S, s) < PageLimit /\ ~(Rank(S, r) < PageLimit)
      BY DEF First
    <3>3. Rank(S, s) \in Nat /\ Rank(S, r) \in Nat /\ PageLimit \in Nat
      BY <1>1, Ranks, PullAssumption
    <3> HIDE DEF P
    <3> QED
      BY <3>1, <3>2, <3>3
  <2>2. r.t \in Int /\ s.t \in Int
    BY <1>1 DEF RowsFine
  <2> QED
    BY <1>4, <2>1, <2>2 DEF Before
<1>6. \A r \in P : r.t <= LastOf(P)
  <2>1. \A r \in P : r.t \in Times
    OBVIOUS
  <2> QED
    BY <1>1, <1>3, <2>1
<1> QED
  BY <1>4, <1>5, <1>6

\* The times of a page, and what it leaves out.
LEMMA PageFacts ==
  ASSUME NEW S, RowsFine(S), NEW a \in Int, NEW b \in Int
  PROVE  /\ Page(S, a, b) \subseteq S /\ Cardinality(Page(S, a, b)) \in Nat
         /\ \A s \in Page(S, a, b) : a <= s.t /\ s.t <= b
         /\ Page(S, a, b) = {} => Cardinality(Page(S, a, b)) < PageLimit
         /\ Cardinality(Page(S, a, b)) <= PageLimit
         /\ Page(S, a, b) # {} =>
               LastOf(Page(S, a, b)) \in Int /\ a <= LastOf(Page(S, a, b)) /\ LastOf(Page(S, a, b)) <= b
<1> DEFINE T == In(S, a, b)
           P == First(T)
<1>1. RowsFine(T) /\ T \subseteq S /\ \A s \in T : a <= s.t /\ s.t <= b
  <2>1. T \in SUBSET S
    BY DEF In
  <2> QED
    BY <2>1, FS_Subset DEF RowsFine, In
<1>2. Page(S, a, b) = P
  BY PageIs
<1>3. P \subseteq T /\ Cardinality(P) \in Nat /\ Cardinality(P) <= PageLimit
  BY <1>1, ShortPage
<1>4. P = {} => Cardinality(P) < PageLimit
  BY FS_EmptySet, PullAssumption
<1>5. P # {} => \E s \in P : s.t = LastOf(P)
  BY <1>1, LastRow
<1>6. \A s \in P : s.t \in Int
  BY <1>1, <1>3 DEF RowsFine
<1> HIDE DEF T, P
<1> QED
  BY <1>1, <1>2, <1>3, <1>4, <1>5, <1>6

\* A row of the interval is on the page, or shares its instant with one that is, if the
\* page is not full or the row is not later than the last of the page.
LEMMA PageCovers ==
  ASSUME NEW S, RowsFine(S), NEW a \in Int, NEW b \in Int,
         NEW r \in S, a <= r.t, r.t <= b,
         \/ Cardinality(Page(S, a, b)) < PageLimit
         \/ Page(S, a, b) # {} /\ r.t <= LastOf(Page(S, a, b))
  PROVE  r \in Page(S, a, b) \/ \E s \in Page(S, a, b) : s # r /\ s.t = r.t
<1> DEFINE T == In(S, a, b)
           P == First(T)
<1>1. RowsFine(T) /\ r \in T
  <2>1. T \in SUBSET S
    BY DEF In
  <2> QED
    BY <2>1, FS_Subset DEF RowsFine, In
<1>2. Page(S, a, b) = P
  BY PageIs
<1>3. CASE Cardinality(P) < PageLimit
  BY <1>1, <1>2, <1>3, ShortPage
<1>4. CASE P # {} /\ r.t <= LastOf(P) /\ r \notin P
  <2>1. PICK s \in P : s.t = LastOf(P)
    BY <1>1, <1>4, LastRow
  <2>2. r.t >= LastOf(P)
    BY <1>1, <1>4, LastRow
  <2>3. r.t \in Int /\ s.t \in Int
    BY <1>1 DEF RowsFine, First
  <2>4. s # r /\ s.t = r.t
    BY <1>4, <2>1, <2>2, <2>3
  <2> QED
    BY <1>2, <2>4
<1> HIDE DEF T, P
<1> QED
  BY <1>2, <1>3, <1>4

\* The exchange: its rows have times of their own, but for the trades.
Source ==
  /\ table \in {"funding", "interest", "trades", "candles"}
  /\ today \in Int
  /\ RowsFine(truth) /\ \A r \in truth : r.t \in 0 .. LastTime
  /\ table # "trades" => \A r, s \in truth : r.t = s.t => r = s
  /\ db \subseteq truth

\* A call asks from a natural time on; what it has read are rows of the exchange.
CallRecord ==
  [how : Calls, from : Nat, to : Int, at : Nat, piece : Nat, pages : Nat, asOf : Int,
   got : SUBSET truth,
   failed : SUBSET Nat, offline : SUBSET Nat, ok : BOOLEAN]

\* Why a pull over the interface may have left a trade out.
Excused(r) == table = "trades" /\ (Shares(r, db) \/ Crowded(r, pull))

\* The full pages of a slice are stored.
Counted ==
  /\ pull.piece <= pull.at
  /\ pull.pages * PageLimit <= Cardinality(In(db, pull.piece, pull.at - 1))

\* What a call under way has behind it.
Behind ==
  /\ pull.how = "api" =>
       \A r \in truth : Asked(r, pull) /\ r.t < pull.at => r \in db \/ Excused(r)
  /\ pull.how = "api" /\ table = "trades" => Counted
  /\ pull.how = "archive" =>
       \A r \in truth : Asked(r, pull) /\ File(r.t) < File(pull.at) =>
           r \in db \/ File(r.t) \in pull.failed \cup pull.offline
  /\ pull.how = "backtest" =>
       \A r \in truth : r \in pull.got <=> pull.from <= r.t /\ r.t < pull.at /\ r.t <= pull.to
  /\ pull.how = "events" =>
       \A r \in db : Within(r, pull) /\ r.t < pull.at => r \in pull.got \/ Shares(r, pull.got)

UnderWay ==
  pull # Nil => /\ report = Nil
                /\ pull \in CallRecord /\ pull.to <= LastTime /\ pull.asOf <= today
                /\ pull.from <= pull.at /\ pull.from <= pull.piece
                /\ Behind

PullInv == Source /\ UnderWay /\ WholeOrNamed /\ ReadersMissNothing

LEMMA HowOf == Source => Calls \subseteq {"api", "archive", "backtest", "events"}
BY DEF Source, Calls

LEMMA SourceFine ==
  ASSUME Source
  PROVE  RowsFine(truth) /\ RowsFine(db)
<1>1. db \in SUBSET truth
  BY DEF Source
<1> QED
  BY <1>1, FS_Subset DEF Source, RowsFine

\* Nothing lies behind a call that begins.
LEMMA BeginOK == PullInv /\ Begin => PullInv'
<1> SUFFICES ASSUME PullInv, Begin PROVE PullInv'
  OBVIOUS
<1>1. Source'
  BY DEF PullInv, Source, Begin, RowsFine
<1>2. PICK how \in Calls, from \in 0 .. 1, to \in (LastTime - 1) .. LastTime :
        pull' = [how |-> how, from |-> StartOf(from), to |-> to, at |-> StartOf(from),
                 piece |-> StartOf(from), pages |-> 0, asOf |-> today,
                 got |-> {}, failed |-> {}, offline |-> {}, ok |-> TRUE]
  BY DEF Begin
<1>3. StartOf(from) \in Nat /\ today \in Int /\ today' = today
  BY PullAssumption DEF StartOf, PullInv, Source, Begin
<1>4. /\ report' = Nil /\ pull' \in CallRecord' /\ pull'.to <= LastTime /\ pull'.asOf <= today'
      /\ pull'.from <= pull'.at /\ pull'.from <= pull'.piece
  <2>1. Calls' = Calls /\ report' = Nil
    BY DEF Begin, Calls
  <2>2. to \in Int /\ to <= LastTime
    BY PullAssumption
  <2> QED
    BY <1>2, <1>3, <2>1, <2>2 DEF CallRecord
<1>5. Behind'
  <2>1. pull'.at = pull'.from /\ pull'.from \in Nat /\ pull'.got = {}
    BY <1>2, <1>3
  <2>2. \A r \in truth' : r.t \in Nat /\ r.t \in Int
    BY <1>1, PullAssumption DEF Source
  <2>3. \A r \in truth' : pull'.from <= r.t => ~(r.t < pull'.at) /\ File(pull'.at) <= File(r.t)
    BY <2>1, <2>2, FilesOf
  <2>4. \A r \in truth' : pull'.from <= r.t => ~(File(r.t) < File(pull'.at))
    <3> SUFFICES ASSUME NEW r \in truth', pull'.from <= r.t PROVE ~(File(r.t) < File(pull'.at))
      OBVIOUS
    <3>1. File(r.t) \in Nat /\ File(pull'.at) \in Nat
      BY <2>1, <2>2, FilesOf
    <3> QED
      BY <2>3, <3>1
  <2>5. \A r \in db' : r \in truth'
    BY <1>1 DEF Source
  <2>6. \A r \in truth' : r \in pull'.got <=> pull'.from <= r.t /\ r.t < pull'.at /\ r.t <= pull'.to
    BY <2>1, <2>3
  <2>7. Counted'
    <3>1. pull'.pages * PageLimit = 0
      BY <1>2, PullAssumption
    <3>2. In(db', pull'.piece, pull'.at - 1) = {}
      BY <1>2, <1>3, <2>2, <2>5 DEF In
    <3>3. pull'.piece = pull'.at /\ pull'.at \in Int
      BY <1>2, <1>3
    <3>4. Cardinality(In(db', pull'.piece, pull'.at - 1)) = 0
      BY <3>2, FS_EmptySet
    <3> QED
      BY <3>1, <3>3, <3>4 DEF Counted
  <2> QED
    BY <2>3, <2>4, <2>5, <2>6, <2>7 DEF Behind, Asked, Within
<1>6. WholeOrNamed' /\ ReadersMissNothing'
  BY <1>4 DEF PullInv, WholeOrNamed, ReadersMissNothing, Begin, In
<1> QED
  BY <1>1, <1>4, <1>5, <1>6 DEF PullInv, UnderWay

\* What returns leaves the invariant, whatever was under way before it.
LEMMA ReturnOK ==
  ASSUME Source', UNCHANGED <<truth, fetched>>, PullInv, pull' = Nil, WholeOrNamed',
         (report' # Nil /\ report'.how = "events") =>
            \A r \in db' : Within(r, report') /\ r \notin report'.got => Shares(r, report'.got)
  PROVE  PullInv'
BY DEF PullInv, UnderWay, ReadersMissNothing, In

\* So does what goes on.
LEMMA GoesOnOK ==
  ASSUME Source', UNCHANGED <<truth, fetched, report>>, PullInv, pull # Nil, pull' # Nil,
         pull' \in CallRecord', pull'.from <= pull'.at, pull'.from <= pull'.piece,
         pull'.to <= LastTime, pull'.asOf <= today', Behind'
  PROVE  PullInv'
BY DEF PullInv, UnderWay, WholeOrNamed, ReadersMissNothing, In

\* Rows with times of their own: what is not later than the last of a page is stored.
LEMMA SeriesPageOK == PullInv /\ SeriesPage => PullInv'
<1> SUFFICES ASSUME PullInv, SeriesPage PROVE PullInv'
  OBVIOUS
<1> DEFINE batch == IF pull.at < pull.to THEN Page(truth, pull.at, Reach(pull.to)) ELSE {}
<1>1. /\ pull \in CallRecord /\ pull.from <= pull.at /\ pull.to <= LastTime /\ pull.how = "api"
      /\ pull.from <= pull.piece /\ report = Nil /\ pull # Nil /\ table # "trades"
      /\ pull.asOf <= today
      /\ \A r \in truth : Asked(r, pull) /\ r.t < pull.at => r \in db
  <2>1. pull # Nil /\ pull.how = "api" /\ table # "trades" /\ Behind /\ UnderWay
    BY DEF SeriesPage, PullInv, UnderWay
  <2> QED
    BY <2>1 DEF UnderWay, Behind, Excused
<1>2. /\ pull.at \in Int /\ pull.to \in Int /\ RowsFine(truth) /\ Reach(pull.to) \in Int
      /\ pull.asOf \in Int /\ today \in Int
      /\ Reach(pull.to) = IF pull.to < today THEN pull.to ELSE today
  BY <1>1 DEF CallRecord, PullInv, Source, Reach
<1>3. batch \subseteq truth /\ db' = db \cup batch
  BY <1>2, PageFacts DEF SeriesPage
<1>4. Source'
  BY <1>3 DEF PullInv, Source, SeriesPage, RowsFine
<1>5. \A r \in truth : r.t \in Int
  BY PullAssumption DEF PullInv, Source
<1>6. ASSUME NEW r \in truth, Asked(r, pull),
             Cardinality(batch) < PageLimit \/ (batch # {} /\ r.t <= LastOf(batch))
      PROVE  r \in db'
  <2>1. CASE r.t < pull.at
    BY <1>1, <1>3, <1>6, <2>1
  <2>2. CASE ~(r.t < pull.at)
    <3>1. pull.at <= r.t /\ r.t <= Reach(pull.to) /\ pull.at < pull.to
      BY <1>1, <1>2, <1>5, <1>6, <2>2 DEF Asked, Within
    <3>2. r \in batch \/ \E s \in batch : s # r /\ s.t = r.t
      BY <1>2, <1>6, <3>1, PageCovers
    <3>3. r \in batch
      BY <1>1, <1>3, <3>2 DEF PullInv, Source
    <3> QED
      BY <1>3, <3>3
  <2> QED
    BY <2>1, <2>2
<1>7. /\ batch = {} => Cardinality(batch) < PageLimit
      /\ batch # {} => LastOf(batch) \in Int /\ pull.at <= LastOf(batch)
  BY <1>2, PageFacts, FS_EmptySet, PullAssumption
<1>8. UNCHANGED <<truth, fetched, table, today>>
  BY DEF SeriesPage
<1>9. CASE Judged(pull) /\ (Cardinality(batch) < PageLimit \/ (batch # {} /\ LastOf(batch) + 1 >= pull.to))
  <2>1. pull' = Nil /\ report' = [pull EXCEPT !.ok = Quality(In(db', pull.from, pull.to))]
    BY <1>9 DEF Judged, Return
  <2>2. report'.how = "api" /\ report'.from = pull.from /\ report'.to = pull.to
    BY <1>1, <2>1 DEF CallRecord
  <2>3. ASSUME NEW r \in truth, Asked(r, pull) PROVE r \in db'
    <3>1. Cardinality(batch) < PageLimit \/ (batch # {} /\ r.t <= LastOf(batch))
      BY <1>2, <1>5, <1>7, <1>9, <2>3 DEF Asked, Within
    <3> QED
      BY <1>6, <2>3, <3>1
  <2>4. report'.asOf = pull.asOf
    BY <1>1, <2>1 DEF CallRecord
  <2>5. WholeOrNamed'
    BY <1>8, <2>2, <2>3, <2>4 DEF WholeOrNamed, Asked, Within
  <2> QED
    BY <1>4, <1>8, <2>1, <2>2, <2>5, ReturnOK
<1>10. CASE /\ Continue([pull EXCEPT !.at = LastOf(batch) + 1])
            /\ batch # {} /\ ~(LastOf(batch) + 1 >= pull.to)
  <2>1. CASE pull' # Nil
    <3>1. pull' = [pull EXCEPT !.at = LastOf(batch) + 1] /\ report' = report
      BY <1>10 DEF Continue
    <3>2. LastOf(batch) + 1 \in Nat /\ pull.from <= LastOf(batch) + 1
      BY <1>1, <1>7, <1>10 DEF CallRecord
    <3>3. /\ pull' \in CallRecord /\ pull'.at = LastOf(batch) + 1 /\ pull'.from = pull.from
          /\ pull'.to = pull.to /\ pull'.how = "api" /\ pull'.piece = pull.piece
          /\ pull'.asOf = pull.asOf
      BY <1>1, <3>1, <3>2 DEF CallRecord
    <3>4. CallRecord' = CallRecord
      BY <1>8 DEF CallRecord, Calls
    <3>5. \A r \in truth : Asked(r, pull) /\ r.t < pull'.at => r \in db'
      <4> SUFFICES ASSUME NEW r \in truth, Asked(r, pull), r.t < pull'.at PROVE r \in db'
        OBVIOUS
      <4>1. r.t <= LastOf(batch)
        BY <1>5, <1>7, <1>10, <3>3
      <4> QED
        BY <1>6, <1>10, <4>1
    <3>6. Behind'
      BY <1>1, <1>8, <3>3, <3>5 DEF Behind, Asked, Within
    <3> QED
      BY <1>1, <1>4, <1>8, <2>1, <3>1, <3>2, <3>3, <3>4, <3>6, GoesOnOK
  <2>2. CASE pull' = Nil
    <3>1. report' = Nil
      BY <1>1, <1>10 DEF Continue
    <3> QED
      BY <1>4, <1>8, <2>2, <3>1, ReturnOK DEF WholeOrNamed
  <2> QED
    BY <2>1, <2>2
<1> QED
  BY <1>7, <1>9, <1>10 DEF SeriesPage

\* More rows are stored, so no count of them falls.
LEMMA CountGrows ==
  ASSUME NEW S, NEW T, IsFiniteSet(T), S \subseteq T, NEW a \in Int, NEW b \in Int,
         NEW c \in Int, b <= c, \A r \in T : r.t \in Int
  PROVE  /\ IsFiniteSet(In(S, a, b)) /\ Cardinality(In(S, a, b)) \in Nat
         /\ Cardinality(In(T, a, c)) \in Nat
         /\ Cardinality(In(S, a, b)) <= Cardinality(In(T, a, c))
<1>1. In(S, a, b) \subseteq In(T, a, c) /\ In(T, a, c) \subseteq T
  BY DEF In
<1>2. IsFiniteSet(In(T, a, c))
  BY <1>1, FS_Subset
<1>3. IsFiniteSet(In(S, a, b)) /\ Cardinality(In(S, a, b)) <= Cardinality(In(T, a, c))
  BY <1>1, <1>2, FS_Subset
<1> QED
  BY <1>2, <1>3, FS_CardinalityType

LEMMA Times ==
  ASSUME NEW m \in Nat, NEW n \in Nat, NEW k \in Nat
  PROVE  /\ (m + 1) * k = m * k + k /\ m * k \in Nat /\ 0 * k = 0
         /\ m <= n => m * k <= n * k
OBVIOUS

\* What the page adds to the rows of its slice.
LEMMA PageCounts ==
  ASSUME PullInv, pull # Nil, pull.how = "api", table = "trades",
         NEW end \in Int, Page(truth, pull.at, end) # {},
         db' = db \cup Page(truth, pull.at, end)
  PROVE  Cardinality(In(db', pull.piece, LastOf(Page(truth, pull.at, end))))
            >= pull.pages * PageLimit + Cardinality(Page(truth, pull.at, end))
<1> DEFINE batch == Page(truth, pull.at, end)
           last == LastOf(batch)
           A == In(db, pull.piece, pull.at - 1)
           B == In(db', pull.piece, last)
<1>1. /\ pull \in CallRecord /\ Counted /\ pull.at \in Int /\ pull.piece \in Int
      /\ RowsFine(truth) /\ RowsFine(db) /\ \A r \in truth : r.t \in Int
      /\ db \subseteq truth /\ pull.pages \in Nat
  BY SourceFine, PullAssumption DEF PullInv, UnderWay, Behind, Source, CallRecord
<1>2. /\ batch \subseteq truth /\ Cardinality(batch) \in Nat /\ last \in Int /\ pull.at <= last
      /\ \A s \in batch : pull.at <= s.t
  BY <1>1, PageFacts
<1>3. \A s \in batch : s.t <= last
  <2>1. In(truth, pull.at, end) \in SUBSET truth
    BY DEF In
  <2>2. RowsFine(In(truth, pull.at, end))
    BY <1>1, <2>1, FS_Subset DEF RowsFine
  <2> QED
    BY <2>2, PageIs, LastRow
<1>4. IsFiniteSet(truth) /\ IsFiniteSet(db) /\ pull.piece <= pull.at
  BY <1>1 DEF RowsFine, Counted
<1> HIDE DEF batch, last
<1>5. IsFiniteSet(batch) /\ IsFiniteSet(A) /\ Cardinality(A) \in Nat
  <2>1. A \subseteq db
    BY DEF In
  <2> QED
    BY <1>2, <1>4, <2>1, FS_Subset, FS_CardinalityType
<1>6. A \cap batch = {}
  BY <1>1, <1>2 DEF In
<1>7. A \cup batch \subseteq B
  <2> SUFFICES ASSUME NEW r \in A \cup batch PROVE r \in B
    OBVIOUS
  <2>1. r \in db' /\ r.t \in Int
    BY <1>1, <1>2 DEF In, batch
  <2>2. r.t >= pull.piece /\ r.t <= last
    BY <1>1, <1>2, <1>3, <1>4, <2>1 DEF In
  <2> QED
    BY <2>1, <2>2 DEF In
<1>8. IsFiniteSet(B)
  <2>1. B \subseteq db \cup batch
    BY DEF In, batch
  <2> QED
    BY <1>4, <1>5, <2>1, FS_Union, FS_Subset
<1> HIDE DEF A, B
<1>9. Cardinality(A \cup batch) = Cardinality(A) + Cardinality(batch)
  <2>1. Cardinality(A \cap batch) = 0
    BY <1>6, FS_EmptySet
  <2>2. Cardinality(A \cup batch) = Cardinality(A) + Cardinality(batch) - Cardinality(A \cap batch)
    BY <1>5, FS_Union
  <2> QED
    BY <1>2, <1>5, <2>1, <2>2
<1>10. Cardinality(A \cup batch) <= Cardinality(B) /\ Cardinality(B) \in Nat
  BY <1>7, <1>8, FS_Subset, FS_CardinalityType
<1>11. pull.pages * PageLimit <= Cardinality(A) /\ pull.pages * PageLimit \in Nat
  BY <1>1, Times, PullAssumption DEF Counted, A
<1>12. Cardinality(B) >= pull.pages * PageLimit + Cardinality(batch)
  BY <1>2, <1>5, <1>9, <1>10, <1>11
<1> QED
  BY <1>12 DEF B, batch, last

\* Trades: a slice ends with a short page, with its last instant, or with its last page.
LEMMA TradesPageOK == PullInv /\ TradesPage => PullInv'
<1> SUFFICES ASSUME PullInv, TradesPage PROVE PullInv'
  OBVIOUS
<1> DEFINE end == Reach(PieceEnd)
           batch == Page(truth, pull.at, end)
           next == pull.piece + Chunk
           cut == Cardinality(batch) = PageLimit /\ LastOf(batch) + 1 <= PieceEnd
           Crowd(r) == \E s \in pull.from .. r.t :
                          s > r.t - Chunk /\ Cardinality(In(db', s, r.t)) >= MaxPages * PageLimit
           Left(r) == r \in db' \/ Shares(r, db') \/ Crowd(r)
<1>1. /\ pull \in CallRecord /\ pull.from <= pull.at /\ pull.to <= LastTime /\ pull.how = "api"
      /\ pull.from <= pull.piece /\ report = Nil /\ pull # Nil /\ table = "trades"
      /\ pull.asOf <= today /\ Counted
      /\ \A r \in truth : Asked(r, pull) /\ r.t < pull.at => r \in db \/ Excused(r)
  BY DEF TradesPage, PullInv, UnderWay, Behind
<1>2. /\ pull.at \in Nat /\ pull.from \in Nat /\ pull.to \in Int /\ pull.piece \in Nat /\ next \in Nat
      /\ PieceEnd \in Int /\ RowsFine(truth) /\ pull.at \in Int /\ pull.asOf \in Int /\ today \in Int
      /\ PieceEnd = IF next - 1 < pull.to THEN next - 1 ELSE pull.to
      /\ end \in Int /\ end = (IF PieceEnd < today THEN PieceEnd ELSE today)
      /\ pull.pages \in Nat /\ {Chunk, PageLimit, MaxPages} \subseteq Nat \ {0}
  BY <1>1, PullAssumption DEF CallRecord, PullInv, Source, PieceEnd, Reach
<1>3. batch \subseteq truth /\ db' = db \cup batch
  BY <1>2, PageFacts DEF TradesPage
<1>4. Source'
  BY <1>3 DEF PullInv, Source, TradesPage, RowsFine
<1>5. /\ \A r \in truth : r.t \in Int
      /\ IsFiniteSet(db') /\ db \subseteq db' /\ \A r \in db' : r.t \in Int
  <2>1. RowsFine(db')
    BY <1>4, SourceFine, FS_Subset DEF Source, RowsFine
  <2> QED
    BY <1>3, <2>1, PullAssumption DEF PullInv, Source, RowsFine
<1>6. ASSUME NEW r \in truth, Asked(r, pull), r.t <= PieceEnd,
             Cardinality(batch) < PageLimit \/ (batch # {} /\ r.t <= LastOf(batch))
      PROVE  Left(r)
  <2>1. CASE r.t < pull.at
    <3>1. CASE r \in db \/ Shares(r, db)
      BY <1>3, <3>1 DEF Shares
    <3>2. CASE Crowded(r, pull)
      <4>1. PICK s \in pull.from .. r.t :
              s > r.t - Chunk /\ Cardinality(In(db, s, r.t)) >= MaxPages * PageLimit
        BY <3>2 DEF Crowded
      <4>2. s \in Int /\ r.t \in Int
        BY <1>2, <1>5
      <4>3. /\ Cardinality(In(db, s, r.t)) \in Nat /\ Cardinality(In(db', s, r.t)) \in Nat
            /\ Cardinality(In(db, s, r.t)) <= Cardinality(In(db', s, r.t))
        BY <1>5, <4>2, CountGrows
      <4>4. MaxPages * PageLimit \in Nat
        BY <1>2, Times
      <4>5. Cardinality(In(db', s, r.t)) >= MaxPages * PageLimit
        BY <4>1, <4>3, <4>4
      <4> QED
        BY <4>1, <4>5
    <3> QED
      BY <1>1, <1>6, <2>1, <3>1, <3>2 DEF Excused
  <2>2. CASE ~(r.t < pull.at)
    <3>1. pull.at <= r.t /\ r.t <= end
      BY <1>1, <1>2, <1>5, <1>6, <2>2 DEF Asked
    <3>2. r \in batch \/ \E s \in batch : s # r /\ s.t = r.t
      BY <1>2, <1>6, <3>1, PageCovers
    <3> QED
      BY <1>3, <3>2 DEF Shares
  <2> QED
    BY <2>1, <2>2
<1>7. /\ batch = {} => Cardinality(batch) < PageLimit
      /\ batch # {} => LastOf(batch) \in Int /\ pull.at <= LastOf(batch) /\ LastOf(batch) <= end
      /\ Cardinality(batch) \in Nat /\ Cardinality(batch) <= PageLimit
  BY <1>2, PageFacts
<1>8. UNCHANGED <<today, truth, fetched, table>> /\ CallRecord' = CallRecord
  BY DEF TradesPage, CallRecord, Calls
\* What is left of a slice after its last page is crowded out.
<1>11. ASSUME cut
       PROVE  /\ batch # {}
              /\ Cardinality(In(db', pull.piece, LastOf(batch))) \in Nat
              /\ Cardinality(In(db', pull.piece, LastOf(batch))) >= (pull.pages + 1) * PageLimit
  <2>1. batch # {}
    BY <1>2, <1>7, <1>11
  <2>2. Cardinality(In(db', pull.piece, LastOf(batch))) >= pull.pages * PageLimit + Cardinality(batch)
    BY <1>1, <1>2, <1>3, <2>1, PageCounts
  <2>3. Cardinality(In(db', pull.piece, LastOf(batch))) \in Nat
    BY <1>2, <1>5, <1>7, <2>1, CountGrows
  <2>4. (pull.pages + 1) * PageLimit = pull.pages * PageLimit + PageLimit
    BY <1>2, Times
  <2> QED
    BY <1>11, <2>1, <2>2, <2>3, <2>4
<1>12. ASSUME cut, ~(pull.pages + 1 < MaxPages),
              NEW r \in truth, Asked(r, pull), r.t <= PieceEnd, LastOf(batch) < r.t
       PROVE  Crowd(r)
  <2>1. /\ r.t \in Int /\ LastOf(batch) \in Int /\ pull.piece <= pull.at
        /\ pull.at <= LastOf(batch)
    BY <1>1, <1>5, <1>7, <1>11, <1>12 DEF Counted
  <2>2. pull.piece \in pull.from .. r.t /\ pull.piece > r.t - Chunk
    BY <1>1, <1>2, <1>12, <2>1
  <2>3. /\ Cardinality(In(db', pull.piece, r.t)) \in Nat
        /\ Cardinality(In(db', pull.piece, LastOf(batch))) <= Cardinality(In(db', pull.piece, r.t))
    BY <1>2, <1>5, <1>12, <2>1, CountGrows
  <2>4. MaxPages * PageLimit <= (pull.pages + 1) * PageLimit
    <3>1. MaxPages <= pull.pages + 1 /\ pull.pages + 1 \in Nat
      BY <1>2, <1>12
    <3> QED
      BY <1>2, <3>1, Times
  <2>5. MaxPages * PageLimit \in Nat /\ (pull.pages + 1) * PageLimit \in Nat
    BY <1>2, Times
  <2>6. Cardinality(In(db', pull.piece, r.t)) >= MaxPages * PageLimit
    BY <1>11, <1>12, <2>3, <2>4, <2>5
  <2> QED
    BY <2>2, <2>6
<1> HIDE DEF Crowd
<1>9. CASE /\ cut /\ pull.pages + 1 < MaxPages
           /\ Continue([pull EXCEPT !.at = LastOf(batch) + 1, !.pages = @ + 1])
  <2>0. batch # {}
    BY <1>9, <1>11
  <2>1. CASE pull' # Nil
    <3>1. pull' = [pull EXCEPT !.at = LastOf(batch) + 1, !.pages = @ + 1] /\ report' = report
      BY <1>9 DEF Continue
    <3>2. LastOf(batch) + 1 \in Nat /\ pull.from <= LastOf(batch) + 1 /\ pull.piece <= LastOf(batch) + 1
      BY <1>1, <1>2, <1>7, <2>0 DEF Counted
    <3>3. /\ pull' \in CallRecord /\ pull'.at = LastOf(batch) + 1 /\ pull'.from = pull.from
          /\ pull'.to = pull.to /\ pull'.how = "api" /\ pull'.piece = pull.piece
          /\ pull'.asOf = pull.asOf /\ pull'.pages = pull.pages + 1
      <4> DEFINE last == LastOf(batch)
      <4>3. pull' = [pull EXCEPT !.at = last + 1, !.pages = @ + 1]
        BY <3>1
      <4>4. last + 1 \in Nat
        BY <3>2
      <4> HIDE DEF last
      <4>1. /\ pull' = [pull EXCEPT !.at = last + 1, !.pages = pull.pages + 1]
            /\ last + 1 \in Nat /\ pull.pages + 1 \in Nat
        BY <1>1, <1>2, <4>3, <4>4 DEF CallRecord
      <4>2. /\ pull' \in CallRecord /\ pull'.at = last + 1 /\ pull'.from = pull.from
            /\ pull'.to = pull.to /\ pull'.how = "api" /\ pull'.piece = pull.piece
            /\ pull'.asOf = pull.asOf /\ pull'.pages = pull.pages + 1
        BY <1>1, <4>1 DEF CallRecord
      <4> QED
        BY <4>2 DEF last
    <3>4. \A r \in truth : Asked(r, pull) /\ r.t < pull'.at => Left(r)
      <4> SUFFICES ASSUME NEW r \in truth, Asked(r, pull), r.t < pull'.at PROVE Left(r)
        OBVIOUS
      <4>1. end <= PieceEnd
        BY <1>2
      <4>3. r.t < LastOf(batch) + 1
        BY <3>3
      <4>2. r.t <= LastOf(batch) /\ r.t <= PieceEnd
        <5> HIDE DEF batch, end
        <5> QED
          BY <1>2, <1>5, <1>7, <2>0, <4>1, <4>3
      <4> QED
        BY <1>6, <2>0, <4>2
    <3>5. Counted'
      <4>1. LastOf(batch) + 1 - 1 = LastOf(batch)
        BY <1>7, <2>0
      <4>2. pull'.pages * PageLimit <= Cardinality(In(db', pull'.piece, pull'.at - 1))
        <5>1. (pull.pages + 1) * PageLimit \in Nat
          BY <1>2, Times
        <5>2. /\ Cardinality(In(db', pull.piece, LastOf(batch))) \in Nat
              /\ Cardinality(In(db', pull.piece, LastOf(batch))) >= (pull.pages + 1) * PageLimit
          BY <1>9, <1>11
        <5>3. (pull.pages + 1) * PageLimit <= Cardinality(In(db', pull.piece, LastOf(batch)))
          <6> HIDE DEF batch, cut
          <6> QED
            BY <5>1, <5>2
        <5>4. pull'.at - 1 = LastOf(batch) /\ pull'.piece = pull.piece /\ pull'.pages = pull.pages + 1
          <6>1. LastOf(batch) \in Int /\ pull'.at = LastOf(batch) + 1
            BY <1>7, <2>0, <3>3
          <6> HIDE DEF batch
          <6> QED
            BY <3>3, <6>1
        <5> HIDE DEF batch, cut
        <5> QED
          BY <5>3, <5>4
      <4> QED
        BY <3>2, <3>3, <4>2 DEF Counted
    <3>6. Behind'
      BY <1>1, <1>8, <3>3, <3>4, <3>5 DEF Behind, Asked, Within, Excused, Crowded, Crowd
    <3> QED
      BY <1>1, <1>4, <1>8, <2>1, <3>1, <3>2, <3>3, <3>6, GoesOnOK
  <2>2. CASE pull' = Nil
    <3>1. report' = Nil
      BY <1>1, <1>9 DEF Continue
    <3> QED
      BY <1>4, <1>8, <2>2, <3>1, ReturnOK DEF WholeOrNamed
  <2> QED
    BY <2>1, <2>2
\* The slice ends: nothing of it is missing without a reason.
<1>10. CASE ~(cut /\ pull.pages + 1 < MaxPages)
  <2>1. ASSUME NEW r \in truth, Asked(r, pull), r.t < next PROVE Left(r)
    <3>1. r.t <= PieceEnd
      BY <1>2, <1>5, <2>1 DEF Asked, Within
    <3>2. CASE ~cut
      <4>1. Cardinality(batch) < PageLimit \/ (batch # {} /\ r.t <= LastOf(batch))
        BY <1>1, <1>2, <1>5, <1>7, <2>1, <3>1, <3>2 DEF Asked
      <4> QED
        BY <1>6, <2>1, <3>1, <4>1
    <3>3. CASE cut
      <4>1. CASE r.t <= LastOf(batch)
        BY <1>6, <1>11, <2>1, <3>1, <3>3, <4>1
      <4>2. CASE ~(r.t <= LastOf(batch))
        <5>1. LastOf(batch) < r.t
          BY <1>5, <1>7, <1>11, <3>3, <4>2
        <5> QED
          BY <1>10, <1>12, <2>1, <3>1, <3>3, <5>1
      <4> QED
        BY <4>1, <4>2
    <3> QED
      BY <3>2, <3>3
  <2>2. CASE next < pull.to /\ Continue([pull EXCEPT !.piece = next, !.at = next, !.pages = 0])
    <3>1. CASE pull' # Nil
      <4>1. pull' = [pull EXCEPT !.piece = next, !.at = next, !.pages = 0] /\ report' = report
        BY <2>2 DEF Continue
      <4>2. /\ pull' \in CallRecord /\ pull'.at = next /\ pull'.from = pull.from
            /\ pull'.to = pull.to /\ pull'.how = "api" /\ pull'.piece = next
            /\ pull'.asOf = pull.asOf /\ pull'.pages = 0
        BY <1>1, <1>2, <4>1 DEF CallRecord
      <4>3. Counted'
        <5>1. Cardinality(In(db', next, next - 1)) \in Nat
          BY <1>2, <1>5, CountGrows
        <5>2. pull'.pages * PageLimit = 0
          BY <1>2, <4>2, Times
        <5> QED
          BY <1>2, <4>2, <5>1, <5>2 DEF Counted
      <4>4. Behind'
        BY <1>1, <1>8, <2>1, <4>2, <4>3 DEF Behind, Asked, Within, Excused, Crowded, Crowd
      <4>5. pull.from <= next
        BY <1>1, <1>2
      <4> QED
        BY <1>1, <1>4, <1>8, <3>1, <4>1, <4>2, <4>4, <4>5, GoesOnOK
    <3>2. CASE pull' = Nil
      <4>1. report' = Nil
        BY <1>1, <2>2 DEF Continue
      <4> QED
        BY <1>4, <1>8, <3>2, <4>1, ReturnOK DEF WholeOrNamed
    <3> QED
      BY <3>1, <3>2
  <2>3. CASE ~(next < pull.to) /\ Judged(pull)
    <3>1. pull' = Nil /\ report' = [pull EXCEPT !.ok = Quality(In(db', pull.from, pull.to))]
      BY <2>3 DEF Judged, Return
    <3>2. /\ report'.how = "api" /\ report'.from = pull.from /\ report'.to = pull.to
          /\ report'.asOf = pull.asOf
      BY <1>1, <3>1 DEF CallRecord
    <3>3. ASSUME NEW r \in truth, Asked(r, pull) PROVE Left(r)
      <4>1. r.t < next
        BY <1>2, <1>5, <2>3, <3>3 DEF Asked, Within
      <4> QED
        BY <2>1, <3>3, <4>1
    <3>4. WholeOrNamed'
      BY <1>1, <1>8, <3>2, <3>3 DEF WholeOrNamed, Asked, Within, Crowded, Crowd
    <3> QED
      BY <1>4, <1>8, <3>1, <3>2, <3>4, ReturnOK
  <2> QED
    BY <1>10, <2>2, <2>3 DEF TradesPage
<1> QED
  BY <1>9, <1>10 DEF TradesPage

\* The archive: what is not read has its file in one of the lists.
LEMMA ArchiveFileOK == PullInv /\ ArchiveFile => PullInv'
<1> SUFFICES ASSUME PullInv, ArchiveFile PROVE PullInv'
  OBVIOUS
<1> DEFINE f == File(pull.at)
           rest == [pull EXCEPT !.at = (f + 1) * FileSpan]
           goOn(p) == IF f + 1 \in Files(pull.from, pull.to) THEN Continue(p) ELSE Judged(p)
           batch == {r \in In(truth, pull.from, pull.to) : File(r.t) = f}
<1>1. /\ pull \in CallRecord /\ pull.from <= pull.at /\ pull.to <= LastTime /\ pull.how = "archive"
      /\ pull.from <= pull.piece /\ report = Nil /\ pull # Nil /\ pull.asOf <= today
      /\ \A r \in truth : Asked(r, pull) /\ File(r.t) < f =>
             r \in db \/ File(r.t) \in pull.failed \cup pull.offline
  BY DEF ArchiveFile, PullInv, UnderWay, Behind
<1>2. /\ pull.at \in Nat /\ pull.from \in Nat /\ pull.to \in Int
      /\ f \in Nat /\ File((f + 1) * FileSpan) = f + 1 /\ (f + 1) * FileSpan \in Nat
  BY <1>1, FilesOf DEF CallRecord
<1>3. \A r \in truth : r.t \in Nat /\ r.t \in Int /\ File(r.t) \in Nat
  BY PullAssumption, FilesOf DEF PullInv, Source
<1>4. (f + 1) * FileSpan >= pull.at
  BY PullAssumption, <1>2 DEF File
<1>5. UNCHANGED <<truth, fetched, table, today>> /\ CallRecord' = CallRecord
  BY DEF ArchiveFile, CallRecord, Calls
\* The file is read, or one of the two lists has its number.
<1>6. \E p \in CallRecord :
        /\ goOn(p)
        /\ p.at = (f + 1) * FileSpan /\ p.from = pull.from /\ p.to = pull.to /\ p.how = "archive"
        /\ p.piece = pull.piece /\ p.asOf = pull.asOf /\ pull.failed \cup pull.offline \subseteq p.failed \cup p.offline
        /\ (UNCHANGED db /\ f \in p.failed \cup p.offline) \/ db' = db \cup batch
  <2> DEFINE off == [rest EXCEPT !.offline = @ \cup {f}]
             bad == [rest EXCEPT !.failed = @ \cup {f}]
  <2>1. /\ rest \in CallRecord /\ rest.at = (f + 1) * FileSpan /\ rest.from = pull.from
        /\ rest.to = pull.to /\ rest.how = "archive" /\ rest.piece = pull.piece /\ rest.asOf = pull.asOf
        /\ rest.failed = pull.failed /\ rest.offline = pull.offline
    BY <1>1, <1>2 DEF CallRecord
  <2>2. /\ off \in CallRecord /\ off.at = rest.at /\ off.from = rest.from
        /\ off.to = rest.to /\ off.how = rest.how /\ off.piece = rest.piece /\ off.asOf = rest.asOf
        /\ off.failed = rest.failed /\ off.offline = rest.offline \cup {f}
    <3> HIDE DEF f, rest
    <3> QED
      BY <1>2, <2>1 DEF CallRecord
  <2>3. /\ bad \in CallRecord /\ bad.at = rest.at /\ bad.from = rest.from
        /\ bad.to = rest.to /\ bad.how = rest.how /\ bad.piece = rest.piece /\ bad.asOf = rest.asOf
        /\ bad.failed = rest.failed \cup {f} /\ bad.offline = rest.offline
    <3> HIDE DEF f, rest
    <3> QED
      BY <1>2, <2>1 DEF CallRecord
  <2>4. \/ UNCHANGED db /\ goOn(off)
        \/ UNCHANGED db /\ goOn(bad)
        \/ db' = db \cup batch /\ goOn(rest)
    BY DEF ArchiveFile
  <2> HIDE DEF goOn, off, bad, rest, batch, f
  <2>5. CASE UNCHANGED db /\ goOn(off)
    BY <2>1, <2>2, <2>5
  <2>6. CASE UNCHANGED db /\ goOn(bad)
    BY <2>1, <2>3, <2>6
  <2>7. CASE db' = db \cup batch /\ goOn(rest)
    BY <2>1, <2>7
  <2> QED
    BY <2>4, <2>5, <2>6, <2>7
<1>7. PICK p \in CallRecord :
        /\ goOn(p)
        /\ p.at = (f + 1) * FileSpan /\ p.from = pull.from /\ p.to = pull.to /\ p.how = "archive"
        /\ p.piece = pull.piece /\ p.asOf = pull.asOf /\ pull.failed \cup pull.offline \subseteq p.failed \cup p.offline
        /\ (UNCHANGED db /\ f \in p.failed \cup p.offline) \/ db' = db \cup batch
  BY <1>6
<1>8. Source' /\ db \subseteq db'
  <2>1. batch \subseteq truth
    BY DEF In
  <2> HIDE DEF batch
  <2> QED
    BY <1>5, <1>7, <2>1 DEF PullInv, Source, RowsFine
<1>9. ASSUME NEW r \in truth, Asked(r, pull), File(r.t) <= f
      PROVE  r \in db' \/ File(r.t) \in p.failed \cup p.offline
  <2>1. CASE File(r.t) = f
    <3>1. r.t >= pull.from /\ r.t <= pull.to
      BY <1>2, <1>3, <1>9 DEF Asked, Within
    <3>2. r \in batch
      BY <2>1, <3>1 DEF In
    <3> QED
      BY <1>7, <2>1, <3>2
  <2>2. CASE File(r.t) < f
    BY <1>1, <1>7, <1>8, <1>9, <2>2
  <2> QED
    BY <1>2, <1>3, <1>9, <2>1, <2>2
<1>10. CASE f + 1 \in Files(pull.from, pull.to) /\ Continue(p)
  <2>1. pull' = p /\ report' = report
    BY <1>10 DEF Continue
  <2>2. CASE p # Nil
    <3>1. Behind'
      <4> SUFFICES ASSUME NEW r \in truth, Asked(r, pull'), File(r.t) < File(pull'.at)
                   PROVE  r \in db' \/ File(r.t) \in pull'.failed \cup pull'.offline
        BY <1>5, <1>7, <2>1 DEF Behind
      <4>1. File(r.t) <= f
        BY <1>2, <1>3, <1>7, <2>1
      <4>2. Asked(r, pull)
        BY <1>7, <2>1 DEF Asked, Within
      <4> QED
        BY <1>9, <2>1, <4>1, <4>2
    <3>2. pull.from <= p.at
      BY <1>1, <1>2, <1>4, <1>7
    <3> HIDE DEF f, batch, goOn, rest
    <3>3. p \in CallRecord /\ p.from <= p.at /\ p.from <= p.piece /\ p.to <= LastTime
          /\ p.asOf <= today'
      BY <1>1, <1>5, <1>7, <3>2
    <3> QED
      BY <1>1, <1>5, <1>8, <2>1, <2>2, <3>1, <3>3, GoesOnOK
  <2>3. CASE p = Nil
    <3>1. report' = Nil /\ pull' = Nil
      BY <1>1, <2>1, <2>3
    <3> QED
      BY <1>5, <1>8, <3>1, ReturnOK DEF WholeOrNamed
  <2> QED
    BY <2>2, <2>3
<1>11. CASE f + 1 \notin Files(pull.from, pull.to) /\ Judged(p)
  <2>1. pull' = Nil /\ report' = [p EXCEPT !.ok = Quality(In(db', p.from, p.to))]
    BY <1>11 DEF Judged, Return
  <2>2. /\ report'.how = "archive" /\ report'.from = pull.from /\ report'.to = pull.to
        /\ report'.failed = p.failed /\ report'.offline = p.offline /\ report'.asOf = pull.asOf
    <3> HIDE DEF f, batch, goOn, rest
    <3> QED
      BY <1>7, <2>1 DEF CallRecord
  <2>3. ASSUME NEW r \in truth, Asked(r, pull), File(r.t) \in Files(pull.from, pull.to)
        PROVE  File(r.t) <= f
    <3>1. f + 1 \notin File(pull.from) .. File(pull.to) \/ ~(f + 1 < File(pull.from) + MaxFiles)
      BY <1>11 DEF Files
    <3>2. File(r.t) \in File(pull.from) .. File(pull.to) /\ File(r.t) < File(pull.from) + MaxFiles
      BY <2>3 DEF Files
    <3>3. File(pull.from) \in Nat /\ File(pull.from) <= f
      BY <1>1, <1>2, FilesOf
    <3>4. File(pull.to) \in Int
      BY <1>2, PullAssumption DEF File
    <3> HIDE DEF f
    <3> QED
      BY <1>2, <1>3, <3>1, <3>2, <3>3, <3>4, PullAssumption
  <2>4. WholeOrNamed'
    BY <1>5, <1>9, <2>2, <2>3 DEF WholeOrNamed, Asked, Within
  <2> QED
    BY <1>5, <1>8, <2>1, <2>2, <2>4, ReturnOK
<1> QED
  BY <1>7, <1>10, <1>11

\* What a call that fails has stored stays; it reports nothing.
LEMMA CallFailsOK == PullInv /\ CallFails => PullInv'
<1> SUFFICES ASSUME PullInv, CallFails PROVE PullInv'
  OBVIOUS
<1>1. /\ UNCHANGED <<table, today, truth, fetched, report>> /\ pull' = Nil /\ report' = Nil
  BY DEF CallFails, PullInv, UnderWay
<1>2. \A some \in SUBSET {r \in In(truth, pull.from, pull.to) : File(r.t) = File(pull.at)} :
        some \subseteq truth
  BY DEF In
<1>3. db' \subseteq truth
  BY <1>2 DEF CallFails, PullInv, Source
<1>4. Source'
  BY <1>1, <1>3 DEF PullInv, Source, RowsFine
<1> QED
  BY <1>1, <1>4, ReturnOK DEF WholeOrNamed

\* A file that comes online, or a step of another desk.
LEMMA UnchangedOK ==
  ASSUME PullInv, UNCHANGED <<table, truth, db, pull, report, fetched>>,
         today' \in {today, today + 1}
  PROVE  PullInv'
<1>1. Source' /\ CallRecord' = CallRecord
  BY DEF PullInv, Source, RowsFine, CallRecord, Calls
<1>2. UnderWay'
  <2>1. Behind => Behind'
    BY DEF Behind, Counted, Excused, Crowded, Shares, Asked, Within, In
  <2>2. pull # Nil => pull.asOf <= today'
    BY DEF PullInv, UnderWay, CallRecord, Source
  <2> QED
    BY <1>1, <2>1, <2>2 DEF PullInv, UnderWay
<1>3. WholeOrNamed' /\ ReadersMissNothing'
  BY DEF PullInv, WholeOrNamed, ReadersMissNothing, Crowded, In
<1> QED
  BY <1>1, <1>2, <1>3 DEF PullInv

LEMMA LoadCandlesOK == PullInv /\ LoadCandles => PullInv'
<1> SUFFICES ASSUME PullInv, LoadCandles PROVE PullInv'
  OBVIOUS
<1>1. /\ UNCHANGED <<table, today, truth, db, fetched>> /\ pull' = Nil /\ pull \in CallRecord
      /\ pull.how = "backtest"
      /\ report' = [pull EXCEPT !.got = IF Cached THEN fetched.rows ELSE In(db, pull.from, pull.to)]
  BY DEF LoadCandles, PullInv, UnderWay, Return
<1>2. report'.how = "backtest"
  BY <1>1 DEF CallRecord
<1>3. Source' /\ WholeOrNamed'
  BY <1>1, <1>2 DEF PullInv, Source, RowsFine, WholeOrNamed
<1> QED
  BY <1>1, <1>2, <1>3, ReturnOK

\* The candles fetched are the rows below the next page, no more and no less.
LEMMA FetchCandlesOK == PullInv /\ FetchCandles => PullInv'
<1> SUFFICES ASSUME PullInv, FetchCandles PROVE PullInv'
  OBVIOUS
<1> DEFINE end == Reach(pull.to)
           batch == Page(truth, pull.at, end)
           got == pull.got \cup batch
<1>1. /\ pull \in CallRecord /\ pull.from <= pull.at /\ pull.to <= LastTime /\ pull.how = "backtest"
      /\ pull.from <= pull.piece /\ report = Nil /\ pull # Nil /\ pull.asOf <= today
      /\ \A r \in truth : r \in pull.got <=> pull.from <= r.t /\ r.t < pull.at /\ r.t <= pull.to
  BY DEF FetchCandles, PullInv, UnderWay, Behind
<1>2. /\ pull.at \in Nat /\ pull.from \in Nat /\ pull.to \in Int /\ RowsFine(truth)
      /\ pull.at \in Int /\ pull.got \subseteq truth /\ pull.asOf \in Int
      /\ end \in Int /\ end <= pull.to /\ (pull.to <= pull.asOf => end = pull.to)
  BY <1>1 DEF CallRecord, PullInv, Source, Reach
<1>3. /\ batch \subseteq truth
      /\ batch = {} => Cardinality(batch) < PageLimit
      /\ \A s \in batch : pull.at <= s.t /\ s.t <= end
      /\ batch # {} => LastOf(batch) \in Int /\ pull.at <= LastOf(batch) /\ LastOf(batch) <= end
  BY <1>2, PageFacts
<1>4. UNCHANGED <<table, today, truth, db>> /\ Source' /\ CallRecord' = CallRecord
  BY DEF FetchCandles, PullInv, Source, RowsFine, CallRecord, Calls
<1>5. /\ \A r \in truth : r.t \in Int
      /\ table # "trades" /\ \A r, s \in truth : r.t = s.t => r = s
  BY <1>1, PullAssumption DEF PullInv, Source, CallRecord, Calls
<1>6. ASSUME NEW r \in truth, pull.at <= r.t, r.t <= end,
             Cardinality(batch) < PageLimit \/ (batch # {} /\ r.t <= LastOf(batch))
      PROVE  r \in batch
  <2>1. r \in batch \/ \E s \in batch : s # r /\ s.t = r.t
    BY <1>2, <1>6, PageCovers
  <2> HIDE DEF batch
  <2> QED
    BY <1>3, <1>5, <2>1
<1>7. CASE Cardinality(batch) < PageLimit \/ (batch # {} /\ LastOf(batch) >= pull.to)
  <2>1. CASE got = {}
    <3>1. pull' = Nil /\ UNCHANGED <<report, fetched>>
      BY <1>3, <1>7, <2>1 DEF FetchCandles
    <3> QED
      BY <1>1, <1>4, <3>1, ReturnOK DEF WholeOrNamed
  <2>2. CASE got # {}
    <3>1. /\ pull' = Nil /\ report' = [pull EXCEPT !.got = got]
          /\ fetched' = [range |-> <<pull.from, pull.to>>, asOf |-> pull.asOf, rows |-> got]
      BY <1>3, <1>7, <2>2 DEF FetchCandles, Return
    <3>2. report'.how = "backtest"
      BY <1>1, <3>1 DEF CallRecord
    <3>3. ASSUME pull.to <= pull.asOf
          PROVE  \A r \in truth : r \in got <=> r.t >= pull.from /\ r.t <= pull.to
      <4> SUFFICES ASSUME NEW r \in truth PROVE r \in got <=> r.t >= pull.from /\ r.t <= pull.to
        OBVIOUS
      <4>1. CASE r.t < pull.at
        BY <1>1, <1>2, <1>3, <1>5, <3>3, <4>1
      <4>2. CASE ~(r.t < pull.at)
        <5>1. r.t \in Int
          BY <1>5
        <5>2. r.t <= pull.to => r \in batch
          BY <1>2, <1>3, <1>6, <1>7, <3>3, <4>2, <5>1
        <5>3. r \in batch => r.t <= pull.to
          BY <1>2, <1>3, <3>3
        <5>4. r.t >= pull.from /\ r \notin pull.got
          BY <1>1, <1>2, <4>2, <5>1
        <5> HIDE DEF batch
        <5> QED
          BY <5>2, <5>3, <5>4
      <4> QED
        BY <4>1, <4>2
    <3>4. pull.to <= pull.asOf => In(truth, pull.from, pull.to) = got
      <4>1. got \subseteq truth
        <5> HIDE DEF batch
        <5> QED
          BY <1>2, <1>3
      <4> HIDE DEF got
      <4> QED
        BY <3>3, <4>1 DEF In
    <3>5. fetched'.range[2] <= fetched'.asOf =>
            In(truth, fetched'.range[1], fetched'.range[2]) = fetched'.rows
      BY <3>1, <3>4
    <3>6. fetched'.range[2] <= fetched'.asOf =>
            In(truth', fetched'.range[1], fetched'.range[2]) = fetched'.rows
      BY <1>4, <3>5
    <3> HIDE DEF batch, got
    <3> QED
      BY <1>4, <3>1, <3>2, <3>6 DEF PullInv, UnderWay, WholeOrNamed, ReadersMissNothing, In
  <2> QED
    BY <2>1, <2>2
<1>8. CASE ~(Cardinality(batch) < PageLimit \/ (batch # {} /\ LastOf(batch) >= pull.to))
  <2>0. batch # {}
    BY <1>3, <1>8
  <2>1. UNCHANGED <<report, fetched>> /\ pull' = [pull EXCEPT !.got = got, !.at = LastOf(batch) + 1]
    BY <1>8, <2>0 DEF FetchCandles, Continue
  <2>2. LastOf(batch) + 1 \in Nat /\ pull.from <= LastOf(batch) + 1
    BY <1>1, <1>2, <1>3, <2>0
  <2>3. got \subseteq truth
    <3> HIDE DEF batch
    <3> QED
      BY <1>2, <1>3
  <2>4. /\ pull' \in CallRecord /\ pull'.at = LastOf(batch) + 1 /\ pull'.from = pull.from
        /\ pull'.to = pull.to /\ pull'.how = "backtest" /\ pull'.piece = pull.piece /\ pull'.got = got
        /\ pull'.asOf = pull.asOf
    <3> HIDE DEF batch, got
    <3> QED
      BY <1>1, <2>1, <2>2, <2>3 DEF CallRecord
  <2>5. \A r \in truth : r \in got <=> pull.from <= r.t /\ r.t < LastOf(batch) + 1 /\ r.t <= pull.to
    <3> SUFFICES ASSUME NEW r \in truth
                 PROVE  r \in got <=> pull.from <= r.t /\ r.t < LastOf(batch) + 1 /\ r.t <= pull.to
      OBVIOUS
    <3>0. r.t \in Int /\ LastOf(batch) \in Int /\ pull.at <= LastOf(batch)
      BY <1>3, <1>5, <2>0
    <3>1. r \in batch => r.t <= LastOf(batch)
      <4>1. RowsFine(In(truth, pull.at, end))
        <5>1. In(truth, pull.at, end) \in SUBSET truth
          BY DEF In
        <5> QED
          BY <1>2, <5>1, FS_Subset DEF RowsFine
      <4>2. batch = First(In(truth, pull.at, end))
        BY PageIs
      <4> QED
        BY <2>0, <4>1, <4>2, LastRow
    <3>2. CASE r.t < pull.at
      BY <1>1, <1>2, <1>3, <3>0, <3>2
    <3>3. CASE ~(r.t < pull.at)
      <4>1. r.t <= pull.to /\ r.t <= LastOf(batch) => r \in batch
        BY <1>2, <1>3, <1>6, <2>0, <3>0, <3>3
      <4>2. r \in batch => r.t <= pull.to
        BY <1>2, <1>3, <1>5
      <4>3. r.t >= pull.from /\ r \notin pull.got
        BY <1>1, <1>2, <3>0, <3>3
      <4> HIDE DEF batch
      <4> QED
        BY <3>0, <3>1, <4>1, <4>2, <4>3
    <3> QED
      BY <3>2, <3>3
  <2> HIDE DEF batch, got
  <2>6. CASE pull' # Nil
    <3>1. Behind'
      BY <1>4, <2>4, <2>5 DEF Behind
    <3> QED
      BY <1>1, <1>4, <2>1, <2>2, <2>4, <2>6, <3>1, GoesOnOK
  <2>7. CASE pull' = Nil
    BY <1>1, <1>4, <2>1, <2>7, ReturnOK DEF WholeOrNamed
  <2> QED
    BY <2>6, <2>7
<1> QED
  BY <1>7, <1>8

\* The events are read from the table as the trades are from the exchange.
LEMMA EventsPageOK == PullInv /\ EventsPage => PullInv'
<1> SUFFICES ASSUME PullInv, EventsPage PROVE PullInv'
  OBVIOUS
<1> DEFINE batch == Page(db, pull.at, pull.to)
           p == [pull EXCEPT !.got = @ \cup batch]
<1>1. /\ pull \in CallRecord /\ pull.from <= pull.at /\ pull.to <= LastTime /\ pull.how = "events"
      /\ pull.from <= pull.piece /\ report = Nil /\ pull # Nil /\ pull.asOf <= today
      /\ \A r \in db : Within(r, pull) /\ r.t < pull.at => r \in pull.got \/ Shares(r, pull.got)
  BY DEF EventsPage, PullInv, UnderWay, Behind
<1>2. /\ pull.at \in Nat /\ pull.from \in Nat /\ pull.to \in Int /\ RowsFine(db)
      /\ pull.at \in Int /\ pull.got \subseteq truth /\ db \subseteq truth
  BY <1>1, SourceFine DEF CallRecord, PullInv, Source
<1>3. /\ batch \subseteq db
      /\ batch = {} => Cardinality(batch) < PageLimit
      /\ batch # {} => LastOf(batch) \in Int /\ pull.at <= LastOf(batch) /\ LastOf(batch) <= pull.to
  BY <1>2, PageFacts
<1>4. UNCHANGED <<table, today, truth, db, fetched>> /\ Source' /\ CallRecord' = CallRecord
  BY DEF EventsPage, PullInv, Source, RowsFine, CallRecord, Calls
<1>5. \A r \in db : r.t \in Int
  BY PullAssumption DEF PullInv, Source
<1>6. ASSUME NEW r \in db, Within(r, pull),
             Cardinality(batch) < PageLimit \/ (batch # {} /\ r.t <= LastOf(batch))
      PROVE  r \in pull.got \cup batch \/ Shares(r, pull.got \cup batch)
  <2>1. CASE r.t < pull.at
    BY <1>1, <1>6, <2>1 DEF Shares
  <2>2. CASE ~(r.t < pull.at)
    <3>1. pull.at <= r.t /\ r.t <= pull.to
      BY <1>2, <1>5, <1>6, <2>2 DEF Within
    <3>2. r \in batch \/ \E s \in batch : s # r /\ s.t = r.t
      BY <1>2, <1>6, <3>1, PageCovers
    <3> HIDE DEF batch
    <3> QED
      BY <3>2 DEF Shares
  <2> QED
    BY <2>1, <2>2
<1>7. pull.got \cup batch \subseteq truth
  <2> HIDE DEF batch
  <2> QED
    BY <1>2, <1>3
<1>8. /\ p \in CallRecord /\ p.at = pull.at /\ p.from = pull.from /\ p.to = pull.to
      /\ p.how = "events" /\ p.piece = pull.piece /\ p.asOf = pull.asOf /\ p.got = pull.got \cup batch
  <2> HIDE DEF batch
  <2> QED
    BY <1>1, <1>7 DEF CallRecord
<1>9. CASE Cardinality(batch) < PageLimit \/ LastOf(batch) >= pull.to
  <2>1. CASE p.got = {}
    <3>1. pull' = Nil /\ UNCHANGED report
      BY <1>9, <2>1 DEF EventsPage
    <3> QED
      BY <1>1, <1>4, <3>1, ReturnOK DEF WholeOrNamed
  <2>2. CASE p.got # {}
    <3>1. pull' = Nil /\ report' = p
      BY <1>9, <2>2 DEF EventsPage, Return
    <3>2. ASSUME NEW r \in db, Within(r, p), r \notin p.got PROVE Shares(r, p.got)
      <4>1. Within(r, pull)
        BY <1>8, <3>2 DEF Within
      <4>2. Cardinality(batch) < PageLimit \/ (batch # {} /\ r.t <= LastOf(batch))
        BY <1>2, <1>3, <1>5, <1>9, <4>1 DEF Within
      <4> QED
        BY <1>6, <1>8, <3>2, <4>1, <4>2
    <3> HIDE DEF p, batch
    <3>3. WholeOrNamed'
      BY <1>8, <3>1 DEF WholeOrNamed
    <3> QED
      BY <1>4, <3>1, <3>2, <3>3, ReturnOK
  <2> QED
    BY <2>1, <2>2
<1>10. CASE ~(Cardinality(batch) < PageLimit \/ LastOf(batch) >= pull.to)
  <2>0. batch # {}
    BY <1>3, <1>10
  <2>1. UNCHANGED report /\ pull' = [p EXCEPT !.at = LastOf(batch) + 1]
    BY <1>10 DEF EventsPage, Continue
  <2>2. LastOf(batch) + 1 \in Nat /\ pull.from <= LastOf(batch) + 1 /\ LastOf(batch) \in Int
    BY <1>1, <1>2, <1>3, <2>0
  <2> HIDE DEF batch, p
  <2>3. /\ pull' \in CallRecord /\ pull'.at = LastOf(batch) + 1 /\ pull'.from = pull.from
        /\ pull'.to = pull.to /\ pull'.how = "events" /\ pull'.piece = pull.piece /\ pull'.asOf = pull.asOf
        /\ pull'.got = pull.got \cup batch
    BY <1>8, <2>1, <2>2 DEF CallRecord
  <2>4. ASSUME NEW r \in db, Within(r, pull'), r.t < pull'.at
        PROVE  r \in pull'.got \/ Shares(r, pull'.got)
    <3>1. r.t <= LastOf(batch)
      BY <1>5, <2>2, <2>3, <2>4
    <3>2. Within(r, pull)
      BY <2>3, <2>4 DEF Within
    <3> QED
      BY <1>6, <2>0, <2>3, <3>1, <3>2
  <2>5. CASE pull' # Nil
    <3>1. Behind'
      BY <1>4, <2>3, <2>4 DEF Behind
    <3> QED
      BY <1>1, <1>4, <2>1, <2>2, <2>3, <2>5, <3>1, GoesOnOK
  <2>6. CASE pull' = Nil
    BY <1>1, <1>4, <2>1, <2>6, ReturnOK DEF WholeOrNamed
  <2> QED
    BY <2>5, <2>6
<1> QED
  BY <1>9, <1>10

LEMMA PullStep == PullInv /\ [PullNext]_pullVars => PullInv'
<1> SUFFICES ASSUME PullInv, [PullNext]_pullVars PROVE PullInv'
  OBVIOUS
<1>1. CASE UNCHANGED pullVars
  BY <1>1, UnchangedOK DEF pullVars
<1> QED
  BY <1>1, BeginOK, SeriesPageOK, TradesPageOK, ArchiveFileOK, CallFailsOK, UnchangedOK,
     LoadCandlesOK, FetchCandlesOK, EventsPageOK DEF PullNext, Publish, TimePasses

\* The rows of the exchange are counted in the order of their times.
LEMMA TimesGrow ==
  ASSUME NEW n \in Nat, NEW time \in [1 .. n -> Nat], \A i \in 2 .. n : time[i - 1] < time[i]
  PROVE  \A i, j \in 1 .. n : i < j => time[i] < time[j]
<1> SUFFICES ASSUME NEW i \in 1 .. n, NEW j \in 1 .. n, i < j, ~(time[i] < time[j]) PROVE FALSE
  OBVIOUS
<1> DEFINE N == {k \in 1 .. n : i < k /\ ~(time[i] < time[k])}
<1>1. N \subseteq Nat /\ N # {}
  <2>1. j \in N
    OBVIOUS
  <2>2. \A k \in N : k \in 1 .. n
    OBVIOUS
  <2> HIDE DEF N
  <2> QED
    BY <2>1, <2>2
<1>2. PICK k \in N : \A m \in N : k <= m
  <2> HIDE DEF N
  <2> QED
    BY <1>1, Smallest
<1>3. k \in 2 .. n /\ k - 1 \in 1 .. n /\ k - 1 \notin N
  <2>1. k \in 2 .. n /\ k - 1 \in 1 .. n
    OBVIOUS
  <2>2. ASSUME k - 1 \in N PROVE FALSE
    BY <1>2, <2>1, <2>2
  <2> QED
    BY <2>1, <2>2
<1>4. time[k - 1] < time[k] /\ time[k] \in Nat /\ time[k - 1] \in Nat /\ time[i] \in Nat
  BY <1>3
<1>5. i < k /\ ~(time[i] < time[k])
  OBVIOUS
<1>6. ~(i < k - 1) \/ time[i] < time[k - 1]
  BY <1>3
<1>7. ~(i < k - 1) => i = k - 1
  BY <1>3, <1>5
<1> HIDE DEF N
<1> QED
  BY <1>4, <1>5, <1>6, <1>7

LEMMA PullInitially == PullInit => PullInv
<1> SUFFICES ASSUME PullInit PROVE PullInv
  OBVIOUS
<1>1. PICK n \in 1 .. MaxRows : \E time \in [1 .. n -> 0 .. LastTime] :
        /\ \A i \in 2 .. n : IF table = "trades" THEN time[i - 1] <= time[i] ELSE time[i - 1] < time[i]
        /\ truth = {[id |-> i, t |-> time[i]] : i \in 1 .. n}
  BY DEF PullInit
<1>2. PICK time \in [1 .. n -> 0 .. LastTime] :
        /\ \A i \in 2 .. n : IF table = "trades" THEN time[i - 1] <= time[i] ELSE time[i - 1] < time[i]
        /\ truth = {[id |-> i, t |-> time[i]] : i \in 1 .. n}
  BY <1>1
<1>3. RowsFine(truth) /\ \A r \in truth : r.t \in 0 .. LastTime
  <2> DEFINE f == [i \in 1 .. n |-> [id |-> i, t |-> time[i]]]
  <2>1. f \in Surjection(1 .. n, truth)
    BY <1>2 DEF Surjection
  <2>2. IsFiniteSet(1 .. n)
    <3>1. MaxRows \in Nat /\ 1 \in Int /\ n \in Int
      BY PullAssumption
    <3> QED
      BY <3>1, FS_Interval
  <2>3. IsFiniteSet(truth)
    <3> HIDE DEF f
    <3> QED
      BY <2>1, <2>2, FS_Surjection
  <2> QED
    BY <1>2, <2>3, PullAssumption DEF RowsFine
<1>4. ASSUME table # "trades", NEW r \in truth, NEW s \in truth, r.t = s.t PROVE r = s
  <2>1. n \in Nat /\ time \in [1 .. n -> Nat] /\ \A i \in 2 .. n : time[i - 1] < time[i]
    BY <1>2, <1>4, PullAssumption
  <2>2. \A i, j \in 1 .. n : i < j => time[i] < time[j]
    BY <2>1, TimesGrow
  <2>3. PICK i \in 1 .. n : r = [id |-> i, t |-> time[i]]
    BY <1>2
  <2>4. PICK j \in 1 .. n : s = [id |-> j, t |-> time[j]]
    BY <1>2
  <2>5. time[i] \in Nat /\ time[i] = time[j] /\ i \in Nat /\ j \in Nat
    BY <1>4, <2>1, <2>3, <2>4
  <2>6. ~(i < j) /\ ~(j < i)
    BY <2>2, <2>5
  <2> QED
    BY <2>3, <2>4, <2>5, <2>6
<1>5. today \in Int
  BY PullAssumption DEF PullInit
<1> QED
  BY <1>3, <1>4, <1>5 DEF PullInit, PullInv, Source, UnderWay, WholeOrNamed, ReadersMissNothing

\* A check that counts the rows of a range counts its slots: what it lets pass may be missing.
LEMMA FewLacking ==
  ASSUME NEW D, RowsFine(D), \A r, s \in D : r.t = s.t => r = s,
         NEW from \in Nat, NEW to \in Int, FundingSlots(from, to) > 0,
         100 * Cardinality(In(D, from, to)) >= MinCoverage * FundingSlots(from, to)
  PROVE  100 * Cardinality({t \in from .. to : \A r \in D : r.t # t})
            <= (100 - MinCoverage) * FundingSlots(from, to)
<1> DEFINE T == In(D, from, to)
           L == {t \in from .. to : \A r \in D : r.t # t}
           There == (from .. to) \ L
           f == [r \in T |-> r.t]
<1>1. f \in Injection(T, There)
  BY DEF Injection, IsInjective, In, RowsFine
<1>2. FundingSlots(from, to) = to - from + 1 /\ from <= to
  BY DEF FundingSlots
<1>3. IsFiniteSet(from .. to) /\ Cardinality(from .. to) = to - from + 1
  BY <1>2, FS_Interval
<1>4. IsFiniteSet(There) /\ IsFiniteSet(L) /\ Cardinality(There) \in Nat /\ Cardinality(L) \in Nat
  <2>1. There \subseteq from .. to /\ L \subseteq from .. to
    OBVIOUS
  <2> HIDE DEF There, L
  <2> QED
    BY <1>3, <2>1, FS_Subset, FS_CardinalityType
<1>5. Cardinality(T) <= Cardinality(There)
  <2> HIDE DEF f, T, There
  <2> QED
    BY <1>1, <1>4, FS_Injection
<1>6. Cardinality(T) \in Nat
  <2>1. T \in SUBSET D
    BY DEF In
  <2> QED
    BY <2>1, FS_Subset, FS_CardinalityType DEF RowsFine
<1>7. Cardinality(L) + Cardinality(There) = to - from + 1
  <2>1. L \cup There = from .. to /\ L \cap There = {}
    OBVIOUS
  <2> HIDE DEF L, There
  <2>2. Cardinality(L \cap There) = 0
    BY <2>1, FS_EmptySet
  <2>3. Cardinality(L \cup There) = Cardinality(L) + Cardinality(There) - Cardinality(L \cap There)
    BY <1>4, FS_Union
  <2>4. Cardinality(L \cup There) = to - from + 1
    BY <1>3, <2>1
  <2> QED
    BY <1>4, <2>2, <2>3, <2>4
<1> DEFINE n == to - from + 1
<1>8. n \in Nat /\ MinCoverage \in Nat
  BY <1>2, PullAssumption
<1>9. (100 - MinCoverage) * n = 100 * n - MinCoverage * n /\ MinCoverage * n \in Nat
  <2> HIDE DEF n
  <2> QED
    BY <1>8
<1>10. 100 * Cardinality(T) >= MinCoverage * n
  BY <1>2
<1>11. Cardinality(L) + Cardinality(There) = n
  BY <1>7
<1> HIDE DEF n, T, L, There
<1>12. 100 * Cardinality(L) <= 100 * n - MinCoverage * n
  BY <1>4, <1>5, <1>6, <1>8, <1>9, <1>10, <1>11
<1> QED
  BY <1>2, <1>9, <1>12 DEF n, L

\* How a report comes about: from a reader, or from the check after a pull.
Checked ==
  \E p \in CallRecord : /\ p.from = pull.from /\ p.to = pull.to /\ pull.to <= LastTime
                        /\ report' = [p EXCEPT !.ok = Quality(In(db', p.from, p.to))]

LEMMA Reports ==
  ASSUME PullInv, [PullNext]_pullVars
  PROVE  /\ UNCHANGED <<table, truth>>
         /\ \/ UNCHANGED <<db, report>>
            \/ report' = Nil
            \/ table # "funding" /\ report'.how # "api"
            \/ Checked
<1>1. UNCHANGED <<table, truth>>
  BY DEF PullNext, pullVars, Begin, SeriesPage, TradesPage, ArchiveFile, CallFails, Publish,
         TimePasses, LoadCandles, FetchCandles, EventsPage
<1>2. pull # Nil => report = Nil /\ pull \in CallRecord /\ pull.to <= LastTime
  BY DEF PullInv, UnderWay
<1>3. CASE UNCHANGED pullVars \/ Publish \/ TimePasses \/ Begin \/ CallFails
  BY <1>2, <1>3 DEF pullVars, Publish, TimePasses, Begin, CallFails
<1>4. ASSUME pull # Nil, Judged(pull) PROVE Checked
  BY <1>2, <1>4 DEF Checked, Judged, Return
<1>5. CASE SeriesPage \/ TradesPage
  <2>1. pull # Nil /\ \E p : Continue(p) \/ Judged(pull)
    BY <1>5 DEF SeriesPage, TradesPage
  <2> QED
    BY <1>1, <1>2, <1>4, <2>1 DEF Continue
<1>6. CASE ArchiveFile
  <2> DEFINE f == File(pull.at)
             rest == [pull EXCEPT !.at = (f + 1) * FileSpan]
  <2>1. pull # Nil /\ pull \in CallRecord /\ f \in Nat /\ (f + 1) * FileSpan \in Nat
    BY <1>2, <1>6, FilesOf DEF ArchiveFile, CallRecord
  <2>2. \E p \in {rest, [rest EXCEPT !.offline = @ \cup {f}], [rest EXCEPT !.failed = @ \cup {f}]} :
          Continue(p) \/ Judged(p)
    <3>1. \/ Continue(rest) \/ Judged(rest)
          \/ Continue([rest EXCEPT !.offline = @ \cup {f}]) \/ Judged([rest EXCEPT !.offline = @ \cup {f}])
          \/ Continue([rest EXCEPT !.failed = @ \cup {f}]) \/ Judged([rest EXCEPT !.failed = @ \cup {f}])
      BY <1>6 DEF ArchiveFile
    <3> HIDE DEF rest, f
    <3> QED
      BY <3>1
  <2>3. PICK p \in {rest, [rest EXCEPT !.offline = @ \cup {f}], [rest EXCEPT !.failed = @ \cup {f}]} :
          Continue(p) \/ Judged(p)
    BY <2>2
  <2>4. rest \in CallRecord /\ rest.from = pull.from /\ rest.to = pull.to
    BY <2>1 DEF CallRecord
  <2> HIDE DEF rest, f
  <2>5. p \in CallRecord /\ p.from = pull.from /\ p.to = pull.to
    BY <2>1, <2>3, <2>4 DEF CallRecord
  <2> QED
    BY <1>1, <1>2, <2>1, <2>3, <2>5 DEF Continue, Judged, Return, Checked
<1>7. CASE LoadCandles \/ FetchCandles \/ EventsPage
  <2>1. /\ pull # Nil /\ UNCHANGED db /\ pull.how \in {"backtest", "events"}
        /\ UNCHANGED report \/ \E s : report' = [pull EXCEPT !.got = s]
    BY <1>7 DEF LoadCandles, FetchCandles, EventsPage, Return, Continue
  <2>2. table # "funding"
    BY <1>2, <2>1 DEF CallRecord, Calls
  <2> QED
    BY <1>1, <1>2, <2>1, <2>2 DEF CallRecord
<1> QED
  BY <1>1, <1>3, <1>5, <1>6, <1>7 DEF PullNext

\* The check of a range of the funding, or of a pull of trades, is right when it passes.
LEMMA CheckStep ==
  ASSUME PullInv, CheckCanBeTrusted, [PullNext]_pullVars
  PROVE  CheckCanBeTrusted'
<1>1. PullInv' /\ UNCHANGED <<table, truth>>
  BY PullStep, Reports
<1>2. CASE UNCHANGED <<db, report>>
  BY <1>1, <1>2 DEF CheckCanBeTrusted, Asked, Within, Lacking
<1>3. CASE report' = Nil \/ (table # "funding" /\ report'.how # "api")
  BY <1>1, <1>3 DEF CheckCanBeTrusted
<1>4. CASE Checked
  <2>1. PICK p \in CallRecord : /\ p.from = pull.from /\ p.to = pull.to /\ pull.to <= LastTime
                               /\ report' = [p EXCEPT !.ok = Quality(In(db', p.from, p.to))]
    BY <1>4 DEF Checked
  <2>2. /\ report'.from = pull.from /\ report'.to = pull.to /\ pull.from \in Nat /\ pull.to \in Int
        /\ report'.ok = Quality(In(db', pull.from, pull.to)) /\ report'.how = p.how
    BY <2>1 DEF CallRecord
  <2>3. RowsFine(db') /\ db' \subseteq truth'
    <3>1. Source'
      BY <1>1 DEF PullInv
    <3>2. db' \in SUBSET truth'
      BY <3>1 DEF Source
    <3> QED
      BY <3>1, <3>2, FS_Subset DEF Source, RowsFine
  <2>4. ASSUME table = "funding", report'.ok
        PROVE  100 * Cardinality({t \in report'.from .. report'.to : \A r \in db' : r.t # t})
                  <= (100 - MinCoverage) * FundingSlots(report'.from, report'.to)
    <3>1. \A r, s \in db' : r.t = s.t => r = s
      BY <1>1, <2>3, <2>4 DEF PullInv, Source
    <3>2. /\ 100 * Cardinality(In(db', pull.from, pull.to))
                >= MinCoverage * FundingSlots(pull.from, pull.to)
          /\ FundingSlots(pull.from, pull.to) > 0
      BY <2>2, <2>4 DEF Quality
    <3> QED
      BY <2>1, <2>2, <2>3, <3>1, <3>2, FewLacking
  <2>5. ASSUME report' # Nil, table = "trades", report'.how = "api",
               NEW r \in truth, Asked(r, report')
        PROVE  report'.ok
    <3>3. r.t \in Int /\ r.t >= pull.from /\ r.t <= pull.to
      BY <1>1, <2>2, <2>5, PullAssumption DEF PullInv, Source, Asked, Within
    <3>1. r \in db' \/ Shares(r, db') \/ Crowded(r, report)'
      BY <1>1, <2>5 DEF PullInv, WholeOrNamed
    <3>2. ASSUME r \in db' \/ Shares(r, db') PROVE In(db', pull.from, pull.to) # {}
      <4>1. PICK s \in db' : s.t = r.t
        BY <3>2 DEF Shares
      <4> QED
        BY <3>3, <4>1 DEF In
    <3>5. ASSUME Crowded(r, report)' PROVE In(db', pull.from, pull.to) # {}
      <4>1. PICK b \in pull.from .. r.t : Cardinality(In(db', b, r.t)) >= MaxPages * PageLimit
        BY <2>2, <3>5 DEF Crowded
      <4>2. 1 * 1 <= 1 * PageLimit /\ 1 * PageLimit <= MaxPages * PageLimit
        BY PullAssumption, Times
      <4>3. Cardinality({}) = 0
        BY FS_EmptySet
      <4>4. In(db', b, r.t) # {}
        <5>1. MaxPages * PageLimit >= 1 /\ MaxPages * PageLimit \in Nat
          BY <4>2, PullAssumption, Times
        <5> QED
          BY <4>1, <4>3, <5>1
      <4>5. PICK s \in db' : s.t >= b /\ s.t <= r.t
        BY <4>4 DEF In
      <4>6. s.t \in Int /\ b \in Int /\ b >= pull.from
        BY <2>2, <2>3 DEF RowsFine
      <4>7. s.t >= pull.from /\ s.t <= pull.to
        BY <2>2, <3>3, <4>5, <4>6
      <4> QED
        BY <4>5, <4>7 DEF In
    <3>4. In(db', pull.from, pull.to) # {}
      BY <3>1, <3>2, <3>5
    <3> QED
      BY <2>2, <2>5, <3>4 DEF Quality
  <2> QED
    BY <1>1, <2>4, <2>5 DEF CheckCanBeTrusted, Lacking
<1> QED
  BY <1>2, <1>3, <1>4, Reports

\* Only the history desk touches the history.
LEMMA PullOnly ==
  ASSUME [Next]_vars
  PROVE  [PullNext]_pullVars
BY DEF Next, Trading, Keeping, keptVars, vars, pullVars

LEMMA PullDeskInit == Init => PullInv /\ CheckCanBeTrusted
<1>1. PullInit => CheckCanBeTrusted
  BY DEF PullInit, CheckCanBeTrusted
<1>2. ASSUME PullIdle PROVE PullInv /\ CheckCanBeTrusted
  <2>1. RowsFine(truth) /\ (\A r \in truth : r.t \in 0 .. LastTime) /\ today \in Int
    <3>1. IsFiniteSet(truth)
      BY <1>2, FS_Singleton DEF PullIdle
    <3> QED
      BY <1>2, <3>1, PullAssumption DEF PullIdle, RowsFine
  <2> QED
    BY <1>2, <2>1 DEF PullIdle, PullInv, Source, UnderWay, WholeOrNamed, ReadersMissNothing,
                      CheckCanBeTrusted
<1> QED
  BY <1>1, <1>2, PullInitially DEF Init

\* A pull that returns has stored every row it was asked for, or the gap has a name; the
\* back-test and the event-driven engine get every row of the source they read (history-pull,
\* archive-download, klines-archive, historical-feed, events-feed).
THEOREM PullsAndReaders == Spec => [](WholeOrNamed /\ ReadersMissNothing)
<1>1. PullInv /\ [Next]_vars => PullInv'
  BY PullOnly, PullStep
<1>2. Init => PullInv
  BY PullDeskInit
<1>3. PullInv => WholeOrNamed /\ ReadersMissNothing
  BY DEF PullInv
<1> QED
  BY <1>1, <1>2, <1>3, PTL DEF Spec

\* HistoryIsWhole: and the check of the data can be believed as far as it promises, for any
\* coverage it asks for (assertDataQuality in data-quality.ts).
THEOREM NothingIsMissing == Spec => []HistoryIsWhole
<1> DEFINE J == PullInv /\ CheckCanBeTrusted
<1>1. J /\ [Next]_vars => J'
  BY PullOnly, PullStep, CheckStep
<1>2. Init => J
  BY PullDeskInit
<1>3. J => HistoryIsWhole
  BY DEF PullInv, HistoryIsWhole
<1> QED
  BY <1>1, <1>2, <1>3, PTL DEF Spec

-----------------------------------------------------------------------------
(* What the market service has heard it keeps.                              *)

Shortest == Head(Timeframes)

LEMMA KeysOf ==
  /\ Shortest \in Intervals
  /\ \A s \in Symbols : <<s, Shortest>> \in Keys
  /\ \A k \in Keys : k[1] \in Symbols /\ k[2] \in Intervals
<1>1. 1 \in DOMAIN Timeframes /\ Shortest = Timeframes[1]
  BY StoreAssumption DEF Shortest
<1> QED
  BY <1>1 DEF Intervals, Keys

WriteRow == [rows : SUBSET (Keys \X Int), by : Jobs \cup {"flush"}]

StoreRow == [buffer : [Keys -> Seq(Int)], pending : [Keys -> SUBSET Int], writes : SUBSET WriteRow]

\* What a write stores of a key, and what waits for one, can be counted.
StoreFine(st) ==
  /\ st \in StoreRow
  /\ \A k \in Keys : IsFiniteSet(st.pending[k])
  /\ \A w \in st.writes, k \in Keys : IsFiniteSet(Written(w, k))

Safe(st, k, c) ==
  \/ c \in rows[k] \/ <<k, c>> \in dropped
  \/ \E w \in st.writes : c \in Written(w, k)

\* A candle of the shortest interval never waits from one step to the next, and what is
\* closed of it is safe.
SafeFor(st, k) == st.pending[k] = {} /\ \A i \in 1..(Len(st.buffer[k]) - 1) : Safe(st, k, st.buffer[k][i])

Kept(st) == StoreFine(st) /\ \A s \in Symbols : SafeFor(st, <<s, Shortest>>)

LEMMA LatestOK ==
  ASSUME NEW x \in Seq(Int), NEW n \in Nat \ {0}
  PROVE  /\ Latest(x, n) \in Seq(Int)
         /\ \A i \in 1..(Len(Latest(x, n)) - 1) : \E j \in 1..(Len(x) - 1) : Latest(x, n)[i] = x[j]
<1>1. CASE Len(x) > n
  <2> DEFINE m == Len(x) - n + 1
  <2>1. m \in 1..Len(x) /\ Len(x) \in Nat
    BY <1>1
  <2>2. Latest(x, n) = SubSeq(x, m, Len(x))
    BY <1>1 DEF Latest
  <2>3. /\ SubSeq(x, m, Len(x)) \in Seq(Int) /\ Len(SubSeq(x, m, Len(x))) = n
        /\ \A i \in 1..n : SubSeq(x, m, Len(x))[i] = x[m + i - 1]
    BY <2>1, SubSeqProperties
  <2>4. ASSUME NEW i \in 1..(n - 1) PROVE m + i - 1 \in 1..(Len(x) - 1)
    BY <2>1
  <2>5. \A i \in 1..(n - 1) : Latest(x, n)[i] = x[m + i - 1]
    BY <2>2, <2>3
  <2> HIDE DEF m
  <2> QED
    BY <2>2, <2>3, <2>4, <2>5
<1>2. CASE ~(Len(x) > n)
  BY <1>2 DEF Latest
<1> QED
  BY <1>1, <1>2

LEMMA WrittenIs ==
  ASSUME NEW k, NEW r, NEW by
  PROVE  Written([rows |-> r, by |-> by], k) = {x[2] : x \in {y \in r : y[1] = k}}
BY DEF Written

\* A step that leaves the tables alone, adds writes, and closes only what they hold.
LEMMA StillSafe ==
  ASSUME NEW st, NEW after, NEW k, SafeFor(st, k), st.writes \subseteq after.writes,
         after.pending[k] = {},
         \A i \in 1..(Len(after.buffer[k]) - 1) :
            \/ \E j \in 1..(Len(st.buffer[k]) - 1) : after.buffer[k][i] = st.buffer[k][j]
            \/ \E w \in after.writes : after.buffer[k][i] \in Written(w, k)
  PROVE  SafeFor(after, k)
BY DEF SafeFor, Safe

\* Candles that come in, at most one of a key.
LEMMA UpsertOK ==
  ASSUME NEW st, StoreFine(st), NEW f, DOMAIN f \subseteq Keys, \A k \in DOMAIN f : f[k] \in Int
  PROVE  /\ StoreFine(UpsertAll(st, f)) /\ UpsertAll(st, f).writes = st.writes
         /\ \A k \in Keys : k \notin DOMAIN f \/ ~IsNew(st, k, f[k]) =>
              UpsertAll(st, f).buffer[k] = st.buffer[k] /\ UpsertAll(st, f).pending[k] = st.pending[k]
         /\ \A k \in DOMAIN f : st.buffer[k] # <<>> =>
              \A i \in 1..(Len(UpsertAll(st, f).buffer[k]) - 1) :
                 \E j \in 1..Len(st.buffer[k]) : UpsertAll(st, f).buffer[k][i] = st.buffer[k][j]
         /\ \A k \in DOMAIN f : Closes(st, k, f[k]) =>
              UpsertAll(st, f).pending[k] = {Last(st.buffer[k])} /\ Last(st.buffer[k]) = st.buffer[k][Len(st.buffer[k])]
         /\ \A k \in DOMAIN f : st.buffer[k] = <<>> =>
              UpsertAll(st, f).pending[k] = st.pending[k] /\ Len(UpsertAll(st, f).buffer[k]) = 1
<1> DEFINE up == UpsertAll(st, f)
<1>1. st.buffer \in [Keys -> Seq(Int)] /\ st.pending \in [Keys -> SUBSET Int] /\ st \in StoreRow
  BY DEF StoreFine, StoreRow
<1>2. \A k \in Keys : st.buffer[k] # <<>> => Last(st.buffer[k]) \in Int /\ Last(st.buffer[k]) = st.buffer[k][Len(st.buffer[k])]
  BY <1>1 DEF Last
<1>3. ASSUME NEW k \in DOMAIN f PROVE After(st, k, f[k]) \in Seq(Int)
  <2>1. Append(st.buffer[k], f[k]) \in Seq(Int) /\ st.buffer[k] \in Seq(Int)
    BY <1>1
  <2> QED
    BY <2>1, LatestOK, StoreAssumption DEF After
<1>4. /\ up.buffer = [k \in Keys |-> IF k \in DOMAIN f THEN After(st, k, f[k]) ELSE st.buffer[k]]
      /\ up.pending = [k \in Keys |-> IF k \in DOMAIN f /\ Closes(st, k, f[k])
                                        THEN {Last(st.buffer[k])} ELSE st.pending[k]]
      /\ up.writes = st.writes /\ up = [buffer |-> up.buffer, pending |-> up.pending, writes |-> up.writes]
  <2>1. st = [buffer |-> st.buffer, pending |-> st.pending, writes |-> st.writes]
    BY <1>1 DEF StoreRow
  <2>2. up = [st EXCEPT !.buffer = [k \in Keys |-> IF k \in DOMAIN f THEN After(st, k, f[k]) ELSE st.buffer[k]],
                        !.pending = [k \in Keys |-> IF k \in DOMAIN f /\ Closes(st, k, f[k])
                                       THEN {Last(st.buffer[k])} ELSE st.pending[k]]]
    BY DEF UpsertAll
  <2>4. PICK b, p : /\ up = [st EXCEPT !.buffer = b, !.pending = p]
                  /\ b = [k \in Keys |-> IF k \in DOMAIN f THEN After(st, k, f[k]) ELSE st.buffer[k]]
                  /\ p = [k \in Keys |-> IF k \in DOMAIN f /\ Closes(st, k, f[k])
                                            THEN {Last(st.buffer[k])} ELSE st.pending[k]]
    BY <2>2
  <2> HIDE DEF up
  <2>5. up = [buffer |-> b, pending |-> p, writes |-> st.writes]
    BY <2>1, <2>4
  <2> QED
    BY <2>4, <2>5
<1> HIDE DEF up
<1>5. StoreFine(up)
  <2>1. up.buffer \in [Keys -> Seq(Int)]
    BY <1>1, <1>3, <1>4
  <2>2. \A k \in Keys : up.pending[k] \in SUBSET Int /\ IsFiniteSet(up.pending[k])
    <3> SUFFICES ASSUME NEW k \in Keys PROVE up.pending[k] \in SUBSET Int /\ IsFiniteSet(up.pending[k])
      OBVIOUS
    <3>1. CASE k \in DOMAIN f /\ Closes(st, k, f[k])
      <4>1. up.pending[k] = {Last(st.buffer[k])} /\ Last(st.buffer[k]) \in Int
        BY <1>2, <1>4, <3>1 DEF Closes
      <4> QED
        BY <4>1, FS_Singleton
    <3>2. CASE ~(k \in DOMAIN f /\ Closes(st, k, f[k]))
      BY <1>1, <1>4, <3>2 DEF StoreFine
    <3> QED
      BY <3>1, <3>2
  <2>3. up.pending \in [Keys -> SUBSET Int]
    BY <1>4, <2>2
  <2>4. st.writes \in SUBSET WriteRow
    BY <1>1 DEF StoreRow
  <2>5. up \in StoreRow
    BY <1>4, <2>1, <2>3, <2>4 DEF StoreRow
  <2> QED
    BY <1>4, <2>2, <2>5 DEF StoreFine
<1>6. ASSUME NEW k \in Keys, k \notin DOMAIN f \/ ~IsNew(st, k, f[k])
      PROVE  up.buffer[k] = st.buffer[k] /\ up.pending[k] = st.pending[k]
  BY <1>4, <1>6 DEF After, Closes
<1>7. ASSUME NEW k \in DOMAIN f, st.buffer[k] # <<>>, NEW i \in 1..(Len(up.buffer[k]) - 1)
      PROVE  \E j \in 1..Len(st.buffer[k]) : up.buffer[k][i] = st.buffer[k][j]
  <2>1. st.buffer[k] \in Seq(Int) /\ f[k] \in Int
    BY <1>1
  <2>2. CASE IsNew(st, k, f[k])
    <3> DEFINE x == Append(st.buffer[k], f[k])
    <3>1. x \in Seq(Int) /\ Len(x) = Len(st.buffer[k]) + 1 /\ \A j \in 1..Len(st.buffer[k]) : x[j] = st.buffer[k][j]
      BY <2>1
    <3>2. up.buffer[k] = Latest(x, MaxBuffer)
      BY <1>4, <2>2 DEF After
    <3>3. Len(x) - 1 = Len(st.buffer[k])
      BY <2>1, <3>1
    <3> HIDE DEF x
    <3>4. \E j \in 1..(Len(x) - 1) : Latest(x, MaxBuffer)[i] = x[j]
      <4>1. MaxBuffer \in Nat \ {0} /\ i \in 1..(Len(Latest(x, MaxBuffer)) - 1)
        BY <3>2, StoreAssumption
      <4> QED
        BY <3>1, <4>1, LatestOK
    <3> QED
      BY <3>1, <3>2, <3>3, <3>4
  <2>3. CASE ~IsNew(st, k, f[k])
    <3>1. up.buffer[k] = st.buffer[k]
      BY <1>6, <2>3
    <3> QED
      BY <1>7, <2>1, <3>1
  <2> QED
    BY <2>2, <2>3
<1>8. ASSUME NEW k \in DOMAIN f, Closes(st, k, f[k])
      PROVE  up.pending[k] = {Last(st.buffer[k])} /\ Last(st.buffer[k]) = st.buffer[k][Len(st.buffer[k])]
  BY <1>2, <1>4, <1>8 DEF Closes
<1>9. ASSUME NEW k \in DOMAIN f, st.buffer[k] = <<>>
      PROVE  up.pending[k] = st.pending[k] /\ Len(up.buffer[k]) = 1
  <2>1. up.buffer[k] = Latest(Append(<<>>, f[k]), MaxBuffer) /\ ~Closes(st, k, f[k])
    BY <1>4, <1>9 DEF After, IsNew, Closes
  <2>2. Len(Append(<<>>, f[k])) = 1 /\ ~(1 > MaxBuffer)
    BY StoreAssumption
  <2>3. up.buffer[k] = Append(<<>>, f[k])
    BY <2>1, <2>2 DEF Latest
  <2> QED
    BY <1>4, <2>1, <2>2, <2>3
<1> QED
  BY <1>4, <1>5, <1>6, <1>7, <1>8, <1>9 DEF up

LEMMA FlushOK ==
  ASSUME NEW st, StoreFine(st)
  PROVE  /\ StoreFine(Flush(st)) /\ Flush(st).buffer = st.buffer /\ st.writes \subseteq Flush(st).writes
         /\ \A k \in Keys : Flush(st).pending[k] = {}
         /\ \A k \in Keys : \A c \in st.pending[k] : \E w \in Flush(st).writes : c \in Written(w, k)
<1>1. st.pending \in [Keys -> SUBSET Int] /\ st \in StoreRow
  BY DEF StoreFine, StoreRow
<1>2. \A x : x \in Waiting(st) <=> \E k \in Keys : x \in {k} \X st.pending[k]
  BY DEF Waiting
<1>3. CASE Waiting(st) = {}
  <2>1. \A k \in Keys : \A c \in st.pending[k] : FALSE
    <3> SUFFICES ASSUME NEW k \in Keys, NEW c \in st.pending[k] PROVE FALSE
      OBVIOUS
    <3>1. <<k, c>> \in {k} \X st.pending[k]
      OBVIOUS
    <3> QED
      BY <1>2, <1>3, <3>1
  <2>2. Flush(st) = st
    BY <1>3 DEF Flush
  <2> QED
    BY <2>1, <2>2
<1>4. CASE Waiting(st) # {}
  <2> DEFINE w0 == [rows |-> Waiting(st), by |-> "flush"]
             none == [k \in Keys |-> {}]
  <2>1. st = [buffer |-> st.buffer, pending |-> st.pending, writes |-> st.writes]
    BY <1>1 DEF StoreRow
  <2>2. Flush(st) = [st EXCEPT !.pending = none, !.writes = @ \cup {w0}]
    BY <1>4 DEF Flush
  <2>3. Flush(st) = [buffer |-> st.buffer, pending |-> none, writes |-> st.writes \cup {w0}]
    <3> HIDE DEF none, w0
    <3> QED
      BY <2>1, <2>2
  <2>4. Waiting(st) \subseteq Keys \X Int
    BY <1>1, <1>2
  <2>5. w0 \in WriteRow
    BY <2>4 DEF WriteRow
  <2>6. \A k \in Keys : Written(w0, k) = st.pending[k]
    <3> SUFFICES ASSUME NEW k \in Keys PROVE Written(w0, k) = st.pending[k]
      OBVIOUS
    <3>1. Written(w0, k) = {x[2] : x \in {y \in Waiting(st) : y[1] = k}}
      BY DEF Written
    <3>2. ASSUME NEW c \in Written(w0, k) PROVE c \in st.pending[k]
      <4>1. PICK x \in Waiting(st) : x[1] = k /\ c = x[2]
        BY <3>1, <3>2
      <4>2. PICK j \in Keys : x \in {j} \X st.pending[j]
        BY <1>2, <4>1
      <4> QED
        BY <4>1, <4>2
    <3>3. ASSUME NEW c \in st.pending[k] PROVE c \in Written(w0, k)
      <4>1. <<k, c>> \in {k} \X st.pending[k]
        OBVIOUS
      <4>2. <<k, c>> \in Waiting(st) /\ <<k, c>>[1] = k /\ <<k, c>>[2] = c
        BY <1>2, <4>1
      <4> QED
        BY <3>1, <4>2
    <3> QED
      BY <3>2, <3>3
  <2> HIDE DEF w0
  <2>7. none \in [Keys -> SUBSET Int]
    OBVIOUS
  <2>8. Flush(st) \in StoreRow
    BY <1>1, <2>3, <2>5, <2>7 DEF StoreRow
  <2>9. StoreFine(Flush(st))
    BY <2>3, <2>6, <2>8, FS_EmptySet DEF StoreFine
  <2> QED
    BY <2>3, <2>6, <2>9
<1> QED
  BY <1>3, <1>4

LEMMA OpeningOK == now \in Int => \A i \in Intervals : Opening(i, now) \in Int /\ Step[i] \in Int
BY MarketAssumption DEF Opening

\* The longer intervals of a symbol follow; the shortest one is not touched.
LEMMA FollowOK ==
  ASSUME NEW st, StoreFine(st), NEW s \in Symbols, now \in Int
  PROVE  /\ StoreFine(Follow(st, s)) /\ Follow(st, s).writes = st.writes
         /\ \A x \in Symbols : LET k == <<x, Shortest>> IN
               Follow(st, s).buffer[k] = st.buffer[k] /\ Follow(st, s).pending[k] = st.pending[k]
<1> DEFINE follow == {k \in Keys : k[1] = s /\ k[2] # Head(Timeframes) /\ st.buffer[k] # <<>>}
           f == [k \in follow |-> Opening(k[2], now)]
<1>1. Follow(st, s) = UpsertAll(st, f)
  BY DEF Follow
<1>2. DOMAIN f \subseteq Keys /\ \A k \in DOMAIN f : f[k] \in Int
  BY KeysOf, OpeningOK
<1>3. \A x \in Symbols : <<x, Shortest>> \in Keys /\ <<x, Shortest>> \notin DOMAIN f
  BY KeysOf DEF Shortest
<1> HIDE DEF f
<1> QED
  BY <1>1, <1>2, <1>3, UpsertOK

\* A candle of the stream: what it closes is in a write when it returns.
LEMMA ApplyCandleOK ==
  ASSUME NEW st, Kept(st), NEW s \in Symbols, NEW c \in Int, now \in Int
  PROVE  Kept(ApplyCandle(st, s, c))
<1> DEFINE k == <<s, Shortest>>
           f == [x \in {k} |-> c]
           put == Upsert(st, k, c)
           followed == IF IsNew(st, k, c) THEN Follow(put, s) ELSE put
           after == IF Closes(st, k, c) THEN Flush(followed) ELSE followed
<1>1. k \in Keys /\ DOMAIN f \subseteq Keys /\ k \in DOMAIN f /\ f[k] = c /\ \A x \in DOMAIN f : f[x] \in Int
  BY KeysOf
<1>2. put = UpsertAll(st, f) /\ StoreFine(st)
  BY DEF Upsert, Kept
<1>0. ApplyCandle(st, s, c) = after
  BY DEF ApplyCandle, Shortest
<1> HIDE DEF f, put
<1>3. StoreFine(put) /\ put.writes = st.writes
  BY <1>1, <1>2, UpsertOK
<1>4. StoreFine(followed) /\ followed.writes = st.writes
  BY <1>3, FollowOK
<1>5. \A x \in Symbols : LET y == <<x, Shortest>> IN
        followed.buffer[y] = put.buffer[y] /\ followed.pending[y] = put.pending[y]
  BY <1>3, FollowOK
<1> HIDE DEF followed
<1>6. StoreFine(after) /\ st.writes \subseteq after.writes /\ after.buffer = followed.buffer
  BY <1>4, FlushOK
<1>7. ASSUME NEW x \in Symbols PROVE SafeFor(after, <<x, Shortest>>)
  <2> DEFINE y == <<x, Shortest>>
  <2> SUFFICES SafeFor(after, y)
    OBVIOUS
  <2>1. y \in Keys /\ SafeFor(st, y) /\ st.pending[y] = {}
    BY KeysOf DEF Kept, SafeFor
  <2>2. after.buffer[y] = put.buffer[y]
    BY <1>5, <1>6
  <2>3. CASE y # k
    <3>1. y \notin DOMAIN f
      BY <2>3 DEF f
    <3>2. put.buffer[y] = st.buffer[y] /\ put.pending[y] = st.pending[y]
      BY <1>1, <1>2, <2>1, <3>1, UpsertOK
    <3>3. after.pending[y] = {}
      BY <1>4, <1>5, <2>1, <3>2, FlushOK
    <3> HIDE DEF after, y
    <3> QED
      BY <1>6, <2>1, <2>2, <3>2, <3>3, StillSafe
  <2>4. CASE y = k /\ ~IsNew(st, k, c)
    <3>1. put.buffer[y] = st.buffer[y] /\ put.pending[y] = st.pending[y]
      BY <1>1, <1>2, <2>1, <2>4, UpsertOK
    <3>2. after.pending[y] = {}
      BY <1>4, <1>5, <2>1, <3>1, FlushOK
    <3> HIDE DEF after, y
    <3> QED
      BY <1>6, <2>1, <2>2, <3>1, <3>2, StillSafe
  <2>5. CASE y = k /\ IsNew(st, k, c) /\ st.buffer[k] = <<>>
    <3>1. put.pending[y] = st.pending[y] /\ Len(put.buffer[y]) = 1
      BY <1>1, <1>2, <2>5, UpsertOK
    <3>2. after = followed
      BY <2>5 DEF Closes
    <3>3. after.pending[y] = {}
      BY <1>5, <2>1, <3>1, <3>2
    <3>4. after.pending[y] = {} /\ Len(after.buffer[y]) = 1
      BY <2>2, <3>1, <3>3
    <3> HIDE DEF after, y
    <3> QED
      BY <3>4, \A n \in {1} : 1..(n - 1) = {} DEF SafeFor
  <2>6. CASE y = k /\ IsNew(st, k, c) /\ st.buffer[k] # <<>>
    <3>1. Closes(st, k, c) /\ after = Flush(followed)
      BY <2>6 DEF Closes
    <3>2. put.pending[y] = {Last(st.buffer[y])} /\ Last(st.buffer[y]) = st.buffer[y][Len(st.buffer[y])]
      BY <1>1, <1>2, <2>6, <3>1, UpsertOK
    <3>3. \A i \in 1..(Len(put.buffer[y]) - 1) : \E j \in 1..Len(st.buffer[y]) : put.buffer[y][i] = st.buffer[y][j]
      <4>1. StoreFine(st) /\ DOMAIN f \subseteq Keys /\ \A z \in DOMAIN f : f[z] \in Int
        BY <1>1, <1>2
      <4>2. put = UpsertAll(st, f) /\ y \in DOMAIN f /\ st.buffer[y] # <<>>
        BY <1>1, <1>2, <2>6
      <4> HIDE DEF y
      <4> QED
        BY <4>1, <4>2, UpsertOK
    <3>4. /\ after.pending[y] = {} /\ \E w \in after.writes : Last(st.buffer[y]) \in Written(w, y)
      BY <1>4, <1>5, <2>1, <3>1, <3>2, FlushOK
    <3>5. Len(st.buffer[y]) \in Nat
      BY <1>2, <2>1 DEF StoreFine, StoreRow
    <3> HIDE DEF after, y
    <3>6. ASSUME NEW i \in 1..(Len(after.buffer[y]) - 1)
          PROVE  \/ \E j \in 1..(Len(st.buffer[y]) - 1) : after.buffer[y][i] = st.buffer[y][j]
                 \/ \E w \in after.writes : after.buffer[y][i] \in Written(w, y)
      <4>1. PICK j \in 1..Len(st.buffer[y]) : after.buffer[y][i] = st.buffer[y][j]
        BY <2>2, <3>3
      <4>2. CASE j = Len(st.buffer[y])
        BY <3>2, <3>4, <4>1, <4>2
      <4>3. CASE j # Len(st.buffer[y])
        BY <3>5, <4>1, <4>3
      <4> QED
        BY <4>2, <4>3
    <3> QED
      BY <1>6, <2>1, <3>4, <3>6, StillSafe
  <2> QED
    BY <2>3, <2>4, <2>5, <2>6
<1> QED
  BY <1>0, <1>6, <1>7 DEF Kept

\* A buffer is replaced and all of it is in the write.
LEMMA ReplaceOK ==
  ASSUME NEW st, Kept(st), NEW k \in Keys, NEW h \in Seq(Int), NEW j \in Jobs
  PROVE  Kept(PersistAll(ReplaceBuffer(st, k, h), k, j))
<1> DEFINE b == Latest(h, MaxBuffer)
           w0 == [rows |-> {<<k, c>> : c \in ToSet(b)}, by |-> j]
           after == PersistAll(ReplaceBuffer(st, k, h), k, j)
<1>1. b \in Seq(Int) /\ st \in StoreRow /\ StoreFine(st)
  BY LatestOK, StoreAssumption DEF Kept, StoreFine
<1>2. st = [buffer |-> st.buffer, pending |-> st.pending, writes |-> st.writes]
  BY <1>1 DEF StoreRow
<1>3. DOMAIN b = 1..Len(b) /\ Len(b) \in Nat /\ \A i \in 1..Len(b) : b[i] \in Int
  BY <1>1
<1>4. ToSet(b) = {b[i] : i \in 1..Len(b)}
  BY <1>3 DEF ToSet
<1> HIDE DEF b
<1>5. ReplaceBuffer(st, k, h) = [buffer |-> [st.buffer EXCEPT ![k] = b], pending |-> st.pending, writes |-> st.writes]
  BY <1>2 DEF ReplaceBuffer, b
<1>6. ReplaceBuffer(st, k, h).buffer[k] = b
  BY <1>1, <1>5 DEF StoreRow
<1>7. after = [buffer |-> [st.buffer EXCEPT ![k] = b], pending |-> st.pending, writes |-> st.writes \cup {w0}]
  <2>1. after = [ReplaceBuffer(st, k, h) EXCEPT !.writes = @ \cup {w0}]
    BY <1>6 DEF PersistAll
  <2> DEFINE new == [st.buffer EXCEPT ![k] = b]
  <2> HIDE DEF w0
  <2>2. PICK rb : rb = [buffer |-> new, pending |-> st.pending, writes |-> st.writes]
                  /\ after = [rb EXCEPT !.writes = @ \cup {w0}]
    BY <1>5, <2>1
  <2> HIDE DEF after, new
  <2>3. after = [buffer |-> new, pending |-> st.pending, writes |-> st.writes \cup {w0}]
    BY <2>2
  <2> QED
    BY <2>3 DEF new
<1>8. \A x : Written(w0, x) = IF x = k THEN ToSet(b) ELSE {}
  <2> SUFFICES ASSUME NEW x PROVE Written(w0, x) = IF x = k THEN ToSet(b) ELSE {}
    OBVIOUS
  <2>1. Written(w0, x) = {y[2] : y \in {z \in {<<k, c>> : c \in ToSet(b)} : z[1] = x}}
    BY DEF Written
  <2>2. ASSUME NEW c \in Written(w0, x) PROVE x = k /\ c \in ToSet(b)
    <3>1. PICK y \in {<<k, i>> : i \in ToSet(b)} : y[1] = x /\ c = y[2]
      BY <2>1
    <3>2. PICK i \in ToSet(b) : y = <<k, i>>
      BY <3>1
    <3> QED
      BY <3>1, <3>2
  <2>3. ASSUME NEW c \in ToSet(b), x = k PROVE c \in Written(w0, x)
    <3>1. <<k, c>> \in {<<k, i>> : i \in ToSet(b)} /\ <<k, c>>[1] = x /\ <<k, c>>[2] = c
      BY <2>3
    <3> QED
      BY <2>1, <3>1
  <2> QED
    BY <2>2, <2>3
<1>9. w0 \in WriteRow
  BY <1>3, <1>4 DEF WriteRow
<1>10. IsFiniteSet(ToSet(b))
  <2>1. b \in Surjection(1..Len(b), ToSet(b))
    BY <1>1, <1>3, <1>4 DEF Surjection
  <2>2. IsFiniteSet(1..Len(b))
    BY <1>3, FS_Interval
  <2> QED
    BY <2>1, <2>2, FS_Surjection
<1> HIDE DEF w0, after
<1>11. StoreFine(after)
  <2>1. after \in StoreRow
    BY <1>1, <1>7, <1>9 DEF StoreRow
  <2> QED
    BY <1>1, <1>7, <1>8, <1>10, <2>1, FS_EmptySet DEF StoreFine
<1>12. ASSUME NEW x \in Symbols PROVE SafeFor(after, <<x, Shortest>>)
  <2> DEFINE y == <<x, Shortest>>
  <2> SUFFICES SafeFor(after, y)
    OBVIOUS
  <2>1. y \in Keys /\ SafeFor(st, y) /\ st.pending[y] = {}
    BY KeysOf DEF Kept, SafeFor
  <2>2. after.pending[y] = {} /\ st.writes \subseteq after.writes /\ w0 \in after.writes
    BY <1>7, <2>1
  <2>3. after.buffer[y] = IF y = k THEN b ELSE st.buffer[y]
    BY <1>1, <1>7, <2>1 DEF StoreRow
  <2> HIDE DEF y
  <2>4. CASE y # k
    BY <2>1, <2>2, <2>3, <2>4, StillSafe
  <2>5. CASE y = k
    <3>1. \A i \in 1..(Len(b) - 1) : b[i] \in Written(w0, y)
      BY <1>3, <1>4, <1>8, <2>5
    <3> QED
      BY <2>1, <2>2, <2>3, <2>5, <3>1, StillSafe
  <2> QED
    BY <2>4, <2>5
<1> QED
  BY <1>11, <1>12 DEF Kept, after

\* Every rank below their number is that of one of finitely many numbers.
LEMMA EveryRank ==
  ASSUME NEW S, S \subseteq Int, IsFiniteSet(S), NEW m \in 0..(Cardinality(S) - 1)
  PROVE  \E c \in S : Cardinality({d \in S : d < c}) = m
<1> DEFINE Less(c) == {d \in S : d < c}
           f == [c \in S |-> Cardinality(Less(c))]
           N == 0..(Cardinality(S) - 1)
<1>1. Cardinality(S) \in Nat
  BY FS_CardinalityType
<1>2. \A c \in S : IsFiniteSet(Less(c)) /\ Cardinality(Less(c)) \in Nat
  <2> SUFFICES ASSUME NEW c \in S PROVE IsFiniteSet(Less(c)) /\ Cardinality(Less(c)) \in Nat
    OBVIOUS
  <2>1. Less(c) \in SUBSET S
    OBVIOUS
  <2> QED
    BY <2>1, FS_Subset, FS_CardinalityType
<1>3. ASSUME NEW c \in S PROVE Cardinality(Less(c)) < Cardinality(S)
  <2>1. Less(c) \in SUBSET S /\ ~(Less(c) = S)
    <3>1. c \notin Less(c)
      OBVIOUS
    <3> QED
      BY <3>1
  <2>2. Cardinality(Less(c)) <= Cardinality(S) /\ Cardinality(Less(c)) # Cardinality(S)
    BY <2>1, FS_Subset
  <2>3. Cardinality(Less(c)) \in Nat
    BY <1>2
  <2> HIDE DEF Less
  <2> QED
    BY <1>1, <2>2, <2>3
<1>4. ASSUME NEW c \in S, NEW e \in S, c < e PROVE Cardinality(Less(c)) < Cardinality(Less(e))
  <2>1. Less(c) \in SUBSET Less(e) /\ c \in Less(e) /\ c \notin Less(c)
    <3>1. ASSUME NEW d \in Less(c) PROVE d \in Less(e)
      <4>1. d \in S /\ d < c /\ d \in Int /\ c \in Int /\ e \in Int
        OBVIOUS
      <4>2. d < e
        BY <1>4, <4>1
      <4> QED
        BY <4>1, <4>2
    <3>2. c \in Less(e)
      BY <1>4
    <3>3. c \notin Less(c)
      OBVIOUS
    <3> QED
      BY <3>1, <3>2, <3>3
  <2>2. IsFiniteSet(Less(e)) /\ Less(c) # Less(e)
    BY <1>2, <2>1
  <2>3. Cardinality(Less(c)) <= Cardinality(Less(e)) /\ Cardinality(Less(c)) # Cardinality(Less(e))
    BY <2>1, <2>2, FS_Subset
  <2>4. Cardinality(Less(c)) \in Nat /\ Cardinality(Less(e)) \in Nat
    BY <1>2
  <2> HIDE DEF Less
  <2> QED
    BY <2>3, <2>4
<1> HIDE DEF Less
<1>5. f \in [S -> N]
  BY <1>1, <1>2, <1>3
<1>6. \A c, e \in S : f[c] = f[e] => c = e
  <2> SUFFICES ASSUME NEW c \in S, NEW e \in S, f[c] = f[e], c # e PROVE FALSE
    OBVIOUS
  <2>1. c < e \/ e < c
    OBVIOUS
  <2>2. Cardinality(Less(c)) = Cardinality(Less(e)) /\ Cardinality(Less(c)) \in Nat
    BY <1>2
  <2> QED
    BY <1>4, <2>1, <2>2
<1>7. f \in Injection(S, N)
  BY <1>5, <1>6 DEF Injection, IsInjective
<1>8. IsFiniteSet(N) /\ Cardinality(N) = Cardinality(S)
  BY <1>1, FS_Interval
<1>9. f \in Surjection(S, N)
  <2> HIDE DEF f, N
  <2> QED
    BY <1>7, <1>8, FS_Injection
<1>10. PICK c \in S : f[c] = m
  BY <1>9 DEF Surjection
<1> QED
  BY <1>10 DEF Less

RowsFinite == rows \in [Keys -> SUBSET Int] /\ \A k \in Keys : IsFiniteSet(rows[k])

LEMMA LoadIs ==
  ASSUME RowsFinite, NEW k \in Keys
  PROVE  Load(k) \in Seq(Int) /\ \A i \in 1..Len(Load(k)) : Load(k)[i] \in rows[k]
<1> DEFINE S == rows[k]
           count == Cardinality(S)
           n == IF count < HistoryCount[k[2]] THEN count ELSE HistoryCount[k[2]]
           Nth(i) == CHOOSE c \in S : Cardinality({d \in S : d < c}) = i - 1
<1>1. S \subseteq Int /\ IsFiniteSet(S) /\ count \in Nat
  BY FS_CardinalityType DEF RowsFinite
<1>2. HistoryCount[k[2]] \in Nat
  BY KeysOf, StoreAssumption
<1>3. n \in Nat /\ n <= count
  BY <1>1, <1>2
<1>4. ASSUME NEW i \in 1..n PROVE Nth(i) \in S
  <2>1. i - 1 \in 0..(Cardinality(S) - 1)
    BY <1>1, <1>3
  <2>2. \E c \in S : Cardinality({d \in S : d < c}) = i - 1
    BY <1>1, <2>1, EveryRank
  <2> QED
    BY <2>2
<1>5. Load(k) = [i \in 1..n |-> Nth(i)]
  BY DEF Load
<1> HIDE DEF n, Nth
<1>6. Load(k) \in [1..n -> Int]
  BY <1>1, <1>4, <1>5
<1>7. Load(k) \in Seq(Int) /\ Len(Load(k)) = n
  BY <1>3, <1>6
<1> QED
  BY <1>4, <1>5, <1>7

LEMMA KeptNext ==
  ASSUME Kept(store'), UNCHANGED <<rows, dropped>>
  PROVE  Kept(store)'
<1>1. \A k, c : Safe(store', k, c) => Safe(store, k, c)'
  BY DEF Safe, Written
<1>2. \A k : SafeFor(store', k) => SafeFor(store, k)'
  BY <1>1 DEF SafeFor
<1>3. StoreFine(store)' /\ \A s \in Symbols : SafeFor(store', <<s, Shortest>>)
  BY DEF Kept, StoreFine, StoreRow, Written
<1> QED
  BY <1>2, <1>3 DEF Kept, Shortest

LEMMA LoadRowsOK ==
  ASSUME RowsFinite, Kept(store), NEW j, LoadRows(j)
  PROVE  Kept(store)'
<1> DEFINE new == [k \in Keys |-> IF k[1] = job[j].sym /\ rows[k] # {} THEN Load(k) ELSE store.buffer[k]]
<1>1. store \in StoreRow /\ StoreFine(store)
  BY DEF Kept, StoreFine
<1>2. store = [buffer |-> store.buffer, pending |-> store.pending, writes |-> store.writes]
  BY <1>1 DEF StoreRow
<1>3. store' = [store EXCEPT !.buffer = new]
  BY DEF LoadRows
<1>4. store' = [buffer |-> new, pending |-> store.pending, writes |-> store.writes]
  <2> HIDE DEF new
  <2> QED
    BY <1>2, <1>3
<1>5. new \in [Keys -> Seq(Int)]
  BY <1>1, LoadIs DEF StoreRow
<1>6. StoreFine(store')
  <2> HIDE DEF new
  <2> QED
    BY <1>1, <1>4, <1>5 DEF StoreFine, StoreRow
<1>7. ASSUME NEW s \in Symbols PROVE SafeFor(store', <<s, Shortest>>)
  <2> DEFINE k == <<s, Shortest>>
  <2> SUFFICES SafeFor(store', k)
    OBVIOUS
  <2>1. k \in Keys /\ SafeFor(store, k) /\ new[k] = IF k[1] = job[j].sym /\ rows[k] # {} THEN Load(k) ELSE store.buffer[k]
    BY KeysOf DEF Kept
  <2>2. \A c : Safe(store, k, c) => Safe(store', k, c)
    BY <1>4 DEF Safe
  <2>3. Load(k) \in Seq(Int) /\ \A i \in 1..Len(Load(k)) : Load(k)[i] \in rows[k]
    BY <2>1, LoadIs
  <2> HIDE DEF k, new
  <2>4. CASE new[k] = Load(k)
    <3>1. \A i \in 1..(Len(Load(k)) - 1) : Safe(store', k, Load(k)[i])
      BY <2>3 DEF Safe
    <3> QED
      BY <1>4, <2>1, <2>4, <3>1 DEF SafeFor
  <2>5. CASE new[k] = store.buffer[k]
    BY <1>4, <2>1, <2>2, <2>5 DEF SafeFor
  <2> QED
    BY <2>1, <2>4, <2>5
<1> QED
  BY <1>6, <1>7, KeptNext DEF Kept, LoadRows

\* A write returns: its candles are in the table, or known to be gone.
LEMMA WriteReturnsOK ==
  ASSUME RowsFinite, Kept(store), NEW w \in store.writes, NEW stored, WriteReturns(w, stored)
  PROVE  Kept(store)' /\ RowsFinite'
<1>1. store \in StoreRow /\ StoreFine(store) /\ w \in WriteRow
  BY DEF Kept, StoreFine, StoreRow
<1>2. store = [buffer |-> store.buffer, pending |-> store.pending, writes |-> store.writes]
  BY <1>1 DEF StoreRow
<1>3. store' = [buffer |-> store.buffer, pending |-> store.pending, writes |-> store.writes \ {w}]
  BY <1>2 DEF WriteReturns
<1>4. \A k \in Keys : Written(w, k) \subseteq Int /\ IsFiniteSet(Written(w, k)) /\ \A c \in Written(w, k) : <<k, c>> \in w.rows
  <2> SUFFICES ASSUME NEW k \in Keys, NEW c \in Written(w, k) PROVE c \in Int /\ <<k, c>> \in w.rows
    BY <1>1 DEF StoreFine
  <2>1. PICK x \in w.rows : x[1] = k /\ c = x[2]
    BY DEF Written
  <2>2. x \in Keys \X Int
    BY <1>1 DEF WriteRow
  <2>3. x = <<k, c>>
    BY <2>1, <2>2
  <2> QED
    BY <2>2, <2>3
<1>5. \/ rows' = [k \in Keys |-> rows[k] \cup Written(w, k)] /\ dropped' = dropped
      \/ rows' = rows /\ dropped' = dropped \cup w.rows
  BY DEF WriteReturns, Committed
<1>6. \A k \in Keys : rows[k] \subseteq rows'[k]
  BY <1>5
<1>7. RowsFinite'
  <2>1. CASE rows' = rows
    BY <2>1 DEF RowsFinite, Keys, Intervals
  <2>2. CASE rows' = [k \in Keys |-> rows[k] \cup Written(w, k)]
    <3>1. \A k \in Keys : IsFiniteSet(rows[k] \cup Written(w, k))
      BY <1>4, FS_Union DEF RowsFinite
    <3>2. rows' \in [Keys -> SUBSET Int]
      BY <1>4, <2>2 DEF RowsFinite
    <3> QED
      BY <2>2, <3>1, <3>2 DEF RowsFinite
  <2> QED
    BY <1>5, <2>1, <2>2
<1>8. ASSUME NEW k \in Keys, NEW c, Safe(store, k, c) PROVE Safe(store, k, c)'
  <2>1. CASE c \in rows[k] \/ <<k, c>> \in dropped
    BY <1>5, <1>6, <2>1 DEF Safe
  <2>2. CASE \E v \in store.writes : c \in Written(v, k)
    <3>1. PICK v \in store.writes : c \in Written(v, k)
      BY <2>2
    <3>2. CASE v # w
      <4>1. v \in store'.writes
        BY <1>3, <3>2
      <4> QED
        BY <3>1, <4>1 DEF Safe, Written
    <3>3. CASE v = w
      <4>1. c \in rows'[k] \/ <<k, c>> \in dropped'
        BY <1>4, <1>5, <3>1, <3>3
      <4> QED
        BY <4>1 DEF Safe
    <3> QED
      BY <3>2, <3>3
  <2> QED
    BY <1>8, <2>1, <2>2 DEF Safe
<1>9. StoreFine(store)'
  BY <1>1, <1>3 DEF StoreFine, StoreRow, Written
<1>10. ASSUME NEW s \in Symbols PROVE SafeFor(store, <<s, Shortest>>)'
  <2> DEFINE k == <<s, Shortest>>
  <2>1. k \in Keys /\ SafeFor(store, k)
    BY KeysOf DEF Kept
  <2>2. store'.pending[k] = {} /\ store'.buffer[k] = store.buffer[k]
    BY <1>3, <2>1 DEF SafeFor
  <2>3. \A i \in 1..(Len(store.buffer[k]) - 1) : Safe(store, k, store.buffer[k][i])'
    BY <1>3, <1>8, <2>1 DEF SafeFor
  <2> QED
    BY <2>2, <2>3 DEF SafeFor, Shortest
<1> QED
  BY <1>7, <1>9, <1>10 DEF Kept

\* A simulated price closes a candle of the shortest interval only into a write.
LEMMA PumpOK ==
  ASSUME Kept(store), now \in Int, PumpSimulation
  PROVE  Kept(store)'
<1> DEFINE priced == {k \in Keys : k[1] \in feeds /\ Has(k)}
           f == [k \in priced |-> Opening(k[2], now)]
           closing == {k \in priced : Closes(store, k, Opening(k[2], now))}
           put == UpsertAll(store, f)
           own(k) == {<<k, Last(Buffered(k))>>}
           sent(k, first) == IF k = first THEN own(k) \cup {x \in Waiting(store) : x[1] # k} ELSE own(k)
           flushed(first) == {[rows |-> sent(k, first), by |-> "flush"] : k \in closing}
           none == [k \in Keys |-> {}]
<1>1. StoreFine(store) /\ store \in StoreRow
  BY DEF Kept, StoreFine
<1>2. DOMAIN f = priced /\ DOMAIN f \subseteq Keys /\ \A k \in DOMAIN f : f[k] \in Int /\ f[k] = Opening(k[2], now)
  BY KeysOf, OpeningOK
<1>3. \A k \in priced : store.buffer[k] # <<>>
  BY DEF Has, Buffered
<1>4. closing \subseteq priced /\ \A k \in priced : k \in closing <=> Closes(store, k, f[k])
  BY <1>2
<1>5. \/ closing = {} /\ store' = put
      \/ \E first \in closing : store' = [put EXCEPT !.pending = none, !.writes = @ \cup flushed(first)]
  BY DEF PumpSimulation
<1> HIDE DEF f
<1>6. StoreFine(put) /\ put.writes = store.writes /\ put \in StoreRow
  BY <1>1, <1>2, UpsertOK DEF StoreFine
<1>7. \A k \in Keys : k \notin closing => put.buffer[k] = store.buffer[k] /\ put.pending[k] = store.pending[k]
  <2> SUFFICES ASSUME NEW k \in Keys, k \notin closing
               PROVE  put.buffer[k] = store.buffer[k] /\ put.pending[k] = store.pending[k]
    OBVIOUS
  <2>1. k \notin DOMAIN f \/ ~IsNew(store, k, f[k])
    BY <1>2, <1>3, <1>4 DEF Closes
  <2> QED
    BY <1>1, <1>2, <2>1, UpsertOK
<1>8. \A k \in closing :
        /\ Last(store.buffer[k]) = store.buffer[k][Len(store.buffer[k])] /\ Last(store.buffer[k]) \in Int
        /\ \A i \in 1..(Len(put.buffer[k]) - 1) : \E j \in 1..Len(store.buffer[k]) : put.buffer[k][i] = store.buffer[k][j]
  <2> SUFFICES ASSUME NEW k \in closing
               PROVE  /\ Last(store.buffer[k]) = store.buffer[k][Len(store.buffer[k])] /\ Last(store.buffer[k]) \in Int
                      /\ \A i \in 1..(Len(put.buffer[k]) - 1) :
                           \E j \in 1..Len(store.buffer[k]) : put.buffer[k][i] = store.buffer[k][j]
    OBVIOUS
  <2>1. k \in DOMAIN f /\ store.buffer[k] # <<>> /\ Closes(store, k, f[k]) /\ k \in Keys
    BY <1>2, <1>3, <1>4
  <2>2. store.buffer[k] \in Seq(Int)
    BY <1>1, <2>1 DEF StoreRow
  <2>3. Last(store.buffer[k]) = store.buffer[k][Len(store.buffer[k])] /\ Last(store.buffer[k]) \in Int
    BY <2>1, <2>2 DEF Last
  <2> QED
    BY <1>1, <1>2, <2>1, <2>3, UpsertOK
<1> HIDE DEF put, closing
<1>9. CASE closing = {} /\ store' = put
  <2>1. ASSUME NEW s \in Symbols PROVE SafeFor(put, <<s, Shortest>>)
    <3> DEFINE k == <<s, Shortest>>
    <3> SUFFICES SafeFor(put, k)
      OBVIOUS
    <3>1. k \in Keys /\ SafeFor(store, k) /\ k \notin closing
      BY <1>9, KeysOf DEF Kept
    <3> HIDE DEF k
    <3>2. put.buffer[k] = store.buffer[k] /\ put.pending[k] = {}
      BY <1>7, <3>1 DEF SafeFor
    <3> QED
      BY <1>6, <3>1, <3>2, StillSafe
  <2> QED
    BY <1>6, <1>9, <2>1, KeptNext DEF Kept, PumpSimulation
<1>10. CASE \E first \in closing : store' = [put EXCEPT !.pending = none, !.writes = @ \cup flushed(first)]
  <2>1. PICK first \in closing : store' = [put EXCEPT !.pending = none, !.writes = @ \cup flushed(first)]
    BY <1>10
  <2> DEFINE more == flushed(first)
  <2>2. put = [buffer |-> put.buffer, pending |-> put.pending, writes |-> put.writes]
    BY <1>6 DEF StoreRow
  <2>3. store' = [buffer |-> put.buffer, pending |-> none, writes |-> store.writes \cup more]
    <3>1. store' = [put EXCEPT !.pending = none, !.writes = @ \cup more]
      BY <2>1
    <3> HIDE DEF none, more
    <3>2. store' = [buffer |-> put.buffer, pending |-> none, writes |-> put.writes \cup more]
      BY <2>2, <3>1
    <3> QED
      BY <1>6, <3>2
  <2>4. \A x : x \in Waiting(store) <=> \E k \in Keys : x \in {k} \X store.pending[k]
    BY DEF Waiting
  <2>5. store.pending \in [Keys -> SUBSET Int]
    BY <1>1 DEF StoreRow
  <2>6. Waiting(store) \subseteq Keys \X Int
    BY <2>4, <2>5
  <2>7. \A k \in closing : k \in Keys /\ own(k) \subseteq Keys \X Int
    BY <1>2, <1>4, <1>8 DEF Buffered
  <2>8. \A k \in closing : sent(k, first) \subseteq Keys \X Int
    <3> HIDE DEF own
    <3> QED
      BY <2>6, <2>7
  <2>9. \A w \in more : w \in WriteRow
    <3> HIDE DEF sent
    <3> QED
      BY <2>8 DEF WriteRow
  <2>10. \A w \in more, k \in Keys : IsFiniteSet(Written(w, k))
    <3> SUFFICES ASSUME NEW w \in more, NEW k \in Keys PROVE IsFiniteSet(Written(w, k))
      OBVIOUS
    <3>1. PICK q \in closing : w = [rows |-> sent(q, first), by |-> "flush"]
      OBVIOUS
    <3>2. \A x \in w.rows : x = <<q, Last(store.buffer[q])>> \/ x \in Waiting(store)
      BY <3>1 DEF Buffered
    <3>3. \A c \in Written(w, k) : c = Last(store.buffer[q]) \/ c \in store.pending[k]
      <4> SUFFICES ASSUME NEW c \in Written(w, k) PROVE c = Last(store.buffer[q]) \/ c \in store.pending[k]
        OBVIOUS
      <4>1. PICK x \in w.rows : x[1] = k /\ c = x[2]
        BY DEF Written
      <4>2. CASE x = <<q, Last(store.buffer[q])>>
        BY <4>1, <4>2
      <4>3. CASE x \in Waiting(store)
        <5>1. PICK i \in Keys : x \in {i} \X store.pending[i]
          BY <2>4, <4>3
        <5> QED
          BY <4>1, <5>1
      <4> QED
        BY <3>2, <4>1, <4>2, <4>3
    <3>4. Written(w, k) \in SUBSET (store.pending[k] \cup {Last(store.buffer[q])})
      BY <3>3
    <3>5. IsFiniteSet(store.pending[k] \cup {Last(store.buffer[q])})
      BY <1>1, FS_AddElement DEF StoreFine
    <3> QED
      BY <3>4, <3>5, FS_Subset
  <2>11. \A k \in closing : \E w \in more : Last(store.buffer[k]) \in Written(w, k)
    <3> SUFFICES ASSUME NEW k \in closing PROVE \E w \in more : Last(store.buffer[k]) \in Written(w, k)
      OBVIOUS
    <3> DEFINE w == [rows |-> sent(k, first), by |-> "flush"]
               x == <<k, Last(store.buffer[k])>>
    <3>1. w \in more /\ x \in w.rows /\ x[1] = k /\ x[2] = Last(store.buffer[k])
      BY DEF Buffered
    <3> HIDE DEF w, more, x
    <3>2. x[2] \in Written(w, k)
      BY <3>1 DEF Written
    <3> QED
      BY <3>1, <3>2
  <2> HIDE DEF more
  <2>12. StoreFine(store')
    <3>1. none \in [Keys -> SUBSET Int] /\ \A k \in Keys : none[k] = {}
      OBVIOUS
    <3> HIDE DEF none
    <3>2. store' \in StoreRow
      BY <1>1, <1>6, <2>3, <2>9, <3>1 DEF StoreRow
    <3> QED
      BY <1>1, <2>3, <2>10, <3>1, <3>2, FS_EmptySet DEF StoreFine
  <2>13. ASSUME NEW s \in Symbols PROVE SafeFor(store', <<s, Shortest>>)
    <3> DEFINE k == <<s, Shortest>>
    <3> SUFFICES SafeFor(store', k)
      OBVIOUS
    <3>1. k \in Keys /\ SafeFor(store, k)
      BY KeysOf DEF Kept
    <3> HIDE DEF k
    <3>2. store'.pending[k] = {} /\ store'.buffer[k] = put.buffer[k] /\ store.writes \subseteq store'.writes
      BY <2>3, <3>1
    <3>3. CASE k \notin closing
      <4>1. store'.buffer[k] = store.buffer[k]
        BY <1>7, <3>1, <3>2, <3>3
      <4> QED
        BY <3>1, <3>2, <4>1, StillSafe
    <3>4. CASE k \in closing
      <4>1. Len(store.buffer[k]) \in Nat
        BY <1>1, <3>1 DEF StoreRow
      <4>2. PICK w \in more : Last(store.buffer[k]) \in Written(w, k)
        BY <2>11, <3>4
      <4>3. w \in store'.writes
        BY <2>3
      <4>4. ASSUME NEW i \in 1..(Len(store'.buffer[k]) - 1)
            PROVE  \/ \E j \in 1..(Len(store.buffer[k]) - 1) : store'.buffer[k][i] = store.buffer[k][j]
                   \/ \E v \in store'.writes : store'.buffer[k][i] \in Written(v, k)
        <5>1. PICK j \in 1..Len(store.buffer[k]) : store'.buffer[k][i] = store.buffer[k][j]
          BY <1>8, <3>2, <3>4
        <5>2. CASE j = Len(store.buffer[k])
          BY <1>8, <3>4, <4>2, <4>3, <5>1, <5>2
        <5>3. CASE j # Len(store.buffer[k])
          BY <4>1, <5>1, <5>3
        <5> QED
          BY <5>2, <5>3
      <4> QED
        BY <3>1, <3>2, <4>4, StillSafe
    <3> QED
      BY <3>3, <3>4
  <2> QED
    BY <2>12, <2>13, KeptNext DEF Kept, PumpSimulation
<1> QED
  BY <1>5, <1>9, <1>10

-----------------------------------------------------------------------------

Limit(x) == IF x = "kline" THEN KlineStale ELSE TickerStale

\* The heartbeat is never late, and at the last one no stream was silent for its limit.
BeatInv ==
  /\ DOMAIN stream = {"pc", "account", "up", "heard"} /\ stream.heard \in [Streams -> Int]
  /\ now \in Int /\ now <= MaxTime /\ beat \in Int
  /\ IF stream.pc = "on"
       THEN /\ now <= beat /\ beat <= now + Period
            /\ \A x \in Streams : beat - Period - stream.heard[x] < Limit(x)
       ELSE beat = MaxTime + 1

LEMMA LimitsOK == \A x \in Streams : Limit(x) \in Nat \ {0}
BY MarketAssumption DEF Limit, Streams

LEMMA AttachIs ==
  ASSUME BeatInv, NEW among \in SUBSET Streams
  PROVE  /\ DOMAIN Attach(stream, among) = {"pc", "account", "up", "heard"} /\ Attach(stream, among).pc = "on"
         /\ Attach(stream, among).heard = [x \in Streams |-> IF x \in among THEN now ELSE stream.heard[x]]
         /\ Attach(stream, among).heard \in [Streams -> Int]
BY DEF BeatInv, Attach

LEMMA BeatStep == BeatInv /\ [MarketNext]_marketVars => BeatInv'
<1> SUFFICES ASSUME BeatInv, [MarketNext]_marketVars PROVE BeatInv'
  OBVIOUS
<1>0. MaxTime \in Nat /\ Period = 1 /\ now \in Int /\ beat \in Int /\ now <= MaxTime
  BY MarketAssumption DEF BeatInv, Period
<1>1. CASE UNCHANGED <<now, beat, stream>>
  BY <1>1 DEF BeatInv
<1>2. CASE StartWebSocket
  <2>1. stream.pc # "on" /\ now' = now /\ beat = MaxTime + 1
    BY <1>2 DEF StartWebSocket, BeatInv
  <2>2. CASE Hit
    <3>1. stream' = [Attach(stream, Streams) EXCEPT !.account = adapters[cache].account] /\ beat' = now + Period
      BY <1>2, <2>2 DEF StartWebSocket
    <3>2. DOMAIN stream' = {"pc", "account", "up", "heard"} /\ stream'.pc = "on" /\ stream'.heard = [x \in Streams |-> now]
      BY <3>1, AttachIs
    <3> QED
      BY <1>0, <2>1, <3>1, <3>2, LimitsOK DEF BeatInv
  <2>3. CASE ~Hit
    BY <1>0, <1>2, <2>1, <2>3 DEF StartWebSocket, BeatInv
  <2> QED
    BY <2>2, <2>3
<1>3. CASE StreamAdapter
  <2>1. stream' = Attach(stream, Streams) /\ beat' = now + Period /\ now' = now
    BY <1>3 DEF StreamAdapter
  <2>2. DOMAIN stream' = {"pc", "account", "up", "heard"} /\ stream'.pc = "on" /\ stream'.heard = [x \in Streams |-> now]
    BY <2>1, AttachIs
  <2> QED
    BY <1>0, <2>1, <2>2, LimitsOK DEF BeatInv
<1>4. ASSUME NEW x \in Streams, stream.pc = "on", stream' = [stream EXCEPT !.heard[x] = now], UNCHANGED <<now, beat>>
      PROVE  BeatInv'
  <2>1. /\ DOMAIN stream' = {"pc", "account", "up", "heard"} /\ stream'.pc = "on"
        /\ stream'.heard = [stream.heard EXCEPT ![x] = now]
    BY <1>4 DEF BeatInv
  <2>2. \A y \in Streams : stream'.heard[y] = IF y = x THEN now ELSE stream.heard[y]
    BY <2>1 DEF BeatInv
  <2>3. stream'.heard \in [Streams -> Int]
    BY <1>0, <2>1 DEF BeatInv
  <2>4. beat - Period - now < Limit(x)
    BY <1>0, <1>4, LimitsOK DEF BeatInv
  <2> QED
    BY <1>0, <1>4, <2>1, <2>2, <2>3, <2>4 DEF BeatInv
<1>5. CASE KlineFrame \/ Quote
  BY <1>4, <1>5 DEF KlineFrame, Quote, Streams
<1>6. ASSUME NEW x \in Streams, SocketDies(x) PROVE BeatInv'
  <2>1. stream' = [stream EXCEPT !.up[x] = FALSE] /\ UNCHANGED <<now, beat>>
    BY <1>6 DEF SocketDies
  <2>2. DOMAIN stream' = DOMAIN stream /\ stream'.pc = stream.pc /\ stream'.heard = stream.heard
    BY <2>1 DEF BeatInv
  <2> QED
    BY <2>1, <2>2 DEF BeatInv
<1>7. CASE Heartbeat
  <2>1. now = beat /\ stream' = Attach(stream, Silent) /\ beat' = now + Period /\ now' = now
    BY <1>7 DEF Heartbeat
  <2>2. Silent \in SUBSET Streams /\ \A x \in Streams : x \in Silent <=> ~(now - stream.heard[x] < Limit(x))
    BY DEF Silent, Fresh, Limit
  <2>3. /\ DOMAIN stream' = {"pc", "account", "up", "heard"} /\ stream'.pc = "on" /\ stream'.heard \in [Streams -> Int]
        /\ stream'.heard = [x \in Streams |-> IF x \in Silent THEN now ELSE stream.heard[x]]
    BY <2>1, <2>2, AttachIs
  <2>4. \A x \in Streams : beat' - Period - stream'.heard[x] < Limit(x)
    <3> SUFFICES ASSUME NEW x \in Streams PROVE beat' - Period - stream'.heard[x] < Limit(x)
      OBVIOUS
    <3>1. CASE x \in Silent
      BY <1>0, <2>1, <2>3, <3>1, LimitsOK
    <3>2. CASE x \notin Silent
      <4>1. stream'.heard[x] = stream.heard[x] /\ stream.heard[x] \in Int /\ now - stream.heard[x] < Limit(x)
        BY <2>2, <2>3, <3>2 DEF BeatInv
      <4> QED
        BY <1>0, <2>1, <4>1, LimitsOK
    <3> QED
      BY <3>1, <3>2
  <2> QED
    BY <1>0, <2>1, <2>3, <2>4 DEF BeatInv
<1>8. CASE Tick
  BY <1>0, <1>8 DEF Tick, BeatInv
<1>9. CASE Restart
  <2>1. stream' = NoStream /\ beat' = MaxTime + 1 /\ now' = now
    BY <1>9 DEF Restart
  <2> QED
    BY <1>0, <2>1 DEF BeatInv, NoStream
<1>10. CASE PumpSimulation \/ FlushWritten \/ RecoverMarket \/ \E s \in Symbols : EnsureSymbol(s)
  BY <1>1, <1>10 DEF PumpSimulation, FlushWritten, RecoverMarket, EnsureSymbol
<1>11. CASE \E j \in Jobs : \/ LoadRows(j) \/ JobGet(j) \/ JobAdapter(j) \/ FetchInterval(j)
                            \/ FetchFails(j) \/ JobWritten(j) \/ SimulateInterval(j)
  BY <1>1, <1>11 DEF LoadRows, JobGet, JobAdapter, FetchInterval, FetchFails, JobWritten, SimulateInterval
<1>12. CASE UNCHANGED marketVars
  BY <1>1, <1>12 DEF marketVars
<1> QED
  BY <1>2, <1>3, <1>5, <1>6, <1>7, <1>8, <1>9, <1>10, <1>11, <1>12 DEF MarketNext

-----------------------------------------------------------------------------

\* A job is at one of the intervals of one of the symbols.
JobFine(r) ==
  /\ DOMAIN r = {"pc", "sym", "i", "account", "adapter", "left"}
  /\ r.sym \in Symbols /\ r.i \in 1..Len(Timeframes) /\ r.left \subseteq Symbols

JobsFine == DOMAIN job = Jobs /\ symbols \subseteq Symbols /\ \A j \in Jobs : JobFine(job[j])

LEMMA NoJobFine ==
  /\ JobFine(NoJob) /\ \A s \in Symbols : JobFine(Start(s))
  /\ \A s \in Symbols, other \in SUBSET Symbols :
       JobFine([NoJob EXCEPT !.pc = "get", !.sym = s, !.left = other])
<1>1. 1 \in 1..Len(Timeframes) /\ DefaultSymbol \in Symbols
  BY StoreAssumption, MarketAssumption
<1> QED
  BY <1>1 DEF JobFine, NoJob, Start

LEMMA KeyOK == JobsFine => \A j \in Jobs : Key(j) \in Keys
<1> SUFFICES ASSUME JobsFine, NEW j \in Jobs PROVE Key(j) \in Keys
  OBVIOUS
<1>1. job[j].sym \in Symbols /\ job[j].i \in DOMAIN Timeframes
  BY StoreAssumption DEF JobsFine, JobFine
<1> QED
  BY <1>1 DEF Key, Keys, Intervals

LEMMA NextSymbolOK == JobsFine => \A j \in Jobs : NextSymbol(j) =>
                        DOMAIN job' = Jobs /\ \A x \in Jobs : JobFine(job'[x])
<1> SUFFICES ASSUME JobsFine, NEW j \in Jobs, NextSymbol(j)
             PROVE  DOMAIN job' = Jobs /\ \A x \in Jobs : JobFine(job'[x])
  OBVIOUS
<1>1. CASE job[j].left = {}
  BY <1>1, NoJobFine DEF NextSymbol, JobsFine
<1>2. CASE job[j].left # {}
  <2>1. PICK s \in job[j].left : job' = [job EXCEPT ![j] = [NoJob EXCEPT !.pc = "get", !.sym = s,
                                                 !.left = job[j].left \ {s}]]
    BY <1>2 DEF NextSymbol
  <2>2. s \in Symbols /\ job[j].left \ {s} \in SUBSET Symbols
    BY DEF JobsFine, JobFine
  <2>3. JobFine([NoJob EXCEPT !.pc = "get", !.sym = s, !.left = job[j].left \ {s}])
    BY <2>2, NoJobFine
  <2> QED
    BY <2>1, <2>3 DEF JobsFine
<1> QED
  BY <1>1, <1>2

LEMMA JobsStep == JobsFine /\ [MarketNext]_marketVars => JobsFine'
<1> SUFFICES ASSUME JobsFine, [MarketNext]_marketVars PROVE JobsFine'
  OBVIOUS
<1>0. symbols' \subseteq Symbols
  BY MarketAssumption DEF JobsFine, MarketNext, marketVars, LoadRows, JobGet, JobAdapter, FetchInterval, FetchFails,
     JobWritten, SimulateInterval, EnsureSymbol, FlushWritten, RecoverMarket, StartWebSocket, StreamAdapter,
     KlineFrame, Quote, Heartbeat, SocketDies, PumpSimulation, Tick, Restart
<1> SUFFICES DOMAIN job' = Jobs /\ \A x \in Jobs : JobFine(job'[x])
  BY <1>0 DEF JobsFine, JobFine, Jobs
<1>1. CASE UNCHANGED job
  BY <1>1 DEF JobsFine
<1>2. ASSUME NEW j \in Jobs, NEW r, job' = [job EXCEPT ![j] = r], JobFine(r)
      PROVE  DOMAIN job' = Jobs /\ \A x \in Jobs : JobFine(job'[x])
  BY <1>2 DEF JobsFine
<1>3. ASSUME NEW j \in Jobs, LoadRows(j) \/ JobGet(j) \/ JobAdapter(j) \/ FetchInterval(j)
      PROVE  DOMAIN job' = Jobs /\ \A x \in Jobs : JobFine(job'[x])
  <2>1. JobFine(job[j])
    BY DEF JobsFine
  <2>2. JobFine([job[j] EXCEPT !.pc = "get"]) /\ JobFine([job[j] EXCEPT !.pc = "persist"])
        /\ JobFine([job[j] EXCEPT !.pc = "fetch", !.adapter = cache])
        /\ JobFine([job[j] EXCEPT !.pc = "row", !.account = saved])
        /\ JobFine([job[j] EXCEPT !.pc = "fetch", !.adapter = Len(adapters) + 1])
    BY <2>1 DEF JobFine
  <2>3. CASE LoadRows(j)
    BY <1>2, <2>2, <2>3 DEF LoadRows, Go
  <2>4. CASE JobGet(j)
    BY <1>2, <2>2, <2>4 DEF JobGet
  <2>5. CASE JobAdapter(j)
    BY <1>2, <2>2, <2>5 DEF JobAdapter, JobsFine
  <2>6. CASE FetchInterval(j)
    BY <1>2, <2>2, <2>6 DEF FetchInterval, Go
  <2> QED
    BY <1>3, <2>3, <2>4, <2>5, <2>6
<1>4. ASSUME NEW j \in Jobs, FetchFails(j)
      PROVE  DOMAIN job' = Jobs /\ \A x \in Jobs : JobFine(job'[x])
  <2>1. JobFine(job[j]) /\ 1 \in 1..Len(Timeframes)
    BY StoreAssumption DEF JobsFine
  <2>2. JobFine([job[j] EXCEPT !.pc = "simulate", !.i = 1])
    BY <2>1 DEF JobFine
  <2>3. CASE Booting(j)
    <3>1. job' = [job EXCEPT ![j] = [job[j] EXCEPT !.pc = "simulate", !.i = 1]]
      BY <1>4, <2>3 DEF FetchFails, JobsFine
    <3> QED
      BY <1>2, <2>2, <3>1
  <2>4. CASE ~Booting(j)
    BY <1>4, <2>4, NextSymbolOK DEF FetchFails
  <2> QED
    BY <2>3, <2>4
<1>5. ASSUME NEW j \in Jobs, JobWritten(j) \/ SimulateInterval(j)
      PROVE  DOMAIN job' = Jobs /\ \A x \in Jobs : JobFine(job'[x])
  <2>1. JobFine(job[j]) /\ JobFine(NoJob)
    BY NoJobFine DEF JobsFine
  <2>2. ~LastInterval(j) => job[j].i + 1 \in 1..Len(Timeframes)
    BY <2>1, StoreAssumption DEF LastInterval, JobFine
  <2>3. ASSUME ~LastInterval(j), NEW pc
        PROVE  JobFine([job[j] EXCEPT !.i = @ + 1, !.pc = pc]) /\ JobFine([job[j] EXCEPT !.i = @ + 1])
    BY <2>1, <2>2, <2>3 DEF JobFine
  <2>4. CASE JobWritten(j) /\ ~LastInterval(j)
    <3> DEFINE pc == IF job[j].pc = "persist" THEN "fetch" ELSE "simulate"
    <3>1. job' = [job EXCEPT ![j] = [job[j] EXCEPT !.i = @ + 1, !.pc = pc]]
      BY <2>1, <2>4 DEF JobWritten, JobsFine, JobFine
    <3> QED
      BY <1>2, <2>3, <2>4, <3>1
  <2>5. CASE JobWritten(j) /\ LastInterval(j)
    <3>1. job' = [job EXCEPT ![j] = NoJob] \/ NextSymbol(j)
      BY <2>5 DEF JobWritten, Refreshed
    <3> QED
      BY <1>2, <2>1, <3>1, NextSymbolOK
  <2>6. CASE SimulateInterval(j)
    <3>1. JobFine([job[j] EXCEPT !.pc = "keep"])
      BY <2>1 DEF JobFine
    <3>2. \/ job' = [job EXCEPT ![j] = NoJob] \/ job' = [job EXCEPT ![j] = [job[j] EXCEPT !.pc = "keep"]]
          \/ ~LastInterval(j) /\ job' = [job EXCEPT ![j] = [job[j] EXCEPT !.i = @ + 1]]
      BY <2>6 DEF SimulateInterval, Go
    <3> QED
      BY <1>2, <2>1, <2>3, <3>1, <3>2
  <2> QED
    BY <1>5, <2>4, <2>5, <2>6
<1>6. CASE \E s \in Symbols : EnsureSymbol(s)
  BY <1>2, <1>6, NoJobFine DEF EnsureSymbol, Jobs
<1>7. CASE RecoverMarket
  <2>1. PICK s \in symbols : job' = [job EXCEPT ![Hourly] = [NoJob EXCEPT !.pc = "get", !.sym = s,
                                                    !.left = symbols \ {s}]]
    BY <1>7 DEF RecoverMarket
  <2>2. s \in Symbols /\ symbols \ {s} \in SUBSET Symbols /\ Hourly \in Jobs
    BY DEF JobsFine, Jobs
  <2>3. JobFine([NoJob EXCEPT !.pc = "get", !.sym = s, !.left = symbols \ {s}])
    BY <2>2, NoJobFine
  <2> QED
    BY <1>2, <2>1, <2>2, <2>3
<1>8. CASE Restart
  <2>1. job' = [j \in Jobs |-> IF j = DefaultSymbol THEN Start(j) ELSE NoJob]
    BY <1>8 DEF Restart
  <2> QED
    BY <2>1, NoJobFine, MarketAssumption
<1>9. CASE \/ FlushWritten \/ StartWebSocket \/ StreamAdapter \/ KlineFrame \/ Quote \/ Heartbeat
           \/ \E x \in Streams : SocketDies(x)
           \/ PumpSimulation \/ Tick \/ UNCHANGED marketVars
  BY <1>1, <1>9 DEF FlushWritten, StartWebSocket, StreamAdapter, KlineFrame, Quote, Heartbeat, SocketDies,
     PumpSimulation, Tick, marketVars
<1> QED
  BY <1>3, <1>4, <1>5, <1>6, <1>7, <1>8, <1>9 DEF MarketNext

-----------------------------------------------------------------------------

LEMMA HistoryOK == now \in Int => \A i \in Intervals : History(i) \in Seq(Int)
<1> SUFFICES ASSUME now \in Int, NEW i \in Intervals PROVE History(i) \in Seq(Int)
  OBVIOUS
<1>1. HistoryCount[i] \in Nat
  BY StoreAssumption
<1>2. Opening(i, now) \in Int /\ Step[i] \in Int
  BY OpeningOK
<1> DEFINE count == HistoryCount[i]
           step == Step[i]
           opens == Opening(i, now)
<1>3. History(i) = [n \in 1..count |-> opens - (count - n) * step]
  BY DEF History
<1> HIDE DEF count, step, opens
<1>4. \A n \in 1..count : opens - (count - n) * step \in Int
  BY <1>1, <1>2 DEF count, step, opens
<1>5. History(i) \in [1..count -> Int] /\ count \in Nat
  BY <1>1, <1>3, <1>4 DEF count
<1> QED
  BY <1>5

LEMMA NothingOK == Kept(Nothing)
<1>1. \A k \in Keys : Nothing.buffer[k] = <<>> /\ Nothing.pending[k] = {}
  BY DEF Nothing
<1>2. Nothing \in StoreRow
  BY DEF Nothing, StoreRow
<1>3. StoreFine(Nothing)
  BY <1>2, FS_EmptySet DEF Nothing, StoreFine
<1>4. ASSUME NEW s \in Symbols PROVE SafeFor(Nothing, <<s, Shortest>>)
  <2>1. <<s, Shortest>> \in Keys /\ Len(<<>>) = 0
    BY KeysOf
  <2> QED
    BY <1>1, <2>1, \A n \in {0} : 1..(n - 1) = {} DEF SafeFor
<1> QED
  BY <1>3, <1>4 DEF Kept

LEMMA KeptStep ==
  ASSUME RowsFinite, Kept(store), JobsFine, now \in Int, [MarketNext]_marketVars
  PROVE  Kept(store)' /\ RowsFinite'
<1>1. CASE UNCHANGED storeVars
  <2>1. Kept(store')
    BY <1>1 DEF storeVars
  <2> QED
    BY <1>1, <2>1, KeptNext DEF storeVars, RowsFinite, Keys, Intervals
<1>2. ASSUME UNCHANGED <<rows, dropped>>, Kept(store') PROVE Kept(store)' /\ RowsFinite'
  BY <1>2, KeptNext DEF RowsFinite, Keys, Intervals
<1>3. ASSUME NEW j \in Jobs, LoadRows(j) PROVE Kept(store)' /\ RowsFinite'
  <2>1. UNCHANGED rows
    BY <1>3 DEF LoadRows
  <2> QED
    BY <1>3, <2>1, LoadRowsOK DEF RowsFinite, Keys, Intervals
<1>4. ASSUME NEW j \in Jobs PROVE Kept(PersistAll(ReplaceBuffer(store, Key(j), History(Key(j)[2])), Key(j), j))
  <2>1. Key(j) \in Keys /\ History(Key(j)[2]) \in Seq(Int)
    BY KeyOK, KeysOf, HistoryOK
  <2> QED
    BY <2>1, ReplaceOK
<1>5. ASSUME NEW j \in Jobs, FetchInterval(j) \/ SimulateInterval(j) PROVE Kept(store)' /\ RowsFinite'
  <2>1. UNCHANGED <<rows, dropped>>
        /\ (store' = store \/ store' = PersistAll(ReplaceBuffer(store, Key(j), History(Key(j)[2])), Key(j), j))
    BY <1>5 DEF FetchInterval, SimulateInterval
  <2> QED
    BY <1>2, <1>4, <2>1
<1>6. ASSUME NEW j, Returns(j) PROVE Kept(store)' /\ RowsFinite'
  <2>1. PICK w \in store.writes : WriteReturns(w, TRUE) \/ WriteReturns(w, FALSE)
    BY <1>6 DEF Returns
  <2> QED
    BY <2>1, WriteReturnsOK
<1>7. CASE FlushWritten \/ \E j \in Jobs : JobWritten(j)
  BY <1>6, <1>7 DEF FlushWritten, JobWritten
<1>8. CASE KlineFrame
  <2>1. \A t \in {Opening(Shortest, now), Opening(Shortest, now) - Step[Shortest]} : t \in Int
    BY OpeningOK, KeysOf
  <2>2. PICK t \in {Opening(Shortest, now), Opening(Shortest, now) - Step[Shortest]} :
           store' = ApplyCandle(store, DefaultSymbol, t)
    BY <1>8 DEF KlineFrame, Shortest
  <2>3. Kept(store')
    BY <2>1, <2>2, ApplyCandleOK, MarketAssumption
  <2> QED
    BY <1>2, <1>8, <2>3 DEF KlineFrame
<1>9. CASE Quote
  <2>1. ASSUME store' = Follow(store, DefaultSymbol) PROVE Kept(store')
    <3>1. /\ StoreFine(store') /\ store'.writes = store.writes
          /\ \A x \in Symbols : LET k == <<x, Shortest>> IN
                store'.buffer[k] = store.buffer[k] /\ store'.pending[k] = store.pending[k]
      BY <2>1, FollowOK, MarketAssumption DEF Kept
    <3>2. ASSUME NEW x \in Symbols PROVE SafeFor(store', <<x, Shortest>>)
      <4> DEFINE k == <<x, Shortest>>
      <4> SUFFICES SafeFor(store', k)
        OBVIOUS
      <4>1. store'.buffer[k] = store.buffer[k] /\ store'.pending[k] = {} /\ SafeFor(store, k)
        BY <3>1 DEF Kept, SafeFor
      <4> HIDE DEF k
      <4> QED
        BY <3>1, <4>1, StillSafe
    <3> QED
      BY <3>1, <3>2 DEF Kept
  <2>2. store' = store \/ store' = Follow(store, DefaultSymbol)
    BY <1>9 DEF Quote
  <2> QED
    BY <1>2, <1>9, <2>1, <2>2 DEF Quote
<1>10. CASE PumpSimulation
  <2>1. UNCHANGED rows
    BY <1>10 DEF PumpSimulation
  <2> QED
    BY <1>10, <2>1, PumpOK DEF RowsFinite, Keys, Intervals
<1>11. CASE Restart
  <2>1. store' = Nothing /\ rows' = rows /\ dropped' = {}
    BY <1>11 DEF Restart
  <2>2. StoreFine(store)' /\ \A s \in Symbols : Nothing.pending[<<s, Shortest>>] = {} /\ Nothing.buffer[<<s, Shortest>>] = <<>>
    BY <2>1, NothingOK, KeysOf DEF Kept, StoreFine, StoreRow, Written, Nothing
  <2>3. \A s \in Symbols : SafeFor(store, <<s, Shortest>>)'
    <3>1. Len(<<>>) = 0 /\ \A n \in {0} : 1..(n - 1) = {}
      OBVIOUS
    <3> QED
      BY <2>1, <2>2, <3>1 DEF SafeFor, Shortest
  <2> QED
    BY <2>1, <2>2, <2>3 DEF Kept, RowsFinite, Keys, Intervals
<1>12. CASE \/ \E j \in Jobs : JobGet(j) \/ JobAdapter(j) \/ FetchFails(j)
            \/ \E s \in Symbols : EnsureSymbol(s)
            \/ RecoverMarket \/ StartWebSocket \/ StreamAdapter \/ Heartbeat
            \/ \E x \in Streams : SocketDies(x)
            \/ Tick \/ UNCHANGED marketVars
  BY <1>1, <1>12 DEF JobGet, JobAdapter, FetchFails, EnsureSymbol, RecoverMarket, StartWebSocket, StreamAdapter,
     Heartbeat, SocketDies, Tick, marketVars
<1> QED
  BY <1>3, <1>5, <1>7, <1>8, <1>9, <1>10, <1>11, <1>12 DEF MarketNext

-----------------------------------------------------------------------------

FeedInv == RowsFinite /\ Kept(store) /\ JobsFine /\ BeatInv

LEMMA FeedInitially == MarketInit => FeedInv
<1> SUFFICES ASSUME MarketInit PROVE FeedInv
  OBVIOUS
<1>1. RowsFinite
  BY FS_EmptySet DEF MarketInit, RowsFinite
<1>2. Kept(store)
  BY NothingOK DEF MarketInit
<1>3. JobsFine
  BY NoJobFine, MarketAssumption DEF MarketInit, JobsFine
<1>4. BeatInv
  BY MarketAssumption DEF MarketInit, BeatInv, NoStream
<1> QED
  BY <1>1, <1>2, <1>3, <1>4 DEF FeedInv

LEMMA FeedStep == FeedInv /\ [MarketNext]_marketVars => FeedInv'
BY KeptStep, JobsStep, BeatStep DEF FeedInv, BeatInv

\* What the invariant says of the candles and of the streams.
LEMMA FeedShows == FeedInv => FeedIsSound
<1> SUFFICES ASSUME FeedInv PROVE FeedIsSound
  OBVIOUS
<1>1. ClosedIsOnItsWay
  <2> SUFFICES ASSUME NEW s \in Symbols, NEW i \in 1..(Len(store.buffer[<<s, Shortest>>]) - 1)
               PROVE  OnItsWay(<<s, Shortest>>, store.buffer[<<s, Shortest>>][i])
    BY DEF ClosedIsOnItsWay, Buffered, Shortest
  <2>1. Safe(store, <<s, Shortest>>, store.buffer[<<s, Shortest>>][i])
    BY DEF FeedInv, Kept, SafeFor
  <2> QED
    BY <2>1 DEF Safe, OnItsWay
<1>2. SilenceBounded
  <2>1. KlineStale \in Nat /\ TickerStale \in Nat /\ "kline" \in Streams /\ "ticker" \in Streams
    BY MarketAssumption DEF Streams
  <2>2. Limit("kline") = KlineStale /\ Limit("ticker") = TickerStale
    BY DEF Limit
  <2> QED
    BY <2>1, <2>2 DEF FeedInv, BeatInv, SilenceBounded, Period
<1> QED
  BY <1>1, <1>2 DEF FeedIsSound

LEMMA FeedOnly == FeedInv /\ [Next]_vars => FeedInv'
<1>1. [Next]_vars => [MarketNext]_marketVars
  BY DEF Next, Trading, Keeping, vars, tradingVars
<1> QED
  BY <1>1, FeedStep

LEMMA FeedDeskInit == Init => FeedInv
BY FeedInitially DEF Init

(* No order of frames, refreshes, simulated prices, loads, restarts and      *)
(* returning writes loses a closed candle of the shortest interval: it is in  *)
(* the table, or in a write under way, or its write is known to have failed   *)
(* (CandleStore.upsert, flush, persistAll).  And while the streams run none   *)
(* of them is silent for its limit and a heartbeat more without having been   *)
(* attached again (MarketService's heartbeat).                                *)
THEOREM FeedKeepsItsWord == Spec => []FeedIsSound
<1>1. FeedInv /\ [Next]_vars => FeedInv'
  BY FeedOnly
<1>2. Spec => []FeedInv
  BY FeedDeskInit, <1>1, PTL DEF Spec
<1> QED
  BY <1>2, FeedShows, PTL

-----------------------------------------------------------------------------
(* Sums.  The library adds along a function that is recursive on the subsets *)
(* of a set, one chosen member after the other.                              *)

Chosen(s) == CHOOSE x \in s : TRUE
Adding(f, g, s) == IF s = {} THEN 0 ELSE f[Chosen(s)] + g[s \ {Chosen(s)}]
AddsUp(f, S, g) == \A s \in SUBSET S : g[s] = Adding(f, g, s)

\* A property of the finite sets that a set has when it has it less any member.
LEMMA NoneFails ==
  ASSUME NEW S, IsFiniteSet(S), NEW B \in SUBSET (SUBSET S),
         \A s \in B : \E x \in s : s \ {x} \in B
  PROVE  B = {}
<1> SUFFICES ASSUME B # {} PROVE FALSE
  OBVIOUS
<1> DEFINE N == {Cardinality(s) : s \in B}
<1>1. \A s \in B : IsFiniteSet(s) /\ Cardinality(s) \in Nat
  BY FS_Subset, FS_CardinalityType
<1>2. PICK n \in N : \A k \in N : n <= k
  <2>1. N \subseteq Nat /\ N # {}
    BY <1>1
  <2> HIDE DEF N
  <2> QED
    BY <2>1, Smallest
<1>3. PICK s \in B : n = Cardinality(s)
  BY <1>2
<1>4. PICK x \in s : s \ {x} \in B
  BY <1>3
<1>5. Cardinality(s \ {x}) = n - 1 /\ n \in Nat
  BY <1>1, <1>3, FS_RemoveElement
<1>6. n - 1 \in N
  BY <1>4, <1>5
<1> HIDE DEF N
<1> QED
  BY <1>2, <1>5, <1>6

\* The sum is what such a function gives, and there is one.
LEMMA SumIs ==
  ASSUME NEW f, NEW S
  PROVE  SumFunctionOnSet(f, S) = (CHOOSE g : g = [s \in SUBSET S |-> Adding(f, g, s)])[S]
BY DEF SumFunctionOnSet, FoldFunctionOnSet, MapThenFoldSet, Adding, Chosen

\* On the subsets of S with at most n members.
Small(S, n) == {s \in SUBSET S : Cardinality(s) <= n}
Reaches(f, S, n) == \E g : \A s \in Small(S, n) : g[s] = Adding(f, g, s)

LEMMA ReachesNext ==
  ASSUME NEW f, NEW S, IsFiniteSet(S), NEW n \in Nat, Reaches(f, S, n)
  PROVE  Reaches(f, S, n + 1)
<1>1. PICK g : \A s \in Small(S, n) : g[s] = Adding(f, g, s)
  BY DEF Reaches
<1> DEFINE h == [s \in SUBSET S |-> Adding(f, g, s)]
<1>2. ASSUME NEW s \in Small(S, n + 1) PROVE h[s] = Adding(f, h, s)
  <2>1. s \in SUBSET S
    BY DEF Small
  <2>2. CASE s = {}
    BY <2>1, <2>2 DEF Adding
  <2>3. CASE s # {}
    <3> DEFINE r == s \ {Chosen(s)}
    <3>1. Chosen(s) \in s
      BY <2>3 DEF Chosen
    <3>2. r \in SUBSET S /\ Cardinality(r) <= n
      <4>1. Cardinality(r) = Cardinality(s) - 1 /\ Cardinality(s) \in Nat
        BY <2>1, <3>1, FS_Subset, FS_RemoveElement, FS_CardinalityType
      <4> QED
        BY <2>1, <4>1 DEF Small
    <3>3. h[r] = g[r]
      BY <1>1, <3>2 DEF Small
    <3> QED
      BY <2>1, <2>3, <3>3 DEF Adding
  <2> QED
    BY <2>2, <2>3
<1> QED
  BY <1>2 DEF Reaches

LEMMA SumAddsUp ==
  ASSUME NEW f, NEW S, IsFiniteSet(S)
  PROVE  \E g : AddsUp(f, S, g) /\ SumFunctionOnSet(f, S) = g[S]
<1> DEFINE N == {n \in Nat : ~Reaches(f, S, n)}
<1>1. \A s \in SUBSET S : IsFiniteSet(s) /\ Cardinality(s) \in Nat /\ Cardinality(s) <= Cardinality(S)
  BY FS_Subset, FS_CardinalityType
<1>2. Reaches(f, S, 0)
  <2>1. \A s \in Small(S, 0) : s = {}
    BY <1>1, FS_EmptySet DEF Small
  <2>2. \A s \in Small(S, 0) : [r \in {{}} |-> 0][s] = Adding(f, [r \in {{}} |-> 0], s)
    BY <2>1 DEF Adding
  <2> QED
    BY <2>2 DEF Reaches
<1>3. N = {}
  <2> SUFFICES ASSUME N # {} PROVE FALSE
    OBVIOUS
  <2>1. PICK n \in N : \A k \in N : n <= k
    BY Smallest
  <2>2. n - 1 \in Nat /\ n - 1 \notin N
    BY <1>2, <2>1
  <2>3. Reaches(f, S, n - 1)
    BY <2>2
  <2>4. Reaches(f, S, (n - 1) + 1)
    BY <2>2, <2>3, ReachesNext
  <2> QED
    BY <2>1, <2>4
<1>4. PICK g : \A s \in Small(S, Cardinality(S)) : g[s] = Adding(f, g, s)
  BY <1>1, <1>3 DEF Reaches
<1> DEFINE h == [s \in SUBSET S |-> g[s]]
<1>5. \A s \in SUBSET S : h[s] = Adding(f, h, s)
  <2> SUFFICES ASSUME NEW s \in SUBSET S PROVE h[s] = Adding(f, h, s)
    OBVIOUS
  <2>1. g[s] = Adding(f, g, s)
    BY <1>1, <1>4 DEF Small
  <2>2. s \ {Chosen(s)} \in SUBSET S
    OBVIOUS
  <2> QED
    BY <2>1, <2>2 DEF Adding
<1>6. h = [s \in SUBSET S |-> Adding(f, h, s)]
  <2>1. h = [s \in SUBSET S |-> h[s]]
    OBVIOUS
  <2> HIDE DEF h
  <2>2. [s \in SUBSET S |-> h[s]] = [s \in SUBSET S |-> Adding(f, h, s)]
    BY <1>5
  <2> QED
    BY <2>1, <2>2
<1> DEFINE u == CHOOSE v : v = [s \in SUBSET S |-> Adding(f, v, s)]
<1>7. u = [s \in SUBSET S |-> Adding(f, u, s)]
  <2> HIDE DEF h
  <2> QED
    BY <1>6
<1>8. SumFunctionOnSet(f, S) = u[S]
  BY SumIs
<1> HIDE DEF u
<1>9. AddsUp(f, S, u)
  BY <1>7 DEF AddsUp
<1> QED
  BY <1>8, <1>9

\* It is the only one, and looks at the members alone.
LEMMA AddsUpOnce ==
  ASSUME NEW S, IsFiniteSet(S), NEW f, NEW e, \A x \in S : f[x] = e[x],
         NEW g, NEW h, AddsUp(f, S, g), NEW T, S \subseteq T, AddsUp(e, T, h)
  PROVE  \A s \in SUBSET S : g[s] = h[s]
<1> DEFINE B == {s \in SUBSET S : g[s] # h[s]}
<1>1. ASSUME NEW s \in B PROVE \E x \in s : s \ {x} \in B
  <2> DEFINE c == Chosen(s)
  <2>1. g[s] = Adding(f, g, s) /\ h[s] = Adding(e, h, s)
    BY DEF AddsUp
  <2>2. s # {}
    BY <2>1 DEF Adding
  <2>3. c \in s /\ c \in S
    BY <2>2 DEF Chosen
  <2>4. g[s] = f[c] + g[s \ {c}] /\ h[s] = f[c] + h[s \ {c}]
    BY <2>1, <2>2, <2>3 DEF Adding
  <2>5. g[s \ {c}] # h[s \ {c}]
    BY <2>4
  <2> QED
    BY <2>3, <2>5
<1>2. B \in SUBSET (SUBSET S)
  OBVIOUS
<1> HIDE DEF B
<1>3. B = {}
  BY <1>1, <1>2, NoneFails
<1> QED
  BY <1>3 DEF B

LEMMA SumSame ==
  ASSUME NEW S, IsFiniteSet(S), NEW f, NEW e, \A x \in S : f[x] = e[x]
  PROVE  SumFunctionOnSet(f, S) = SumFunctionOnSet(e, S)
<1>1. PICK g : AddsUp(f, S, g) /\ SumFunctionOnSet(f, S) = g[S]
  BY SumAddsUp
<1>2. PICK h : AddsUp(e, S, h) /\ SumFunctionOnSet(e, S) = h[S]
  BY SumAddsUp
<1>3. g[S] = h[S]
  BY <1>1, <1>2, AddsUpOnce
<1> QED
  BY <1>1, <1>2, <1>3

LEMMA SumNothing == ASSUME NEW f PROVE SumFunctionOnSet(f, {}) = 0
<1>1. PICK g : AddsUp(f, {}, g) /\ SumFunctionOnSet(f, {}) = g[{}]
  BY SumAddsUp, FS_EmptySet
<1> QED
  BY <1>1 DEF AddsUp, Adding

\* Any member may be taken out first.
LEMMA SumTake ==
  ASSUME NEW S, IsFiniteSet(S), NEW f, \A x \in S : f[x] \in Int
  PROVE  /\ SumFunctionOnSet(f, S) \in Int
         /\ \A x \in S : SumFunctionOnSet(f, S) = f[x] + SumFunctionOnSet(f, S \ {x})
<1>1. PICK g : AddsUp(f, S, g) /\ SumFunctionOnSet(f, S) = g[S]
  BY SumAddsUp
<1>2. \A s \in SUBSET S : s # {} => Chosen(s) \in s /\ g[s] = f[Chosen(s)] + g[s \ {Chosen(s)}]
  BY <1>1 DEF AddsUp, Adding, Chosen
<1>3. \A s \in SUBSET S : g[s] \in Int
  <2> DEFINE B == {s \in SUBSET S : g[s] \notin Int}
  <2>4. g[{}] = 0
    BY <1>1 DEF AddsUp, Adding
  <2>1. ASSUME NEW s \in B PROVE \E x \in s : s \ {x} \in B
    <3>1. s # {}
      BY <2>4
    <3>2. Chosen(s) \in s /\ g[s] = f[Chosen(s)] + g[s \ {Chosen(s)}] /\ f[Chosen(s)] \in Int
      BY <1>2, <3>1
    <3>3. s \ {Chosen(s)} \in B
      BY <3>2
    <3> QED
      BY <3>2, <3>3
  <2>2. B \in SUBSET (SUBSET S)
    OBVIOUS
  <2> HIDE DEF B
  <2>3. B = {}
    BY <2>1, <2>2, NoneFails
  <2> QED
    BY <2>3 DEF B
<1>4. \A s \in SUBSET S : \A x \in s : g[s] = f[x] + g[s \ {x}]
  <2> DEFINE B == {s \in SUBSET S : \E x \in s : g[s] # f[x] + g[s \ {x}]}
  <2>1. ASSUME NEW s \in B PROVE \E x \in s : s \ {x} \in B
    <3>1. PICK x \in s : g[s] # f[x] + g[s \ {x}]
      OBVIOUS
    <3> DEFINE c == Chosen(s)
               r == s \ {c}
               q == (s \ {x}) \ {Chosen(s \ {x})}
    <3>2. c \in s /\ g[s] = f[c] + g[r] /\ c # x
      BY <1>2, <3>1
    <3>3. x \in r /\ c \in s \ {x} /\ r \ {x} = (s \ {x}) \ {c}
      BY <3>2
    <3>4. CASE r \in B
      BY <3>2, <3>4
    <3>5. CASE r \notin B
      <4>1. g[r] = f[x] + g[r \ {x}]
        BY <3>3, <3>5
      <4>2. CASE g[s \ {x}] = f[c] + g[(s \ {x}) \ {c}]
        <5>1. f[c] \in Int /\ f[x] \in Int /\ g[r \ {x}] \in Int
          BY <1>3, <3>2
        <5>2. g[s] = f[c] + (f[x] + g[r \ {x}]) /\ g[s \ {x}] = f[c] + g[r \ {x}]
          BY <3>2, <3>3, <4>1, <4>2
        <5>3. g[s] = f[x] + g[s \ {x}]
          BY <5>1, <5>2
        <5> QED
          BY <3>1, <5>3
      <4>3. CASE g[s \ {x}] # f[c] + g[(s \ {x}) \ {c}]
        BY <3>3, <4>3
      <4> QED
        BY <4>2, <4>3
    <3> QED
      BY <3>4, <3>5
  <2>2. B \in SUBSET (SUBSET S)
    OBVIOUS
  <2> HIDE DEF B
  <2>3. B = {}
    BY <2>1, <2>2, NoneFails
  <2> QED
    BY <2>3 DEF B
<1>5. ASSUME NEW x \in S PROVE SumFunctionOnSet(f, S) = f[x] + SumFunctionOnSet(f, S \ {x})
  <2> DEFINE T == S \ {x}
  <2>1. IsFiniteSet(T) /\ T \subseteq S
    BY FS_RemoveElement
  <2> HIDE DEF T
  <2>2. PICK h : AddsUp(f, T, h) /\ SumFunctionOnSet(f, T) = h[T]
    BY <2>1, SumAddsUp
  <2>3. h[T] = g[T]
    BY <1>1, <2>1, <2>2, AddsUpOnce
  <2>4. g[S] = f[x] + g[T]
    BY <1>4 DEF T
  <2> QED
    BY <1>1, <2>2, <2>3, <2>4 DEF T
<1> QED
  BY <1>1, <1>3, <1>5

\* One term more; one term changed.
LEMMA SumOneMore ==
  ASSUME NEW S, IsFiniteSet(S), NEW f, NEW e, \A y \in S : f[y] = e[y] /\ e[y] \in Int,
         NEW x, x \notin S, f[x] \in Int
  PROVE  SumFunctionOnSet(f, S \cup {x}) = SumFunctionOnSet(e, S) + f[x]
<1> DEFINE T == S \cup {x}
<1>1. IsFiniteSet(T) /\ x \in T /\ T \ {x} = S /\ \A y \in T : f[y] \in Int
  BY FS_AddElement
<1> HIDE DEF T
<1>2. SumFunctionOnSet(f, T) = f[x] + SumFunctionOnSet(f, S)
  BY <1>1, SumTake
<1>3. SumFunctionOnSet(f, S) = SumFunctionOnSet(e, S) /\ SumFunctionOnSet(e, S) \in Int
  BY SumSame, SumTake
<1>4. SumFunctionOnSet(f, T) = SumFunctionOnSet(e, S) + f[x]
  BY <1>2, <1>3
<1> QED
  BY <1>4 DEF T

LEMMA SumChanged ==
  ASSUME NEW S, IsFiniteSet(S), NEW f, NEW e, \A y \in S : f[y] \in Int /\ e[y] \in Int,
         NEW x \in S, \A y \in S \ {x} : e[y] = f[y]
  PROVE  SumFunctionOnSet(e, S) = SumFunctionOnSet(f, S) + (e[x] - f[x])
<1> DEFINE T == S \ {x}
<1>1. IsFiniteSet(T) /\ \A y \in T : e[y] = f[y] /\ f[y] \in Int
  BY FS_RemoveElement
<1>2. /\ SumFunctionOnSet(e, S) = e[x] + SumFunctionOnSet(e, T)
      /\ SumFunctionOnSet(f, S) = f[x] + SumFunctionOnSet(f, T)
  BY SumTake
<1> HIDE DEF T
<1>3. SumFunctionOnSet(e, T) = SumFunctionOnSet(f, T) /\ SumFunctionOnSet(f, T) \in Int
  BY <1>1, SumSame, SumTake
<1> QED
  BY <1>2, <1>3

-----------------------------------------------------------------------------
(* The income book: what the rows of a day, and the lots closed on it, come  *)
(* to, is what the account gained that day.                                  *)

AllTypes == {"REALIZED_PNL", "COMMISSION", "FUNDING_FEE"}
IncomeRow == [type : AllTypes, amount : Int, at : Int]
Closure == [day : Int, pnl : Int]

RowsOf(q, d, types) == {i \in DOMAIN q : DayOf(q[i].at) = d /\ q[i].type \in types}
AmountOf(q, d, types) == SumFunctionOnSet([i \in DOMAIN q |-> q[i].amount], RowsOf(q, d, types))
PnlOf(q, d) == SumFunctionOnSet([i \in DOMAIN q |-> q[i].pnl], {i \in DOMAIN q : q[i].day = d})

\* A sum that may have one term more.
LEMMA SumLonger ==
  ASSUME NEW S, IsFiniteSet(S), NEW e, NEW f, \A y \in S : f[y] = e[y] /\ e[y] \in Int,
         NEW x, x \notin S, f[x] \in Int, NEW T, T = S \/ T = S \cup {x}
  PROVE  /\ SumFunctionOnSet(e, S) \in Int
         /\ SumFunctionOnSet(f, T) = SumFunctionOnSet(e, S) + (IF x \in T THEN f[x] ELSE 0)
<1>1. SumFunctionOnSet(e, S) \in Int
  BY SumTake
<1>2. CASE T = S
  <2>1. SumFunctionOnSet(f, S) = SumFunctionOnSet(e, S)
    BY SumSame
  <2> QED
    BY <1>1, <1>2, <2>1
<1>3. CASE T = S \cup {x}
  <2>1. SumFunctionOnSet(f, S \cup {x}) = SumFunctionOnSet(e, S) + f[x]
    BY SumOneMore
  <2> QED
    BY <1>1, <1>3, <2>1
<1> QED
  BY <1>1, <1>2, <1>3

LEMMA AmountMore ==
  ASSUME NEW q \in Seq(IncomeRow), NEW r \in IncomeRow, NEW d, NEW types
  PROVE  /\ AmountOf(q, d, types) \in Int
         /\ AmountOf(Append(q, r), d, types)
              = AmountOf(q, d, types) + (IF DayOf(r.at) = d /\ r.type \in types THEN r.amount ELSE 0)
<1> DEFINE n == Len(q)
           m == n + 1
           p == Append(q, r)
           S == RowsOf(q, d, types)
           T == RowsOf(p, d, types)
           e == [i \in DOMAIN q |-> q[i].amount]
           f == [i \in DOMAIN p |-> p[i].amount]
<1>1. /\ n \in Nat /\ DOMAIN q = 1..n /\ DOMAIN p = (1..n) \cup {m} /\ m \notin 1..n
      /\ p[m] = r /\ \A i \in 1..n : p[i] = q[i] /\ q[i] \in IncomeRow
  OBVIOUS
<1>0. IsFiniteSet(1..n)
  BY <1>1, FS_Interval
<1> HIDE DEF n, m, p
<1>2. \A i \in 1..n : f[i] = e[i] /\ e[i] \in Int
  BY <1>1 DEF IncomeRow
<1>3. f[m] = r.amount /\ r.amount \in Int
  BY <1>1 DEF IncomeRow
<1>4. S \subseteq 1..n /\ IsFiniteSet(S)
  <2>1. S \subseteq 1..n
    BY <1>1 DEF RowsOf
  <2> HIDE DEF S
  <2> QED
    BY <1>0, <2>1, FS_Subset
<1>5. m \in T <=> DayOf(r.at) = d /\ r.type \in types
  BY <1>1 DEF RowsOf
<1>6. T \ {m} = S /\ m \notin S
  BY <1>1 DEF RowsOf
<1>7. T = S \/ T = S \cup {m}
  BY <1>6
<1>8. AmountOf(q, d, types) = SumFunctionOnSet(e, S) /\ AmountOf(p, d, types) = SumFunctionOnSet(f, T)
  BY DEF AmountOf
<1> HIDE DEF e, f, S, T
<1>9. /\ SumFunctionOnSet(e, S) \in Int
      /\ SumFunctionOnSet(f, T) = SumFunctionOnSet(e, S) + (IF m \in T THEN f[m] ELSE 0)
  <2>1. f[m] \in Int /\ m \notin S
    BY <1>1, <1>3, <1>4
  <2>2. \A y \in S : f[y] = e[y] /\ e[y] \in Int
    BY <1>2, <1>4
  <2>3. IsFiniteSet(S)
    BY <1>4
  <2>4. SumFunctionOnSet(e, S) \in Int
    BY <2>1, <2>2, <2>3, <1>7, SumLonger
  <2>5. SumFunctionOnSet(f, T) = SumFunctionOnSet(e, S) + (IF m \in T THEN f[m] ELSE 0)
    BY <2>1, <2>2, <2>3, <1>7, SumLonger
  <2> QED
    BY <2>4, <2>5
<1> QED
  BY <1>3, <1>5, <1>8, <1>9 DEF p

LEMMA PnlMore ==
  ASSUME NEW q \in Seq(Closure), NEW r \in Closure, NEW d
  PROVE  /\ PnlOf(q, d) \in Int
         /\ PnlOf(Append(q, r), d) = PnlOf(q, d) + (IF r.day = d THEN r.pnl ELSE 0)
<1> DEFINE n == Len(q)
           m == n + 1
           p == Append(q, r)
           S == {i \in DOMAIN q : q[i].day = d}
           T == {i \in DOMAIN p : p[i].day = d}
           e == [i \in DOMAIN q |-> q[i].pnl]
           f == [i \in DOMAIN p |-> p[i].pnl]
<1>1. /\ n \in Nat /\ DOMAIN q = 1..n /\ DOMAIN p = (1..n) \cup {m} /\ m \notin 1..n
      /\ p[m] = r /\ \A i \in 1..n : p[i] = q[i] /\ q[i] \in Closure
  OBVIOUS
<1>0. IsFiniteSet(1..n)
  BY <1>1, FS_Interval
<1> HIDE DEF n, m, p
<1>2. \A i \in 1..n : f[i] = e[i] /\ e[i] \in Int
  BY <1>1 DEF Closure
<1>3. f[m] = r.pnl /\ r.pnl \in Int
  BY <1>1 DEF Closure
<1>4. S \subseteq 1..n /\ IsFiniteSet(S)
  <2>1. S \subseteq 1..n
    BY <1>1
  <2> HIDE DEF S
  <2> QED
    BY <1>0, <2>1, FS_Subset
<1>5. m \in T <=> r.day = d
  BY <1>1
<1>6. T \ {m} = S /\ m \notin S
  BY <1>1
<1>7. T = S \/ T = S \cup {m}
  BY <1>6
<1>8. PnlOf(q, d) = SumFunctionOnSet(e, S) /\ PnlOf(p, d) = SumFunctionOnSet(f, T)
  BY DEF PnlOf
<1> HIDE DEF e, f, S, T
<1>9. /\ SumFunctionOnSet(e, S) \in Int
      /\ SumFunctionOnSet(f, T) = SumFunctionOnSet(e, S) + (IF m \in T THEN f[m] ELSE 0)
  <2>1. f[m] \in Int /\ m \notin S
    BY <1>1, <1>3, <1>4
  <2>2. \A y \in S : f[y] = e[y] /\ e[y] \in Int
    BY <1>2, <1>4
  <2>3. IsFiniteSet(S)
    BY <1>4
  <2>4. SumFunctionOnSet(e, S) \in Int
    BY <2>1, <2>2, <2>3, <1>7, SumLonger
  <2>5. SumFunctionOnSet(f, T) = SumFunctionOnSet(e, S) + (IF m \in T THEN f[m] ELSE 0)
    BY <2>1, <2>2, <2>3, <1>7, SumLonger
  <2> QED
    BY <2>4, <2>5
<1> QED
  BY <1>3, <1>5, <1>8, <1>9 DEF p

BookFine ==
  /\ reports \in BOOLEAN /\ moment \in 0..MaxMoment /\ holding \in Nat /\ losses \in Nat
  /\ incomes \in Seq(IncomeRow) /\ closures \in Seq(Closure) /\ wallet \in [CalendarDays -> Int]

\* With every row: the rows of a day are the account's.  Without the realised profits: the
\* lots of a day and its funding are, but for the fees of the lots that are open.
Gap == [d \in CalendarDays |-> PnlOf(closures, d) + AmountOf(incomes, d, {"FUNDING_FEE"}) - wallet[d]]
AccountFine ==
  IF reports THEN \A d \in CalendarDays : wallet[d] = AmountOf(incomes, d, AllTypes)
  ELSE /\ \A i \in DOMAIN incomes : incomes[i].type # "REALIZED_PNL"
       /\ SumFunctionOnSet(Gap, CalendarDays) = holding

\* What a sync is about to insert is all that the table lacks of what it has fetched.
SyncsFine ==
  /\ DOMAIN sync = Syncs
  /\ \A s \in Syncs :
        /\ DOMAIN sync[s] = {"pc", "rows", "fresh"}
        /\ sync[s].pc = "known" => sync[s].rows \subseteq book \cup sync[s].fresh

BookInv == BookFine /\ AccountFine /\ SyncsFine

LEMMA Today == BookFine => DayOf(moment) \in CalendarDays /\ moment \in Int
<1>1. MaxMoment \in Nat
  BY BookAssumption
<1> QED
  BY <1>1 DEF BookFine, DayOf, CalendarDays

LEMMA DaysFinite == IsFiniteSet(CalendarDays)
<1>1. MaxMoment \in Nat
  BY BookAssumption
<1>2. DayOf(MaxMoment) \in Int
  BY <1>1 DEF DayOf
<1> QED
  BY <1>2, FS_Interval DEF CalendarDays

LEMMA ArisesOne ==
  ASSUME BookFine, NEW t \in AllTypes, NEW a \in Int, Arise(<<<<t, a>>>>)
  PROVE  incomes' = Append(incomes, [type |-> t, amount |-> a, at |-> moment])
<1> DEFINE given == <<<<t, a>>>>
           r == [type |-> t, amount |-> a, at |-> moment]
<1>1. DOMAIN given = {1} /\ given[1] = <<t, a>>
  <2>1. \A x : DOMAIN <<x>> = {1} /\ <<x>>[1] = x
    OBVIOUS
  <2> QED
    BY <2>1
<1>2. [i \in DOMAIN given |-> [type |-> given[i][1], amount |-> given[i][2], at |-> moment]] = <<r>>
  BY <1>1
<1>3. incomes' = incomes \o <<r>>
  BY <1>2 DEF Arise
<1>4. r \in IncomeRow
  BY Today DEF IncomeRow
<1> HIDE DEF r
<1>5. incomes \o <<r>> = Append(incomes, r)
  BY <1>4 DEF BookFine
<1> QED
  BY <1>3, <1>5 DEF r

LEMMA ArisesTwo ==
  ASSUME BookFine, NEW t \in AllTypes, NEW a \in Int, NEW u \in AllTypes, NEW b \in Int,
         Arise(<<<<t, a>>, <<u, b>>>>)
  PROVE  incomes' = Append(Append(incomes, [type |-> t, amount |-> a, at |-> moment]),
                           [type |-> u, amount |-> b, at |-> moment])
<1> DEFINE given == <<<<t, a>>, <<u, b>>>>
           r == [type |-> t, amount |-> a, at |-> moment]
           w == [type |-> u, amount |-> b, at |-> moment]
<1>1. DOMAIN given = {1, 2} /\ given[1] = <<t, a>> /\ given[2] = <<u, b>>
  <2>1. \A x, y : DOMAIN <<x, y>> = {1, 2} /\ <<x, y>>[1] = x /\ <<x, y>>[2] = y
    OBVIOUS
  <2> QED
    BY <2>1
<1>2. [i \in DOMAIN given |-> [type |-> given[i][1], amount |-> given[i][2], at |-> moment]] = <<r, w>>
  BY <1>1
<1>3. incomes' = incomes \o <<r, w>>
  BY <1>2 DEF Arise
<1>4. r \in IncomeRow /\ w \in IncomeRow
  BY Today DEF IncomeRow
<1> HIDE DEF r, w
<1>5. incomes \o <<r, w>> = Append(Append(incomes, r), w)
  BY <1>4 DEF BookFine
<1> QED
  BY <1>3, <1>5 DEF r, w

LEMMA SumsAreInt ==
  BookFine => \A d : PnlOf(closures, d) \in Int /\ \A types : AmountOf(incomes, d, types) \in Int
<1>1. PICK r : r \in IncomeRow
  <2>1. \A t \in AllTypes : [type |-> t, amount |-> 0, at |-> 0] \in IncomeRow
    BY DEF IncomeRow
  <2> QED
    BY <2>1 DEF AllTypes
<1>4. PICK c : c \in Closure
  <2>1. [day |-> 0, pnl |-> 0] \in Closure
    BY DEF Closure
  <2> QED
    BY <2>1
<1> SUFFICES ASSUME BookFine, NEW d
             PROVE  PnlOf(closures, d) \in Int /\ \A types : AmountOf(incomes, d, types) \in Int
  OBVIOUS
<1>2. PnlOf(closures, d) \in Int
  BY <1>4, PnlMore DEF BookFine
<1>3. \A types : AmountOf(incomes, d, types) \in Int
  BY <1>1, AmountMore DEF BookFine
<1> QED
  BY <1>2, <1>3

LEMMA GapIs ==
  BookFine => \A d \in CalendarDays :
     /\ Gap[d] = PnlOf(closures, d) + AmountOf(incomes, d, {"FUNDING_FEE"}) - wallet[d]
     /\ Gap[d] \in Int
<1> SUFFICES ASSUME BookFine, NEW d \in CalendarDays
             PROVE  /\ Gap[d] = PnlOf(closures, d) + AmountOf(incomes, d, {"FUNDING_FEE"}) - wallet[d]
                    /\ Gap[d] \in Int
  OBVIOUS
<1>1. Gap[d] = PnlOf(closures, d) + AmountOf(incomes, d, {"FUNDING_FEE"}) - wallet[d]
  BY DEF Gap
<1>2. PnlOf(closures, d) \in Int /\ AmountOf(incomes, d, {"FUNDING_FEE"}) \in Int /\ wallet[d] \in Int
  BY SumsAreInt DEF BookFine
<1> QED
  BY <1>1, <1>2

LEMMA SumMoves ==
  ASSUME NEW f, NEW e, NEW k \in Int, NEW d0 \in CalendarDays,
         \A d \in CalendarDays : f[d] \in Int /\ e[d] = f[d] + (IF d = d0 THEN k ELSE 0)
  PROVE  SumFunctionOnSet(e, CalendarDays) = SumFunctionOnSet(f, CalendarDays) + k
<1>1. \A d \in CalendarDays : f[d] \in Int /\ e[d] \in Int
  OBVIOUS
<1>2. \A d \in CalendarDays \ {d0} : e[d] = f[d]
  OBVIOUS
<1>3. e[d0] - f[d0] = k
  OBVIOUS
<1>4. IsFiniteSet(CalendarDays)
  BY DaysFinite
<1>5. SumFunctionOnSet(e, CalendarDays) = SumFunctionOnSet(f, CalendarDays) + (e[d0] - f[d0])
  BY <1>1, <1>2, <1>4, SumChanged
<1> QED
  BY <1>3, <1>5

LEMMA SumZeros ==
  ASSUME NEW S, IsFiniteSet(S), NEW f, \A x \in S : f[x] = 0
  PROVE  SumFunctionOnSet(f, S) = 0
<1>1. PICK g : AddsUp(f, S, g) /\ SumFunctionOnSet(f, S) = g[S]
  BY SumAddsUp
<1> DEFINE B == {s \in SUBSET S : g[s] # 0}
<1>2. g[{}] = 0
  BY <1>1 DEF AddsUp, Adding
<1>3. ASSUME NEW s \in B PROVE \E x \in s : s \ {x} \in B
  <2>1. s # {}
    BY <1>2
  <2>2. Chosen(s) \in s /\ g[s] = f[Chosen(s)] + g[s \ {Chosen(s)}]
    BY <1>1, <2>1 DEF AddsUp, Adding, Chosen
  <2>3. g[s \ {Chosen(s)}] # 0
    BY <2>2
  <2> QED
    BY <2>2, <2>3
<1>4. B \in SUBSET (SUBSET S)
  OBVIOUS
<1> HIDE DEF B
<1>5. B = {}
  BY <1>3, <1>4, NoneFails
<1> QED
  BY <1>1, <1>5 DEF B

LEMMA GapMoves ==
  ASSUME BookFine, BookFine', NEW k \in Int, NEW d0 \in CalendarDays,
         \A d \in CalendarDays : Gap'[d] = Gap[d] + (IF d = d0 THEN k ELSE 0)
  PROVE  SumFunctionOnSet(Gap, CalendarDays)' = SumFunctionOnSet(Gap, CalendarDays) + k
<1>1. \A d \in CalendarDays : Gap[d] \in Int
  BY GapIs
<1>2. SumFunctionOnSet(Gap', CalendarDays) = SumFunctionOnSet(Gap, CalendarDays) + k
  BY <1>1, SumMoves
<1> QED
  BY <1>2

LEMMA GainIs ==
  ASSUME BookFine, NEW a \in Int, Gain(a)
  PROVE  /\ wallet' \in [CalendarDays -> Int]
         /\ \A d \in CalendarDays : wallet'[d] = wallet[d] + (IF d = DayOf(moment) THEN a ELSE 0)
<1>1. wallet \in [CalendarDays -> Int]
  BY DEF BookFine
<1> DEFINE d0 == DayOf(moment)
<1>2. wallet' = [wallet EXCEPT ![d0] = wallet[d0] + a]
  BY DEF Gain
<1>3. d0 \in CalendarDays
  BY Today
<1> HIDE DEF d0
<1>4. wallet' \in [CalendarDays -> Int]
  BY <1>1, <1>2, <1>3
<1>5. \A d \in CalendarDays : wallet'[d] = wallet[d] + (IF d = d0 THEN a ELSE 0)
  BY <1>1, <1>2, <1>3
<1> QED
  BY <1>4, <1>5 DEF d0

\* A row of a type that is no profit, booked with what it takes.
LEMMA OneRow ==
  ASSUME BookFine, NEW t \in {"COMMISSION", "FUNDING_FEE"}, NEW a \in Int, Arise(<<<<t, a>>>>)
  PROVE  /\ incomes' \in Seq(IncomeRow)
         /\ \A d \in CalendarDays : \A types :
               AmountOf(incomes', d, types)
                 = AmountOf(incomes, d, types) + (IF DayOf(moment) = d /\ t \in types THEN a ELSE 0)
         /\ (\A i \in DOMAIN incomes : incomes[i].type # "REALIZED_PNL")
               => \A i \in DOMAIN incomes' : incomes'[i].type # "REALIZED_PNL"
<1> DEFINE r == [type |-> t, amount |-> a, at |-> moment]
<1>0. t \in AllTypes /\ t # "REALIZED_PNL"
  BY DEF AllTypes
<1>1. incomes' = Append(incomes, r)
  BY <1>0, ArisesOne
<1>2. r \in IncomeRow /\ r.type = t /\ r.amount = a /\ r.at = moment /\ incomes \in Seq(IncomeRow)
  BY <1>0, Today DEF IncomeRow, BookFine
<1> HIDE DEF r
<1>3. incomes' \in Seq(IncomeRow)
  BY <1>1, <1>2
<1>4. \A d \in CalendarDays : \A types :
         AmountOf(incomes', d, types)
           = AmountOf(incomes, d, types) + (IF DayOf(r.at) = d /\ r.type \in types THEN r.amount ELSE 0)
  BY <1>1, <1>2, AmountMore
<1>5. \A d \in CalendarDays : \A types :
         AmountOf(incomes', d, types)
           = AmountOf(incomes, d, types) + (IF DayOf(moment) = d /\ t \in types THEN a ELSE 0)
  BY <1>2, <1>4
<1>6. ASSUME \A i \in DOMAIN incomes : incomes[i].type # "REALIZED_PNL", NEW i \in DOMAIN incomes'
      PROVE  incomes'[i].type # "REALIZED_PNL"
  <2>1. (i \in DOMAIN incomes /\ incomes'[i] = incomes[i]) \/ incomes'[i] = r
    BY <1>1, <1>2
  <2> QED
    BY <1>0, <1>2, <1>6, <2>1
<1> QED
  BY <1>3, <1>5, <1>6

LEMMA OpenTradeOK == BookFine /\ AccountFine /\ OpenTrade => BookFine' /\ AccountFine'
<1> SUFFICES ASSUME BookFine, AccountFine, OpenTrade PROVE BookFine' /\ AccountFine'
  OBVIOUS
<1> DEFINE d0 == DayOf(moment)
<1>1. d0 \in CalendarDays
  BY Today
<1>2. Arise(<<<<"COMMISSION", -1>>>>) /\ Gain(-1) /\ holding' = holding + 1
      /\ UNCHANGED <<reports, moment, closures, losses>>
  BY DEF OpenTrade, Fee
<1>3. /\ incomes' \in Seq(IncomeRow)
      /\ \A d \in CalendarDays : \A types :
            AmountOf(incomes', d, types)
              = AmountOf(incomes, d, types) + (IF d0 = d /\ "COMMISSION" \in types THEN -1 ELSE 0)
      /\ (\A i \in DOMAIN incomes : incomes[i].type # "REALIZED_PNL")
            => \A i \in DOMAIN incomes' : incomes'[i].type # "REALIZED_PNL"
  BY <1>2, OneRow
<1>4. /\ wallet' \in [CalendarDays -> Int]
      /\ \A d \in CalendarDays : wallet'[d] = wallet[d] + (IF d = d0 THEN -1 ELSE 0)
  BY <1>2, GainIs
<1> HIDE DEF d0
<1>5. BookFine'
  BY <1>2, <1>3, <1>4 DEF BookFine
<1>6. CASE reports
  <2>1. \A d \in CalendarDays : wallet[d] = AmountOf(incomes, d, AllTypes)
    BY <1>6 DEF AccountFine
  <2>2. \A d \in CalendarDays : wallet'[d] = AmountOf(incomes', d, AllTypes)
    BY <1>3, <1>4, <2>1 DEF AllTypes
  <2> QED
    BY <1>2, <1>5, <1>6, <2>2 DEF AccountFine
<1>7. CASE ~reports
  <2>1. ASSUME NEW d \in CalendarDays PROVE Gap'[d] = Gap[d] + (IF d = d0 THEN 1 ELSE 0)
    <3>1. Gap[d] = PnlOf(closures, d) + AmountOf(incomes, d, {"FUNDING_FEE"}) - wallet[d]
      BY GapIs
    <3>2. Gap'[d] = PnlOf(closures, d) + AmountOf(incomes', d, {"FUNDING_FEE"}) - wallet'[d]
      BY <1>2 DEF Gap
    <3>3. AmountOf(incomes', d, {"FUNDING_FEE"}) = AmountOf(incomes, d, {"FUNDING_FEE"}) + 0
      BY <1>3
    <3>4. PnlOf(closures, d) \in Int /\ AmountOf(incomes, d, {"FUNDING_FEE"}) \in Int /\ wallet[d] \in Int
      BY SumsAreInt DEF BookFine
    <3> QED
      BY <1>4, <3>1, <3>2, <3>3, <3>4
  <2>2. SumFunctionOnSet(Gap, CalendarDays)' = SumFunctionOnSet(Gap, CalendarDays) + 1
    BY <1>1, <1>5, <2>1, GapMoves
  <2>3. SumFunctionOnSet(Gap, CalendarDays) = holding /\ \A i \in DOMAIN incomes : incomes[i].type # "REALIZED_PNL"
    BY <1>7 DEF AccountFine
  <2>4. (SumFunctionOnSet(Gap, CalendarDays) = holding)'
    BY <1>2, <2>2, <2>3
  <2>5. ~reports' /\ \A i \in DOMAIN incomes' : incomes'[i].type # "REALIZED_PNL"
    BY <1>2, <1>3, <1>7, <2>3
  <2> QED
    BY <1>5, <2>4, <2>5 DEF AccountFine
<1> QED
  BY <1>5, <1>6, <1>7

LEMMA SettleFundingOK == BookFine /\ AccountFine /\ SettleFunding => BookFine' /\ AccountFine'
<1> SUFFICES ASSUME BookFine, AccountFine, SettleFunding PROVE BookFine' /\ AccountFine'
  OBVIOUS
<1> DEFINE d0 == DayOf(moment)
<1>1. d0 \in CalendarDays
  BY Today
<1>2. Arise(<<<<"FUNDING_FEE", -1>>>>) /\ Gain(-1)
      /\ UNCHANGED <<reports, moment, holding, closures, losses>>
  BY DEF SettleFunding, Fee
<1>3. /\ incomes' \in Seq(IncomeRow)
      /\ \A d \in CalendarDays : \A types :
            AmountOf(incomes', d, types)
              = AmountOf(incomes, d, types) + (IF d0 = d /\ "FUNDING_FEE" \in types THEN -1 ELSE 0)
      /\ (\A i \in DOMAIN incomes : incomes[i].type # "REALIZED_PNL")
            => \A i \in DOMAIN incomes' : incomes'[i].type # "REALIZED_PNL"
  BY <1>2, OneRow
<1>4. /\ wallet' \in [CalendarDays -> Int]
      /\ \A d \in CalendarDays : wallet'[d] = wallet[d] + (IF d = d0 THEN -1 ELSE 0)
  BY <1>2, GainIs
<1> HIDE DEF d0
<1>5. BookFine'
  BY <1>2, <1>3, <1>4 DEF BookFine
<1>6. CASE reports
  <2>1. \A d \in CalendarDays : wallet[d] = AmountOf(incomes, d, AllTypes)
    BY <1>6 DEF AccountFine
  <2>2. \A d \in CalendarDays : wallet'[d] = AmountOf(incomes', d, AllTypes)
    BY <1>3, <1>4, <2>1 DEF AllTypes
  <2> QED
    BY <1>2, <1>5, <1>6, <2>2 DEF AccountFine
<1>7. CASE ~reports
  <2>1. ASSUME NEW d \in CalendarDays PROVE Gap'[d] = Gap[d] + (IF d = d0 THEN 0 ELSE 0)
    <3>1. Gap[d] = PnlOf(closures, d) + AmountOf(incomes, d, {"FUNDING_FEE"}) - wallet[d]
      BY GapIs
    <3>2. Gap'[d] = PnlOf(closures, d) + AmountOf(incomes', d, {"FUNDING_FEE"}) - wallet'[d]
      BY <1>2 DEF Gap
    <3>3. AmountOf(incomes', d, {"FUNDING_FEE"}) = AmountOf(incomes, d, {"FUNDING_FEE"}) + (IF d0 = d THEN -1 ELSE 0)
      BY <1>3
    <3>4. PnlOf(closures, d) \in Int /\ AmountOf(incomes, d, {"FUNDING_FEE"}) \in Int /\ wallet[d] \in Int
      BY SumsAreInt DEF BookFine
    <3> QED
      BY <1>4, <3>1, <3>2, <3>3, <3>4
  <2>2. SumFunctionOnSet(Gap, CalendarDays)' = SumFunctionOnSet(Gap, CalendarDays) + 0
    BY <1>1, <1>5, <2>1, GapMoves
  <2>3. SumFunctionOnSet(Gap, CalendarDays) = holding /\ \A i \in DOMAIN incomes : incomes[i].type # "REALIZED_PNL"
    BY <1>7 DEF AccountFine
  <2>4. (SumFunctionOnSet(Gap, CalendarDays) = holding)'
    BY <1>2, <2>2, <2>3 DEF BookFine
  <2>5. ~reports' /\ \A i \in DOMAIN incomes' : incomes'[i].type # "REALIZED_PNL"
    BY <1>2, <1>3, <1>7, <2>3
  <2> QED
    BY <1>5, <2>4, <2>5 DEF AccountFine
<1> QED
  BY <1>5, <1>6, <1>7

\* The two rows of a close on an exchange that reports profits.
LEMMA TwoRows ==
  ASSUME BookFine, NEW p \in Int, Arise(<<<<"COMMISSION", -1>>, <<"REALIZED_PNL", p>>>>)
  PROVE  /\ incomes' \in Seq(IncomeRow)
         /\ \A d \in CalendarDays :
               AmountOf(incomes', d, AllTypes)
                 = AmountOf(incomes, d, AllTypes) + (IF DayOf(moment) = d THEN p - 1 ELSE 0)
<1> DEFINE d0 == DayOf(moment)
           r == [type |-> "COMMISSION", amount |-> -1, at |-> moment]
           w == [type |-> "REALIZED_PNL", amount |-> p, at |-> moment]
           q == Append(incomes, r)
<1>0. "COMMISSION" \in AllTypes /\ "REALIZED_PNL" \in AllTypes
  BY DEF AllTypes
<1>1. incomes' = Append(q, w)
  BY <1>0, ArisesTwo
<1>2. /\ r \in IncomeRow /\ r.type \in AllTypes /\ r.amount = -1 /\ DayOf(r.at) = d0
      /\ w \in IncomeRow /\ w.type \in AllTypes /\ w.amount = p /\ DayOf(w.at) = d0
  BY <1>0, Today DEF IncomeRow
<1>3. incomes \in Seq(IncomeRow)
  BY DEF BookFine
<1> HIDE DEF r, w, d0
<1>4. q \in Seq(IncomeRow)
  BY <1>2, <1>3
<1>5. \A d : AmountOf(q, d, AllTypes) = AmountOf(incomes, d, AllTypes) + (IF d0 = d THEN -1 ELSE 0)
  BY <1>2, <1>3, AmountMore
<1> HIDE DEF q
<1>6. \A d : AmountOf(incomes', d, AllTypes) = AmountOf(q, d, AllTypes) + (IF d0 = d THEN p ELSE 0)
  BY <1>1, <1>2, <1>4, AmountMore
<1>7. \A d : AmountOf(incomes, d, AllTypes) \in Int
  BY SumsAreInt
<1>8. ASSUME NEW d \in CalendarDays
      PROVE  AmountOf(incomes', d, AllTypes) = AmountOf(incomes, d, AllTypes) + (IF d0 = d THEN p - 1 ELSE 0)
  BY <1>5, <1>6, <1>7
<1>9. incomes' \in Seq(IncomeRow)
  BY <1>1, <1>2, <1>4
<1> QED
  BY <1>8, <1>9 DEF d0

LEMMA CloseTradeOK == BookFine /\ AccountFine /\ CloseTrade => BookFine' /\ AccountFine'
<1> SUFFICES ASSUME BookFine, AccountFine, CloseTrade PROVE BookFine' /\ AccountFine'
  OBVIOUS
<1> DEFINE d0 == DayOf(moment)
<1>1. d0 \in CalendarDays /\ d0 \in Int
  BY Today DEF DayOf
<1>2. PICK p \in Profits :
         /\ Arise(IF reports THEN <<<<"COMMISSION", -1>>, <<"REALIZED_PNL", p>>>> ELSE <<<<"COMMISSION", -1>>>>)
         /\ Gain(p - 1)
         /\ closures' = Append(closures, [day |-> d0, pnl |-> p - 2])
  <2>1. PICK p \in Profits :
           /\ Arise(IF reports THEN <<<<"COMMISSION", -Fee>>, <<"REALIZED_PNL", p>>>> ELSE <<<<"COMMISSION", -Fee>>>>)
           /\ Gain(p - Fee)
           /\ closures' = Append(closures, [day |-> DayOf(moment), pnl |-> p - 2 * Fee])
    BY DEF CloseTrade
  <2>2. Fee = 1 /\ 2 * Fee = 2 /\ -Fee = -1
    BY DEF Fee
  <2> QED
    BY <2>1, <2>2
<1>3. p \in Int /\ p - 1 \in Int /\ p - 2 \in Int
  BY BookAssumption
<1>4. holding > 0 /\ holding' = holding - 1 /\ UNCHANGED <<reports, moment, losses>>
  BY DEF CloseTrade
<1>5. /\ wallet' \in [CalendarDays -> Int]
      /\ \A d \in CalendarDays : wallet'[d] = wallet[d] + (IF d = d0 THEN p - 1 ELSE 0)
  BY <1>2, <1>3, GainIs
<1> DEFINE c == [day |-> d0, pnl |-> p - 2]
<1>6. c \in Closure /\ c.day = d0 /\ c.pnl = p - 2 /\ closures \in Seq(Closure) /\ closures' = Append(closures, c)
  BY <1>1, <1>2, <1>3 DEF Closure, BookFine
<1> HIDE DEF c, d0
<1>7. closures' \in Seq(Closure)
  BY <1>6
<1>8. \A d : PnlOf(closures', d) = PnlOf(closures, d) + (IF d0 = d THEN p - 2 ELSE 0)
  BY <1>6, PnlMore
<1>9. CASE reports
  <2>1. Arise(<<<<"COMMISSION", -1>>, <<"REALIZED_PNL", p>>>>)
    BY <1>2, <1>9
  <2>2. /\ incomes' \in Seq(IncomeRow)
        /\ \A d \in CalendarDays :
              AmountOf(incomes', d, AllTypes) = AmountOf(incomes, d, AllTypes) + (IF d0 = d THEN p - 1 ELSE 0)
    BY <1>3, <2>1, TwoRows DEF d0
  <2>3. \A d \in CalendarDays : wallet[d] = AmountOf(incomes, d, AllTypes)
    BY <1>9 DEF AccountFine
  <2>4. \A d \in CalendarDays : wallet'[d] = AmountOf(incomes', d, AllTypes)
    BY <1>5, <2>2, <2>3
  <2>5. BookFine'
    BY <1>4, <1>5, <1>7, <2>2 DEF BookFine
  <2> QED
    BY <1>4, <1>9, <2>4, <2>5 DEF AccountFine
<1>10. CASE ~reports
  <2>0. Arise(<<<<"COMMISSION", -1>>>>)
    BY <1>2, <1>10
  <2>1. /\ incomes' \in Seq(IncomeRow)
        /\ \A d \in CalendarDays : \A types :
              AmountOf(incomes', d, types)
                = AmountOf(incomes, d, types) + (IF d0 = d /\ "COMMISSION" \in types THEN -1 ELSE 0)
        /\ (\A i \in DOMAIN incomes : incomes[i].type # "REALIZED_PNL")
              => \A i \in DOMAIN incomes' : incomes'[i].type # "REALIZED_PNL"
    BY <2>0, OneRow DEF d0
  <2>2. BookFine'
    BY <1>4, <1>5, <1>7, <2>1 DEF BookFine
  <2>3. ASSUME NEW d \in CalendarDays PROVE Gap'[d] = Gap[d] + (IF d = d0 THEN -1 ELSE 0)
    <3>1. Gap[d] = PnlOf(closures, d) + AmountOf(incomes, d, {"FUNDING_FEE"}) - wallet[d]
      BY GapIs
    <3>2. Gap'[d] = PnlOf(closures', d) + AmountOf(incomes', d, {"FUNDING_FEE"}) - wallet'[d]
      BY DEF Gap
    <3>3. AmountOf(incomes', d, {"FUNDING_FEE"}) = AmountOf(incomes, d, {"FUNDING_FEE"}) + 0
      BY <2>1
    <3>4. PnlOf(closures, d) \in Int /\ AmountOf(incomes, d, {"FUNDING_FEE"}) \in Int /\ wallet[d] \in Int
      BY SumsAreInt DEF BookFine
    <3> QED
      BY <1>3, <1>5, <1>8, <3>1, <3>2, <3>3, <3>4
  <2>4. SumFunctionOnSet(Gap, CalendarDays)' = SumFunctionOnSet(Gap, CalendarDays) - 1
    <3>1. d0 \in CalendarDays /\ -1 \in Int
      BY <1>1
    <3>2. SumFunctionOnSet(Gap, CalendarDays)' = SumFunctionOnSet(Gap, CalendarDays) + (-1)
      BY <2>2, <2>3, <3>1, GapMoves
    <3>3. SumFunctionOnSet(Gap, CalendarDays) = holding /\ holding \in Nat
      BY <1>10 DEF AccountFine, BookFine
    <3> QED
      BY <3>2, <3>3
  <2>5. SumFunctionOnSet(Gap, CalendarDays) = holding /\ \A i \in DOMAIN incomes : incomes[i].type # "REALIZED_PNL"
    BY <1>10 DEF AccountFine
  <2>6. (SumFunctionOnSet(Gap, CalendarDays) = holding)'
    BY <1>4, <2>4, <2>5
  <2>7. ~reports' /\ \A i \in DOMAIN incomes' : incomes'[i].type # "REALIZED_PNL"
    BY <1>4, <1>10, <2>1, <2>5
  <2> QED
    BY <2>2, <2>6, <2>7 DEF AccountFine
<1> QED
  BY <1>9, <1>10

\* The steps that leave the account alone.
LEMMA AccountStays ==
  BookFine /\ AccountFine /\ moment' \in 0..MaxMoment /\ losses' \in Nat
     /\ UNCHANGED <<reports, incomes, holding, closures, wallet>> => BookFine' /\ AccountFine'
<1> SUFFICES ASSUME BookFine, AccountFine, moment' \in 0..MaxMoment, losses' \in Nat,
                    UNCHANGED <<reports, incomes, holding, closures, wallet>>
             PROVE  BookFine' /\ AccountFine'
  OBVIOUS
<1>1. BookFine'
  BY DEF BookFine
<1>2. Gap' = Gap
  BY DEF Gap
<1>3. AccountFine'
  BY <1>2 DEF AccountFine
<1> QED
  BY <1>1, <1>3

\* One sync moves; the table only grows.
LEMMA SyncMoves ==
  ASSUME SyncsFine, NEW s \in Syncs, NEW v, sync' = [sync EXCEPT ![s] = v],
         DOMAIN v = {"pc", "rows", "fresh"},
         v.pc = "known" => v.rows \subseteq book' \cup v.fresh, book \subseteq book'
  PROVE  SyncsFine'
<1>1. DOMAIN sync = Syncs /\ DOMAIN sync' = Syncs /\ sync'[s] = v
  BY DEF SyncsFine
<1>2. \A t \in Syncs \ {s} : sync'[t] = sync[t]
  BY <1>1
<1>3. ASSUME NEW t \in Syncs
      PROVE  /\ DOMAIN sync'[t] = {"pc", "rows", "fresh"}
             /\ sync'[t].pc = "known" => sync'[t].rows \subseteq book' \cup sync'[t].fresh
  <2>1. CASE t = s
    BY <1>1, <2>1
  <2>2. CASE t # s
    BY <1>2, <2>2 DEF SyncsFine
  <2> QED
    BY <2>1, <2>2
<1> QED
  BY <1>1, <1>3 DEF SyncsFine

LEMMA SyncRests ==
  ASSUME SyncsFine, book \subseteq book', \E s \in Syncs : sync' = [sync EXCEPT ![s] = SyncRest]
  PROVE  SyncsFine'
<1>1. DOMAIN SyncRest = {"pc", "rows", "fresh"} /\ SyncRest.pc # "known"
  BY DEF SyncRest
<1> QED
  BY <1>1, SyncMoves

LEMMA BookStep == BookInv /\ [BookNext]_bookVars => BookInv'
<1> SUFFICES ASSUME BookInv, [BookNext]_bookVars PROVE BookInv'
  OBVIOUS
<1> USE DEF BookInv
<1>1. BookFine' /\ AccountFine'
  <2>1. MaxMoment \in Nat /\ moment \in 0..MaxMoment /\ losses \in Nat
    BY BookAssumption DEF BookFine
  <2>2. CASE OpenTrade
    BY <2>2, OpenTradeOK
  <2>3. CASE CloseTrade
    BY <2>3, CloseTradeOK
  <2>4. CASE SettleFunding
    BY <2>4, SettleFundingOK
  <2>5. CASE Later
    BY <2>1, <2>5, AccountStays DEF Later
  <2>6. CASE SyncLost
    BY <2>1, <2>6, AccountStays DEF SyncLost
  <2>7. CASE Post \/ SyncFetch \/ SyncKnown \/ SyncInsert \/ UNCHANGED bookVars
    BY <2>1, <2>7, AccountStays DEF Post, SyncFetch, SyncKnown, SyncInsert, bookVars
  <2> QED
    BY <2>2, <2>3, <2>4, <2>5, <2>6, <2>7 DEF BookNext
<1>2. SyncsFine'
  <2>1. CASE SyncFetch
    <3>1. book' = book
      BY <2>1 DEF SyncFetch
    <3>2. PICK s \in Syncs :
             sync' = [sync EXCEPT ![s] = [pc |-> "fetched", rows |-> PageSince(moment - Window), fresh |-> {}]]
      BY <2>1 DEF SyncFetch
    <3> DEFINE v == [pc |-> "fetched", rows |-> PageSince(moment - Window), fresh |-> {}]
    <3>3. DOMAIN v = {"pc", "rows", "fresh"} /\ v.pc # "known"
      OBVIOUS
    <3> HIDE DEF v
    <3>4. sync' = [sync EXCEPT ![s] = v]
      BY <3>2 DEF v
    <3> QED
      BY <3>1, <3>3, <3>4, SyncMoves
  <2>2. CASE SyncKnown
    <3>1. book' = book
      BY <2>2 DEF SyncKnown
    <3>2. PICK s \in Syncs :
             sync' = [sync EXCEPT ![s] = IF sync[s].rows \subseteq book THEN SyncRest
                                         ELSE [sync[s] EXCEPT !.pc = "known", !.fresh = sync[s].rows \ book]]
      BY <2>2 DEF SyncKnown
    <3>3. CASE sync[s].rows \subseteq book
      BY <3>1, <3>2, <3>3, SyncRests
    <3>4. CASE ~(sync[s].rows \subseteq book)
      <4> DEFINE v == [sync[s] EXCEPT !.pc = "known", !.fresh = sync[s].rows \ book]
      <4>1. DOMAIN v = {"pc", "rows", "fresh"} /\ v.rows = sync[s].rows /\ v.fresh = sync[s].rows \ book
        BY DEF SyncsFine
      <4>2. sync' = [sync EXCEPT ![s] = v]
        BY <3>2, <3>4
      <4> HIDE DEF v
      <4>3. v.rows \subseteq book' \cup v.fresh
        BY <3>1, <4>1
      <4> QED
        BY <3>1, <4>1, <4>2, <4>3, SyncMoves
    <3> QED
      BY <3>3, <3>4
  <2>3. CASE SyncInsert
    <3>1. PICK s \in Syncs : book' = book \cup sync[s].fresh /\ sync' = [sync EXCEPT ![s] = SyncRest]
      BY <2>3 DEF SyncInsert, Inserted
    <3> QED
      BY <3>1, SyncRests
  <2>4. CASE SyncLost
    BY <2>4, SyncRests DEF SyncLost
  <2>5. CASE UNCHANGED <<sync, book>>
    BY <2>5 DEF SyncsFine
  <2> QED
    BY <2>1, <2>2, <2>3, <2>4, <2>5
    DEF BookNext, OpenTrade, CloseTrade, SettleFunding, Post, Later, bookVars
<1> QED
  BY <1>1, <1>2

LEMMA FiledStep ==
  BookInv /\ [BookNext]_bookVars =>
     [losses' = losses =>
        \A s \in Syncs : (sync[s].pc # "rest" /\ sync'[s].pc = "rest") => sync[s].rows \subseteq book']_bookVars
<1> SUFFICES ASSUME BookInv, [BookNext]_bookVars, losses' = losses,
                    NEW s \in Syncs, sync[s].pc # "rest", sync'[s].pc = "rest"
             PROVE  sync[s].rows \subseteq book'
  BY DEF bookVars
<1> USE DEF BookInv, SyncsFine
<1>1. CASE SyncFetch
  BY <1>1 DEF SyncFetch
<1>2. CASE SyncKnown
  BY <1>2 DEF SyncKnown, SyncRest
<1>3. CASE SyncInsert
  BY <1>3 DEF SyncInsert, SyncRest, Inserted
<1>4. CASE SyncLost
  <2>1. losses' = losses + 1 /\ losses \in Nat
    BY <1>4 DEF SyncLost, BookFine
  <2> QED
    BY <2>1
<1>5. CASE UNCHANGED sync
  BY <1>5
<1> QED
  BY <1>1, <1>2, <1>3, <1>4, <1>5
  DEF BookNext, OpenTrade, CloseTrade, SettleFunding, Post, Later, bookVars

LEMMA DayIs ==
  ASSUME BookFine, book = RowIds, NEW d \in CalendarDays
  PROVE  /\ DaySummary(d).net = AmountOf(incomes, d, AllTypes)
         /\ DaySummary(d).fundingFee = AmountOf(incomes, d, {"FUNDING_FEE"})
         /\ DaySummary(d).realizedCount = Cardinality(RowsOf(incomes, d, {"REALIZED_PNL"}))
         /\ PnlCalendar[d] = IF DaySummary(d).realizedCount > 0 THEN DaySummary(d).net
                             ELSE PnlOf(closures, d) + DaySummary(d).fundingFee
<1>1. book = DOMAIN incomes
  BY DEF RowIds
<1>2. /\ DaySummary(d).net = AmountOf(incomes, d, AllTypes)
      /\ DaySummary(d).fundingFee = AmountOf(incomes, d, {"FUNDING_FEE"})
      /\ DaySummary(d).realizedCount = Cardinality(RowsOf(incomes, d, {"REALIZED_PNL"}))
  BY <1>1 DEF DaySummary, RowIds, AmountOf, RowsOf, AllTypes
<1>3. PnlCalendar[d] = IF DaySummary(d).realizedCount > 0 THEN DaySummary(d).net
                       ELSE LotsOn(d) + DaySummary(d).fundingFee
  BY DEF PnlCalendar, MergePnlCalendar
<1>4. LotsOn(d) = PnlOf(closures, d)
  BY DEF LotsOn, PnlOf
<1> QED
  BY <1>2, <1>3, <1>4

LEMMA CalendarTells == BookInv => CalendarIsAccount
<1> SUFFICES ASSUME BookFine, AccountFine, book = RowIds
             PROVE  \/ reports /\ \A d \in CalendarDays : DaySummary(d).realizedCount > 0 => PnlCalendar[d] = wallet[d]
                    \/ ~reports /\ (holding = 0 =>
                          SumFunction([d \in CalendarDays |-> PnlCalendar[d] - wallet[d]]) = 0)
  BY DEF BookInv, CalendarIsAccount
<1>1. CASE reports
  <2>1. ASSUME NEW d \in CalendarDays, DaySummary(d).realizedCount > 0 PROVE PnlCalendar[d] = wallet[d]
    <3>1. PnlCalendar[d] = DaySummary(d).net
      BY <2>1, DayIs
    <3>2. DaySummary(d).net = AmountOf(incomes, d, AllTypes)
      BY DayIs
    <3>3. wallet[d] = AmountOf(incomes, d, AllTypes)
      BY <1>1 DEF AccountFine
    <3> QED
      BY <3>1, <3>2, <3>3
  <2> QED
    BY <1>1, <2>1
<1>2. CASE ~reports
  <2> DEFINE f == [d \in CalendarDays |-> PnlCalendar[d] - wallet[d]]
  <2>1. ASSUME NEW d \in CalendarDays PROVE PnlCalendar[d] - wallet[d] = Gap[d]
    <3>1. RowsOf(incomes, d, {"REALIZED_PNL"}) = {}
      BY <1>2 DEF AccountFine, RowsOf
    <3>2. DaySummary(d).realizedCount = 0
      BY <3>1, DayIs, FS_EmptySet
    <3>3. PnlCalendar[d] = PnlOf(closures, d) + DaySummary(d).fundingFee
      BY <3>2, DayIs
    <3>4. DaySummary(d).fundingFee = AmountOf(incomes, d, {"FUNDING_FEE"})
      BY DayIs
    <3>5. Gap[d] = PnlOf(closures, d) + AmountOf(incomes, d, {"FUNDING_FEE"}) - wallet[d]
      BY GapIs
    <3>6. PnlOf(closures, d) \in Int /\ AmountOf(incomes, d, {"FUNDING_FEE"}) \in Int /\ wallet[d] \in Int
      BY SumsAreInt DEF BookFine
    <3> QED
      BY <3>3, <3>4, <3>5, <3>6
  <2>2. f = Gap
    BY <2>1 DEF Gap
  <2>3. SumFunction(f) = SumFunctionOnSet(f, CalendarDays)
    BY DEF SumFunction, SumFunctionOnSet, FoldFunction
  <2>4. SumFunctionOnSet(Gap, CalendarDays) = holding
    BY <1>2 DEF AccountFine
  <2> QED
    BY <1>2, <2>2, <2>3, <2>4
<1> QED
  BY <1>1, <1>2

LEMMA BookInitially == BookInit => BookInv
<1> SUFFICES ASSUME BookInit PROVE BookInv
  OBVIOUS
<1>1. MaxMoment \in Nat /\ Exchanges \subseteq BOOLEAN
  BY BookAssumption
<1>2. BookFine
  BY <1>1 DEF BookInit, BookFine
<1>3. SyncsFine
  BY DEF BookInit, SyncsFine, SyncRest
<1>4. incomes = <<>> /\ closures = <<>> /\ DOMAIN incomes = {} /\ DOMAIN closures = {}
      /\ holding = 0 /\ \A d \in CalendarDays : wallet[d] = 0
  BY DEF BookInit
<1>5. \A d, types : AmountOf(incomes, d, types) = 0
  <2>1. \A d, types : RowsOf(incomes, d, types) = {}
    BY <1>4 DEF RowsOf
  <2> QED
    BY <2>1, SumNothing DEF AmountOf
<1>6. \A d : PnlOf(closures, d) = 0
  <2>1. \A d : {i \in DOMAIN closures : closures[i].day = d} = {}
    BY <1>4
  <2> QED
    BY <2>1, SumNothing DEF PnlOf
<1>7. \A d \in CalendarDays : Gap[d] = 0
  BY <1>2, <1>4, <1>5, <1>6, GapIs
<1>8. SumFunctionOnSet(Gap, CalendarDays) = 0
  <2>1. \A n \in {0} : n \in Int
    OBVIOUS
  <2> QED
    BY <1>7, SumZeros, DaysFinite
<1>9. AccountFine
  BY <1>4, <1>5, <1>8 DEF AccountFine
<1> QED
  BY <1>2, <1>3, <1>9 DEF BookInv

\* Only the desk of the books touches the book.
LEMMA BookOnly ==
  ASSUME [Next]_vars
  PROVE  [BookNext]_bookVars
BY DEF Next, Trading, Keeping, keptVars, vars, bookVars

LEMMA BookDeskInit == Init => BookInv
BY BookInitially DEF Init, BookIdle

\* What a sync has fetched is in the table when it is done, unless it failed, however two
\* syncs overlap; and with every row in the table, in whatever order they came, the calendar
\* gives what the account really gained (IncomeService.sync, dailySummaryByDay,
\* mergePnlCalendar).
THEOREM BooksAreWhole == Spec => BookIsWhole
<1>1. BookInv /\ [Next]_vars => BookInv'
  BY BookOnly, BookStep
<1>2. Spec => []BookInv
  BY <1>1, BookDeskInit, PTL DEF Spec
<1>3. BookInv /\ [Next]_vars =>
        [losses' = losses =>
           \A s \in Syncs : (sync[s].pc # "rest" /\ sync'[s].pc = "rest") => sync[s].rows \subseteq book']_bookVars
  BY BookOnly, FiledStep
<1>4. Spec => FetchedIsFiled
  BY <1>2, <1>3, PTL DEF Spec, FetchedIsFiled
<1>5. Spec => []CalendarIsAccount
  BY <1>2, CalendarTells, PTL
<1> QED
  BY <1>4, <1>5, PTL DEF BookIsWhole

-----------------------------------------------------------------------------
(* The archive: one queue for every file keeps each of them in order.        *)

OrderFine ==
  /\ hour \in Int
  /\ \E U : files \in [Slugs \X Days -> Seq(U)]
  /\ \E U : backlog \in Seq(U)
  /\ \A j \in DOMAIN backlog : backlog[j].line.ts \in Int /\ backlog[j].line.ts <= hour
  /\ \A i, j \in DOMAIN backlog : i < j => backlog[i].line.ts <= backlog[j].line.ts
  /\ \A f \in DOMAIN files : \A i \in DOMAIN files[f] :
        /\ files[f][i].ts \in Int /\ files[f][i].ts <= hour
        /\ \A j \in DOMAIN backlog : files[f][i].ts <= backlog[j].line.ts

OrderInv == OrderFine /\ FilesInOrder

\* A line is written at the hour of its event.
LEMMA EventIs == \A own, line : Event(own, line).line.ts = hour
BY DEF Event, Stamped

LEMMA QueuedOK ==
  ASSUME OrderInv, NEW e, e.line.ts = hour, backlog' = Append(backlog, e), UNCHANGED <<hour, files>>
  PROVE  OrderInv'
<1>1. PICK U : backlog \in Seq(U)
  BY DEF OrderInv, OrderFine
<1> DEFINE n == Len(backlog)
<1>2. /\ n \in Nat /\ DOMAIN backlog = 1..n /\ DOMAIN backlog' = 1..(n + 1)
      /\ backlog'[n + 1] = e /\ \A i \in 1..n : backlog'[i] = backlog[i]
      /\ backlog' \in Seq(U \cup {e})
  <2>1. backlog \in Seq(U \cup {e}) /\ e \in U \cup {e}
    BY <1>1
  <2> QED
    BY <2>1
<1> HIDE DEF n
<1>3. hour \in Int
  BY DEF OrderInv, OrderFine
<1>4. \A j \in DOMAIN backlog' : backlog'[j].line.ts \in Int /\ backlog'[j].line.ts <= hour
  <2> SUFFICES ASSUME NEW j \in DOMAIN backlog' PROVE backlog'[j].line.ts \in Int /\ backlog'[j].line.ts <= hour
    OBVIOUS
  <2>1. CASE j = n + 1
    BY <1>2, <1>3, <2>1
  <2>2. CASE j \in 1..n
    BY <1>2, <2>2 DEF OrderInv, OrderFine
  <2> QED
    BY <1>2, <2>1, <2>2
<1>5. ASSUME NEW i \in DOMAIN backlog', NEW j \in DOMAIN backlog', i < j
      PROVE  backlog'[i].line.ts <= backlog'[j].line.ts
  <2>1. i \in 1..n
    BY <1>2, <1>5
  <2>2. CASE j = n + 1
    BY <1>2, <2>1, <2>2 DEF OrderInv, OrderFine
  <2>3. CASE j \in 1..n
    BY <1>2, <1>5, <2>1, <2>3 DEF OrderInv, OrderFine
  <2> QED
    BY <1>2, <2>2, <2>3
<1>6. ASSUME NEW f \in DOMAIN files, NEW i \in DOMAIN files[f], NEW j \in DOMAIN backlog'
      PROVE  files[f][i].ts <= backlog'[j].line.ts
  <2>1. CASE j = n + 1
    BY <1>2, <2>1 DEF OrderInv, OrderFine
  <2>2. CASE j \in 1..n
    BY <1>2, <2>2 DEF OrderInv, OrderFine
  <2> QED
    BY <1>2, <2>1, <2>2
<1>7. /\ \E V : files \in [Slugs \X Days -> Seq(V)]
      /\ \A f \in DOMAIN files : \A i \in DOMAIN files[f] : files[f][i].ts \in Int /\ files[f][i].ts <= hour
  BY DEF OrderInv, OrderFine
<1>8. OrderFine'
  BY <1>2, <1>3, <1>4, <1>5, <1>6, <1>7 DEF OrderFine
<1> QED
  BY <1>8 DEF OrderInv, FilesInOrder

LEMMA TailIs ==
  ASSUME NEW U, backlog \in Seq(U), backlog # <<>>, backlog' = Tail(backlog)
  PROVE  /\ backlog' \in Seq(U) /\ Len(backlog) \in Nat
         /\ DOMAIN backlog = 1..Len(backlog) /\ DOMAIN backlog' = 1..(Len(backlog) - 1)
         /\ 1 \in DOMAIN backlog /\ Head(backlog) = backlog[1]
         /\ \A i \in DOMAIN backlog' : i + 1 \in DOMAIN backlog /\ backlog'[i] = backlog[i + 1]
OBVIOUS

LEMMA AppendFailsOK == OrderInv /\ AppendFails => OrderInv'
<1> SUFFICES ASSUME OrderInv, AppendFails PROVE OrderInv'
  OBVIOUS
<1>1. PICK U : backlog \in Seq(U)
  BY DEF OrderInv, OrderFine
<1>2. backlog # <<>> /\ backlog' = Tail(backlog) /\ UNCHANGED <<hour, files>>
  BY DEF AppendFails
<1>3. /\ backlog' \in Seq(U)
      /\ \A i \in DOMAIN backlog' : i \in Int /\ i + 1 \in DOMAIN backlog /\ backlog'[i] = backlog[i + 1]
  BY <1>1, <1>2, TailIs
<1>4. OrderFine'
  BY <1>2, <1>3 DEF OrderInv, OrderFine
<1> QED
  BY <1>2, <1>4 DEF OrderInv, FilesInOrder

LEMMA AppendLineOK == OrderInv /\ AppendLine => OrderInv'
<1> SUFFICES ASSUME OrderInv, AppendLine PROVE OrderInv'
  OBVIOUS
<1>1. PICK U : backlog \in Seq(U)
  BY DEF OrderInv, OrderFine
<1>2. PICK V : files \in [Slugs \X Days -> Seq(V)]
  BY DEF OrderInv, OrderFine
<1> DEFINE line == Head(backlog).line
           g == Head(backlog).file
           W == V \cup {line}
<1>3. backlog # <<>> /\ backlog' = Tail(backlog) /\ UNCHANGED hour
      /\ files' = [files EXCEPT ![g] = Append(files[g], line)]
  BY DEF AppendLine
<1>4. /\ backlog' \in Seq(U)
      /\ \A i \in DOMAIN backlog' : i \in Int /\ i + 1 \in DOMAIN backlog /\ 1 < i + 1 /\ backlog'[i] = backlog[i + 1]
      /\ 1 \in DOMAIN backlog /\ line = backlog[1].line
  BY <1>1, <1>3, TailIs
<1> HIDE DEF line, g
<1>5. hour \in Int /\ line.ts \in Int /\ line.ts <= hour
  BY <1>4 DEF OrderInv, OrderFine
<1>6. \A j \in DOMAIN backlog' : line.ts <= backlog'[j].line.ts
  BY <1>4 DEF OrderInv, OrderFine
<1>7. files \in [Slugs \X Days -> Seq(W)] /\ line \in W
  <2>1. Seq(V) \subseteq Seq(W)
    OBVIOUS
  <2> QED
    BY <1>2, <2>1
<1> HIDE DEF W
<1>8. files' \in [Slugs \X Days -> Seq(W)]
  <2> DEFINE D == Slugs \X Days
  <2>1. files \in [D -> Seq(W)]
    BY <1>7
  <2> HIDE DEF D
  <2>2. CASE g \in D
    <3>1. Append(files[g], line) \in Seq(W)
      BY <1>7, <2>1, <2>2
    <3>2. files' \in [D -> Seq(W)]
      BY <1>3, <2>1, <3>1
    <3> QED
      BY <3>2 DEF D
  <2>3. CASE g \notin D
    <3>1. files' = files
      BY <1>3, <2>1, <2>3
    <3> QED
      BY <1>7, <3>1
  <2> QED
    BY <2>2, <2>3
\* What a file has next: what it had, and perhaps the line.
<1>9. ASSUME NEW f \in DOMAIN files', NEW i \in DOMAIN files'[f]
      PROVE  /\ f \in DOMAIN files /\ i \in Int
             /\ \/ i \in DOMAIN files[f] /\ files'[f][i] = files[f][i]
                \/ files'[f][i] = line /\ \A k \in DOMAIN files'[f] : k # i => k < i /\ k \in DOMAIN files[f]
  <2>0. f \in Slugs \X Days /\ f \in DOMAIN files /\ files[f] \in Seq(W)
    BY <1>7, <1>8, <1>9
  <2>1. CASE f # g
    <3>1. files'[f] = files[f]
      BY <1>3, <2>0, <2>1
    <3> QED
      BY <2>0, <3>1, <1>9
  <2>2. CASE f = g
    <3>1. files'[f] = Append(files[f], line)
      BY <1>3, <2>0, <2>2
    <3> DEFINE n == Len(files[f])
    <3>2. /\ n \in Nat /\ DOMAIN files[f] = 1..n /\ DOMAIN files'[f] = 1..(n + 1)
          /\ files'[f][n + 1] = line /\ \A k \in 1..n : files'[f][k] = files[f][k]
      BY <1>7, <2>0, <3>1
    <3> HIDE DEF n
    <3> QED
      BY <2>0, <3>2, <1>9
  <2> QED
    BY <2>1, <2>2
<1>10. \A f \in DOMAIN files' : \A i \in DOMAIN files'[f] :
         /\ files'[f][i].ts \in Int /\ files'[f][i].ts <= hour
         /\ \A j \in DOMAIN backlog' : files'[f][i].ts <= backlog'[j].line.ts
  <2> SUFFICES ASSUME NEW f \in DOMAIN files', NEW i \in DOMAIN files'[f]
               PROVE  /\ files'[f][i].ts \in Int /\ files'[f][i].ts <= hour
                      /\ \A j \in DOMAIN backlog' : files'[f][i].ts <= backlog'[j].line.ts
    OBVIOUS
  <2>1. CASE files'[f][i] = line
    BY <1>5, <1>6, <2>1
  <2>2. CASE i \in DOMAIN files[f] /\ files'[f][i] = files[f][i]
    BY <1>4, <1>9, <2>2 DEF OrderInv, OrderFine
  <2> QED
    BY <1>9, <2>1, <2>2
<1>11. OrderFine'
  <2>1. \A j \in DOMAIN backlog' : backlog'[j].line.ts \in Int /\ backlog'[j].line.ts <= hour
    BY <1>4 DEF OrderInv, OrderFine
  <2>2. \A i, j \in DOMAIN backlog' : i < j => backlog'[i].line.ts <= backlog'[j].line.ts
    BY <1>4 DEF OrderInv, OrderFine
  <2> QED
    BY <1>3, <1>4, <1>5, <1>8, <1>10, <2>1, <2>2 DEF OrderFine
<1>12. ASSUME NEW f \in DOMAIN files', NEW i \in DOMAIN files'[f], NEW j \in DOMAIN files'[f], i < j
       PROVE  files'[f][i].ts <= files'[f][j].ts
  <2>1. i \in Int /\ j \in Int /\ f \in DOMAIN files
    BY <1>9
  <2>2. CASE j \in DOMAIN files[f] /\ files'[f][j] = files[f][j]
    <3>1. i \in DOMAIN files[f] /\ files'[f][i] = files[f][i]
      BY <1>9, <1>12, <2>1, <2>2
    <3> QED
      BY <1>12, <2>1, <2>2, <3>1 DEF OrderInv, FilesInOrder
  <2>3. CASE files'[f][j] = line
    <3>1. CASE files'[f][i] = line
      BY <1>5, <2>3, <3>1
    <3>2. CASE i \in DOMAIN files[f] /\ files'[f][i] = files[f][i]
      <4>1. files[f][i].ts <= backlog[1].line.ts
        BY <1>4, <2>1, <3>2 DEF OrderInv, OrderFine
      <4> QED
        BY <1>4, <2>3, <3>2, <4>1
    <3> QED
      BY <1>9, <3>1, <3>2
  <2> QED
    BY <1>9, <2>2, <2>3
<1> QED
  BY <1>11, <1>12 DEF OrderInv, FilesInOrder

\* An opening or a settlement writes a line or none.
LEMMA JobOK == OrderInv /\ (OpenLot \/ SettleLot \/ \E k \in 1 .. MaxJobs : JobStep(k)) => OrderInv'
<1> SUFFICES ASSUME OrderInv, OpenLot \/ SettleLot \/ \E k \in 1 .. MaxJobs : JobStep(k)
             PROVE  OrderInv'
  OBVIOUS
<1>1. UNCHANGED <<hour, files>>
  BY DEF OpenLot, SettleLot, JobStep, AttachLot, CloseLot, ReadBasket, ReadLayers, SaveBasket, TellLot
<1>2. backlog' = backlog \/ \E own, line : backlog' = Append(backlog, Event(own, line))
  <2>1. CASE OpenLot \/ SettleLot
    BY <2>1 DEF OpenLot, SettleLot
  <2>2. ASSUME NEW k \in 1 .. MaxJobs, AttachLot(k) \/ CloseLot(k) \/ ReadBasket(k) \/ ReadLayers(k)
        PROVE  backlog' = backlog
    BY <2>2 DEF AttachLot, CloseLot, ReadBasket, ReadLayers
  <2>3. ASSUME NEW k \in 1 .. MaxJobs, SaveBasket(k) \/ TellLot(k)
        PROVE  backlog' = backlog \/ \E own, line : backlog' = Append(backlog, Event(own, line))
    BY <2>3 DEF SaveBasket, TellLot
  <2> QED
    BY <2>1, <2>2, <2>3 DEF JobStep
<1>3. CASE backlog' = backlog
  BY <1>1, <1>3 DEF OrderInv, OrderFine, FilesInOrder
<1>4. CASE \E own, line : backlog' = Append(backlog, Event(own, line))
  BY <1>1, <1>4, EventIs, QueuedOK
<1> QED
  BY <1>2, <1>3, <1>4

LEMMA TraceOK ==
  ASSUME OrderInv, UNCHANGED <<hour, files>>, NEW key, NEW armed, NEW snap, EmitExitTrace(key, armed, snap)
  PROVE  OrderInv'
<1>1. \/ backlog' = backlog
      \/ \E line : backlog' = Append(backlog, Event(TRUE, line))
  BY DEF EmitExitTrace
<1>2. CASE backlog' = backlog
  BY <1>2 DEF OrderInv, OrderFine, FilesInOrder
<1>3. CASE \E line : backlog' = Append(backlog, Event(TRUE, line))
  BY <1>3, EventIs, QueuedOK
<1> QED
  BY <1>1, <1>2, <1>3

LEMMA CheckBasketExitOK == OrderInv /\ CheckBasketExit => OrderInv'
<1> SUFFICES ASSUME OrderInv, CheckBasketExit PROVE OrderInv'
  OBVIOUS
<1>1. UNCHANGED <<hour, files>> /\ \E key, armed, snap : EmitExitTrace(key, armed, snap)
  BY DEF CheckBasketExit
<1> QED
  BY <1>1, TraceOK

LEMMA ArchiveStep == OrderInv /\ [ArchiveNext]_archiveVars => OrderInv'
<1> SUFFICES ASSUME OrderInv, [ArchiveNext]_archiveVars PROVE OrderInv'
  OBVIOUS
<1>1. CASE Pass
  <2>1. hour \in Int /\ hour' = hour + 1 /\ UNCHANGED <<backlog, files>>
    BY <1>1 DEF Pass, OrderInv, OrderFine
  <2>2. OrderFine'
    BY <2>1 DEF OrderInv, OrderFine
  <2> QED
    BY <2>1, <2>2 DEF OrderInv, FilesInOrder
<1>2. CASE UNCHANGED archiveVars
  BY <1>2 DEF OrderInv, OrderFine, FilesInOrder, archiveVars, accountVars
<1> QED
  BY <1>1, <1>2, AppendLineOK, AppendFailsOK, JobOK, CheckBasketExitOK DEF ArchiveNext

LEMMA ArchiveInitially == ArchiveInit => OrderInv
<1> SUFFICES ASSUME ArchiveInit PROVE OrderInv
  OBVIOUS
<1>1. /\ hour = 0 /\ backlog = <<>> /\ backlog \in Seq({}) /\ DOMAIN backlog = {}
      /\ files \in [Slugs \X Days -> Seq({})] /\ DOMAIN files = Slugs \X Days
      /\ \A f \in DOMAIN files : DOMAIN files[f] = {}
  BY DEF ArchiveInit
<1>2. OrderFine
  BY <1>1 DEF OrderFine
<1> QED
  BY <1>1, <1>2 DEF OrderInv, FilesInOrder

\* Only the desk of the archive touches it.
LEMMA ArchiveOnly ==
  ASSUME [Next]_vars
  PROVE  [ArchiveNext]_archiveVars
BY DEF Next, Trading, Keeping, keptVars, vars, archiveVars, accountVars

\* Every file of the archive is in the order in which its events happened, however slowly
\* lines are written and whichever of them fail (append in trade-record.service).
THEOREM FilesKeepOrder == Spec => []FilesInOrder
<1>1. OrderInv /\ [Next]_vars => OrderInv'
  BY ArchiveOnly, ArchiveStep
<1>2. Init => OrderInv
  BY ArchiveInitially DEF Init
<1>3. OrderInv => FilesInOrder
  BY DEF OrderInv
<1> QED
  BY <1>1, <1>2, <1>3, PTL DEF Spec
=============================================================================
