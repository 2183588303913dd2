---------------------------- MODULE SignalRounds ----------------------------
(***************************************************************************)
(* Instances of one signal strategy on their symbols.  The runner ticks one *)
(* instance at a time, but the strategy is one object: what it remembers is *)
(* shared by its instances, and starting or stopping any of them forgets    *)
(* it for all.  A tick reads a context and then looks at its lots one after *)
(* the other, awaiting every close; orders are booked later.                *)
(***************************************************************************)
EXTENDS SignalRules

CONSTANTS
    Instances, Strategies,
    Weather,          \* what the candles and the account say besides the price
    MaxPrice, MaxNow, MaxLots,
    LateBooking,      \* an order may be accepted before its lot is known
    Restarts          \* instances may stop and start again

NormalParams ==
    /\ ChandelierK \in 1..10 /\ MaxHold \in Nat \ {0} /\ Cooldown \in Nat
    /\ {TakeProfit, StopLoss, StopAtrMult} \subseteq Nat \ {0}
    /\ RiskPct \in 1..5 /\ SizingAtr \in 1..5 /\ MaxLeverage \in 1..20 /\ {Base, QtyUnit} \subseteq Nat \ {0}

ASSUME SignalAssumption ==
    /\ NormalParams
    /\ Strategies \subseteq Kinds /\ LateBooking \in BOOLEAN /\ Restarts \in BOOLEAN

VARIABLES
    kind,       \* the strategy
    price, now,
    running,    \* the instances that run
    late,       \* instances stopped while the round that took them is under way
    lots,       \* [id, inst, dir, entry, opened, state]
    flight,     \* accepted market orders without a lot
    made,       \* orders accepted so far
    mem,        \* the fields of the strategy object
    ctx,        \* the context of the tick under way, NoTick between ticks
    todo        \* its lots not looked at yet

vars == <<kind, price, now, running, late, lots, flight, made, mem, ctx, todo>>

NoTick == [inst |-> "nobody"]

Init ==
    /\ kind \in Strategies
    /\ price = (MaxPrice + 1) \div 2 /\ now = 0
    /\ running = Instances /\ late = {}
    /\ lots = {} /\ flight = {} /\ made = 0
    /\ mem = [Forget EXCEPT !.closedAt = -99]
    /\ ctx = NoTick /\ todo = {}

-----------------------------------------------------------------------------
(* A tick. *)

View(l) == [id |-> l.id, dir |-> l.dir, entry |-> l.entry, opened |-> l.opened,
            busy |-> l.state # "open"]
Context(i, w) ==
    [inst |-> i, price |-> price, now |-> now, lots |-> {View(l) : l \in {x \in lots : x.inst = i}},
     low |-> w.low, mid |-> w.mid, up |-> w.up, xlow |-> w.xlow, xup |-> w.xup, atr |-> w.atr,
     average |-> w.average, ranging |-> w.ranging, rsi |-> w.rsi, equity |-> w.equity]

\* buildContext for the next instance of the round: a round goes over the
\* instances that ran when it began.
Observe(i) ==
    /\ ctx = NoTick /\ i \in running \cup late
    /\ late' = {}
    /\ ctx' \in {Context(i, w) : w \in Weather}
    /\ todo' = {l.id : l \in ctx'.lots}
    /\ UNCHANGED <<kind, price, now, running, lots, flight, made, mem>>

Skip(l) ==
    /\ l.busy
    /\ UNCHANGED <<lots, mem>>

Hold(l) ==
    LET seen == Look(kind, ctx, mem, l)
    IN /\ ~l.busy /\ seen.exit = "none"
       /\ mem' = seen.mem
       /\ UNCHANGED <<lots>>

\* closeLot: the lot is closing, or the order was refused and the lot counts as
\* closing for a while (one that failed before its order was recorded is one
\* whose while is over at once).
Close(l) ==
    LET seen == Look(kind, ctx, mem, l)
    IN /\ ~l.busy /\ seen.exit # "none"
       /\ \/ \E x \in lots :
              /\ x.id = l.id /\ x.state = "open"
              /\ lots' = (lots \ {x}) \cup {[x EXCEPT !.state = "closing"]}
              /\ mem' = Closed(ctx, seen.mem, l.id)
          \/ /\ lots' = {IF x.id = l.id /\ x.state = "open" THEN [x EXCEPT !.state = "refused"]
                         ELSE x : x \in lots}
             /\ mem' = seen.mem

LookAt(l) ==
    /\ l.id \in todo
    /\ Skip(l) \/ Hold(l) \/ Close(l)
    /\ todo' = todo \ {l.id}
    /\ ctx' = IF todo' = {} THEN NoTick ELSE ctx
    /\ UNCHANGED <<kind, price, now, running, late, flight, made>>

Stand ==
    /\ ctx # NoTick /\ ctx.lots = {}
    /\ Entries(kind, ctx, mem) = {}
    /\ ctx' = NoTick
    /\ UNCHANGED <<kind, price, now, running, late, lots, flight, made, mem, todo>>

Lot(id, i, d, entry) ==
    [id |-> id, inst |-> i, dir |-> d, entry |-> entry, opened |-> now, state |-> "open"]

\* openLot: refused, booked at once, or accepted without a lot yet.
Enter ==
    /\ ctx # NoTick /\ ctx.lots = {} /\ made < MaxLots
    /\ \E d \in Entries(kind, ctx, mem) :
        \/ UNCHANGED <<lots, flight, made, mem>>
        \/ /\ lots' = lots \cup {Lot(made + 1, ctx.inst, d, ctx.price)}
           /\ mem' = Entered(kind, ctx, mem, made + 1, d)
           /\ made' = made + 1
           /\ UNCHANGED flight
        \/ /\ LateBooking
           /\ flight' = flight \cup {[id |-> made + 1, inst |-> ctx.inst, dir |-> d, entry |-> ctx.price]}
           /\ made' = made + 1
           /\ UNCHANGED <<lots, mem>>
    /\ ctx' = NoTick
    /\ UNCHANGED <<kind, price, now, running, late, todo>>

\* The bound on the orders lets a tick that would enter do nothing.
Full ==
    /\ ctx # NoTick /\ ctx.lots = {} /\ made = MaxLots
    /\ ctx' = NoTick
    /\ UNCHANGED <<kind, price, now, running, late, lots, flight, made, mem, todo>>

-----------------------------------------------------------------------------
(* The market, the exchange, the user and the runner's commands.  What the   *)
(* tick under way cannot see until the next one happens between ticks; the   *)
(* commands do happen within one.                                            *)

Move ==
    /\ ctx = NoTick
    /\ price' \in {price - 1, price + 1} \cap 1..MaxPrice
    /\ UNCHANGED <<kind, now, running, late, lots, flight, made, mem, ctx, todo>>

Pass ==
    /\ ctx = NoTick /\ now < MaxNow
    /\ now' = now + 1
    /\ UNCHANGED <<kind, price, running, late, lots, flight, made, mem, ctx, todo>>

Book(f) ==
    /\ ctx = NoTick
    /\ flight' = flight \ {f}
    /\ lots' = lots \cup {Lot(f.id, f.inst, f.dir, f.entry)}
    /\ UNCHANGED <<kind, price, now, running, late, made, mem, ctx, todo>>

\* The close fills; a refused one counts as closing until its back-off is over.
Settle(l) ==
    /\ ctx = NoTick
    /\ \/ l.state = "closing" /\ lots' = lots \ {l}
       \/ l.state = "refused" /\ lots' = (lots \ {l}) \cup {[l EXCEPT !.state = "open"]}
    /\ UNCHANGED <<kind, price, now, running, late, flight, made, mem, ctx, todo>>

\* A protective stop or the user closes the lot.
ClosedOutside(l) ==
    /\ ctx = NoTick /\ l.state = "open"
    /\ lots' = lots \ {l}
    /\ UNCHANGED <<kind, price, now, running, late, flight, made, mem, ctx, todo>>

\* onStop forgets the lots, whoever holds them; the pause is kept.
Stop(i) ==
    /\ Restarts /\ i \in running
    /\ running' = running \ {i}
    /\ late' = IF ctx = NoTick \/ ctx.inst = i THEN late ELSE late \cup {i}
    /\ mem' = [Forget EXCEPT !.closedAt = mem.closedAt]
    /\ UNCHANGED <<kind, price, now, lots, flight, made, ctx, todo>>

\* onStart forgets the pause too.
Start(i) ==
    /\ Restarts /\ i \notin running
    /\ running' = running \cup {i} /\ late' = late \ {i}
    /\ mem' = Forget
    /\ UNCHANGED <<kind, price, now, lots, flight, made, ctx, todo>>

Tick ==
    \/ \E i \in Instances : Observe(i)
    \/ ctx # NoTick /\ \E l \in ctx.lots : LookAt(l)
    \/ Stand \/ Enter \/ Full

Next ==
    \/ Tick \/ Move \/ Pass
    \/ \E f \in flight : Book(f)
    \/ \E l \in lots : Settle(l) \/ ClosedOutside(l)
    \/ \E i \in Instances : Stop(i) \/ Start(i)

Spec == Init /\ [][Next]_vars

-----------------------------------------------------------------------------
(* Properties. *)

\* While the object remembers a trailing stop it only moves towards the price,
\* over every tick of every instance and over closes that were refused.
TrailOnlyTightens ==
    [][\A l \in lots : l.id \in DOMAIN mem.stops \cap DOMAIN mem'.stops =>
          Tighter(l.dir, mem.stops[l.id], mem'.stops[l.id]) = mem'.stops[l.id]]_vars

\* A tick never passes over a lot that is older than MaxHold, although what the
\* object knew of it may have been forgotten in between.
AgedLotsClose ==
    [][\A l \in lots : /\ l.id \in todo \ todo' /\ l.state = "open"
                       /\ [id |-> l.id, busy |-> FALSE] \in {[id |-> v.id, busy |-> v.busy] : v \in ctx.lots}
                       /\ ctx.now - l.opened >= MaxHold
          => l \notin lots']_vars
=============================================================================
