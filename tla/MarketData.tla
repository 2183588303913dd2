----------------------------- MODULE MarketData -----------------------------
(***************************************************************************)
(* The market service: the history of a symbol at its first use, the       *)
(* simulated feed when the exchange cannot be reached, the kline and the   *)
(* ticker stream of the default symbol with the heartbeat that attaches a  *)
(* silent one again, and the hourly recovery.                              *)
(*                                                                         *)
(* Time is counted in heartbeat periods.  What a price is does not matter  *)
(* here, and a candle is its opening time.                                 *)
(***************************************************************************)
EXTENDS Registry, CandleStore

CONSTANTS
  DefaultSymbol,
  Step,         \* length of a candle: [intervals -> Nat]
  KlineStale,   \* silence of the kline stream that makes the heartbeat act
  TickerStale,  \* the same of the ticker stream
  MaxWrites,    \* writes under way when the feeds go on (bounds the model)
  MaxTime       \* bounds the model

Period == 1     \* of the heartbeat
Streams == {"kline", "ticker"}
Hourly == "hourly"
Jobs == Symbols \cup {Hourly}

ASSUME MarketAssumption ==
  /\ DefaultSymbol \in Symbols /\ Hourly \notin Symbols
  /\ Step \in [Intervals -> Nat \ {0}]
  /\ KlineStale \in Nat \ {0} /\ TickerStale \in Nat \ {0}
  /\ MaxTime \in Nat /\ MaxWrites \in Nat \ {0}

VARIABLES
  now, beat,   \* the time, and the time of the next heartbeat
  symbols,     \* this.symbols
  feeds,       \* symbols with a simulated feed
  source,      \* this.source
  job,         \* bootstrap() of a symbol and recoverMarket(): control and locals
  stream       \* the streams: env of the adapter that was captured, whether
               \* the sockets deliver, lastKlineAt and lastTickAt, wsConnected

marketVars == <<storeVars, now, beat, symbols, feeds, source, job, stream>>

NoJob == [pc |-> "idle", sym |-> DefaultSymbol, i |-> 1, account |-> FromEnv,
          adapter |-> NoAdapter, left |-> {}]
Start(s) == [NoJob EXCEPT !.pc = "load", !.sym = s]
NoStream == [pc |-> "off", account |-> FromEnv, up |-> [x \in Streams |-> FALSE],
             heard |-> [x \in Streams |-> 0]]

MarketInit ==
  /\ store = Nothing
  /\ rows = [k \in Keys |-> {}]
  /\ dropped = {}
  /\ now = 0 /\ beat = MaxTime + 1
  /\ symbols = {DefaultSymbol}
  /\ feeds = {}
  /\ source = "simulated"
  /\ job = [j \in Jobs |-> IF j = DefaultSymbol THEN Start(j) ELSE NoJob]
  /\ stream = NoStream

Opening(i, t) == (t \div Step[i]) * Step[i]
History(i) ==
  [n \in 1..HistoryCount[i] |-> Opening(i, now) - (HistoryCount[i] - n) * Step[i]]

Key(j) == <<job[j].sym, Timeframes[job[j].i]>>
Go(j, pc) == job' = [job EXCEPT ![j].pc = pc]
LastInterval(j) == job[j].i = Len(Timeframes)
Booting(j) == j # Hourly

(***************************************************************************)
(* bootstrap(): the rows of the table first, then the exchange, then the   *)
(* simulation.  Nobody else uses the buffers of a symbol that is loaded.   *)
(***************************************************************************)
LoadRows(j) ==
  /\ job[j].pc = "load"
  /\ store' = [store EXCEPT !.buffer =
       [k \in Keys |-> IF k[1] = job[j].sym /\ rows[k] # {} THEN Load(k) ELSE @[k]]]
  /\ Go(j, "get")
  /\ UNCHANGED <<registryVars, rows, dropped, now, beat, symbols, feeds, source, stream>>

EnsureSymbol(s) ==
  /\ s \notin symbols
  /\ job[DefaultSymbol].pc = "idle"      \* requests come after the modules
  /\ Happens
  /\ symbols' = symbols \cup {s}
  /\ job' = [job EXCEPT ![s] = Start(s)]
  /\ UNCHANGED <<saved, adapters, cache, stale, storeVars, now, beat, feeds, source, stream>>

(***************************************************************************)
(* refreshFromExchange(): the adapter, then every interval in turn; the    *)
(* first failure ends it, and what was replaced before stays.              *)
(***************************************************************************)
JobGet(j) ==
  /\ job[j].pc = "get"
  /\ job' = [job EXCEPT ![j] =
       IF Hit THEN [@ EXCEPT !.pc = "fetch", !.adapter = cache]
              ELSE [@ EXCEPT !.pc = "row", !.account = saved]]
  /\ UNCHANGED <<registryVars, storeVars, now, beat, symbols, feeds, source, stream>>

JobAdapter(j) ==
  /\ job[j].pc = "row"
  /\ Create(job[j].account)
  /\ job' = [job EXCEPT ![j].pc = "fetch", ![j].adapter = Len(adapters) + 1]
  /\ UNCHANGED <<saved, stale, budget, storeVars, now, beat, symbols, feeds, source, stream>>

FetchInterval(j) ==
  /\ job[j].pc = "fetch"
  /\ store' = PersistAll(ReplaceBuffer(store, Key(j), History(Key(j)[2])), Key(j), j)
  /\ Go(j, "persist")
  /\ UNCHANGED <<registryVars, rows, dropped, now, beat, symbols, feeds, source, stream>>

\* the hourly round goes on with another symbol, the bootstrap simulates
NextSymbol(j) ==
  IF job[j].left = {} THEN job' = [job EXCEPT ![j] = NoJob]
  ELSE \E s \in job[j].left :
         job' = [job EXCEPT ![j] = [NoJob EXCEPT !.pc = "get", !.sym = s,
                                                 !.left = job[j].left \ {s}]]

FetchFails(j) ==
  /\ job[j].pc = "fetch"
  /\ IF Booting(j) THEN /\ job' = [job EXCEPT ![j].pc = "simulate", ![j].i = 1]
                        /\ feeds' = feeds \cup {job[j].sym}
                   ELSE NextSymbol(j) /\ UNCHANGED feeds
  /\ UNCHANGED <<registryVars, storeVars, now, beat, symbols, source, stream>>

(***************************************************************************)
(* The job waits for its write.  When the last interval is written the     *)
(* bootstrap knows its source; the recovery leaves it as it is.            *)
(***************************************************************************)
Refreshed(j) ==
  IF Booting(j) THEN source' = "live" /\ job' = [job EXCEPT ![j] = NoJob]
                ELSE UNCHANGED source /\ NextSymbol(j)

Returns(owner) ==
  \E w \in store.writes :
    /\ w.by = owner
    /\ \/ WriteReturns(w, TRUE) /\ UNCHANGED budget
       \/ WriteReturns(w, FALSE) /\ Happens

JobWritten(j) ==
  /\ job[j].pc \in {"persist", "keep"}
  /\ Returns(j)
  /\ IF ~LastInterval(j)
       THEN /\ job' = [job EXCEPT ![j].i = @ + 1,
                         ![j].pc = IF @ = "persist" THEN "fetch" ELSE "simulate"]
            /\ UNCHANGED source
       ELSE IF job[j].pc = "persist" THEN Refreshed(j)
       ELSE source' = "simulated" /\ job' = [job EXCEPT ![j] = NoJob]
  /\ UNCHANGED <<saved, adapters, cache, stale, now, beat, symbols, feeds, stream>>

FlushWritten ==
  /\ Returns("flush")
  /\ UNCHANGED <<saved, adapters, cache, stale, now, beat, symbols, feeds, source, job, stream>>

\* startSimulation(): a history for every interval that has none
SimulateInterval(j) ==
  /\ job[j].pc = "simulate"
  /\ IF Has(Key(j))
       THEN /\ UNCHANGED store
            /\ IF LastInterval(j)
                 THEN source' = "simulated" /\ job' = [job EXCEPT ![j] = NoJob]
                 ELSE UNCHANGED source /\ job' = [job EXCEPT ![j].i = @ + 1]
       ELSE /\ store' = PersistAll(ReplaceBuffer(store, Key(j), History(Key(j)[2])),
                                   Key(j), j)
            /\ Go(j, "keep")
            /\ UNCHANGED source
  /\ UNCHANGED <<registryVars, rows, dropped, now, beat, symbols, feeds, stream>>

\* recoverMarket(), once an hour and only while the market is simulated
RecoverMarket ==
  /\ source = "simulated"
  /\ job[Hourly].pc = "idle"
  /\ job[DefaultSymbol].pc = "idle"
  /\ Happens
  /\ \E s \in symbols :
       job' = [job EXCEPT ![Hourly] = [NoJob EXCEPT !.pc = "get", !.sym = s,
                                                    !.left = symbols \ {s}]]
  /\ UNCHANGED <<saved, adapters, cache, stale, storeVars, now, beat, symbols, feeds,
                 source, stream>>

(***************************************************************************)
(* The streams.  A price makes the current candle of every longer interval *)
(* follow, and what that closes waits for the next flush.                  *)
(***************************************************************************)
Follow(st, s) ==
  LET follow == {k \in Keys : /\ k[1] = s /\ k[2] # Head(Timeframes)
                              /\ st.buffer[k] # <<>>}
  IN  UpsertAll(st, [k \in follow |-> Opening(k[2], now)])

ApplyCandle(st, s, c) ==
  LET k == <<s, Head(Timeframes)>>
      put == Upsert(st, k, c)
      followed == IF IsNew(st, k, c) THEN Follow(put, s) ELSE put
  IN  IF Closes(st, k, c) THEN Flush(followed) ELSE followed

\* a socket that never delivers is one that dies before its first frame
Attach(st, xs) ==
  [st EXCEPT !.pc = "on",
             !.heard = [x \in Streams |-> IF x \in xs THEN now ELSE @[x]],
             !.up = [x \in Streams |-> x \in xs \/ @[x]]]
Bounded == Cardinality(store.writes) < MaxWrites

\* bootstrap of the default symbol is awaited before the streams start
StartWebSocket ==
  /\ stream.pc = "off"
  /\ job[DefaultSymbol].pc = "idle"
  /\ IF Hit THEN /\ stream' = [Attach(stream, Streams) EXCEPT
                                 !.account = adapters[cache].account]
                 /\ beat' = now + Period
            ELSE stream' = [stream EXCEPT !.pc = "row", !.account = saved] /\ UNCHANGED beat
  /\ UNCHANGED <<registryVars, storeVars, now, symbols, feeds, source, job>>

StreamAdapter ==
  /\ stream.pc = "row"
  /\ Create(stream.account)
  /\ stream' = Attach(stream, Streams)
  /\ beat' = now + Period
  /\ UNCHANGED <<saved, stale, budget, storeVars, now, symbols, feeds, source, job>>

\* a frame of the current candle, or a late one of the candle before
KlineFrame ==
  /\ stream.pc = "on" /\ stream.up["kline"] /\ Bounded
  /\ \E t \in {Opening(Head(Timeframes), now), Opening(Head(Timeframes), now) - Step[Head(Timeframes)]} :
       store' = ApplyCandle(store, DefaultSymbol, t)
  /\ stream' = [stream EXCEPT !.heard["kline"] = now]
  /\ source' = "live"
  /\ UNCHANGED <<registryVars, rows, dropped, now, beat, symbols, feeds, job>>

\* a simulated market is not touched by quotes
Quote ==
  /\ stream.pc = "on" /\ stream.up["ticker"]
  /\ stream' = [stream EXCEPT !.heard["ticker"] = now]
  /\ store' = IF source = "live" THEN Follow(store, DefaultSymbol) ELSE store
  /\ UNCHANGED <<registryVars, rows, dropped, now, beat, symbols, feeds, source, job>>

SocketDies(x) ==
  /\ stream.up[x]
  /\ Happens
  /\ stream' = [stream EXCEPT !.up[x] = FALSE]
  /\ UNCHANGED <<saved, adapters, cache, stale, storeVars, now, beat, symbols, feeds,
                 source, job>>

(***************************************************************************)
(* The heartbeat judges each stream by itself and attaches it again.       *)
(***************************************************************************)
Fresh(x, limit) == now - stream.heard[x] < limit

Silent == {x \in Streams : ~Fresh(x, IF x = "kline" THEN KlineStale ELSE TickerStale)}

Heartbeat ==
  /\ now = beat
  /\ stream' = Attach(stream, Silent)
  /\ beat' = now + Period
  /\ UNCHANGED <<registryVars, storeVars, now, symbols, feeds, source, job>>

(***************************************************************************)
(* pumpSimulation(): every interval of every simulated symbol takes the    *)
(* new price, and what that closes is flushed at once.                     *)
(***************************************************************************)
Longer(i, j) == \A n, m \in DOMAIN Timeframes : Timeframes[n] = i /\ Timeframes[m] = j => m <= n

PumpSimulation ==
  /\ source = "simulated" /\ Bounded
  /\ job[DefaultSymbol].pc = "idle"      \* the scheduler starts after the modules
  /\ LET priced == {k \in Keys : k[1] \in feeds /\ Has(k)}
         closing == {k \in priced : Closes(store, k, Opening(k[2], now))}
         put == UpsertAll(store, [k \in priced |-> Opening(k[2], now)])
         own(k) == {<<k, Last(Buffered(k))>>}
         flushed(first) ==     \* the first flush takes what waits of the other keys
           {[rows |-> IF k = first THEN own(k) \cup {x \in Waiting(store) : x[1] # k} ELSE own(k),
             by |-> "flush"] : k \in closing}
     IN IF closing = {} THEN store' = put
        ELSE \E first \in closing :
               /\ \A k \in closing : k[1] = first[1] => Longer(k[2], first[2])
               /\ store' = [put EXCEPT !.pending = [k \in Keys |-> {}],
                                       !.writes = @ \cup flushed(first)]
  /\ UNCHANGED <<registryVars, rows, dropped, now, beat, symbols, feeds, source, job, stream>>

Tick ==
  /\ now < MaxTime /\ now < beat
  /\ now' = now + 1
  /\ UNCHANGED <<registryVars, storeVars, beat, symbols, feeds, source, job, stream>>

\* the process dies and starts again: only the tables are left
Restart ==
  /\ Happens
  /\ saved' = SeedFromEnv
  /\ adapters' = <<>> /\ cache' = NoAdapter /\ stale' = FALSE
  /\ store' = Nothing
  /\ dropped' = {}
  /\ symbols' = {DefaultSymbol}
  /\ feeds' = {}
  /\ source' = "simulated"
  /\ job' = [j \in Jobs |-> IF j = DefaultSymbol THEN Start(j) ELSE NoJob]
  /\ stream' = NoStream
  /\ beat' = MaxTime + 1
  /\ UNCHANGED <<rows, now>>

MarketNext ==
  \/ \E j \in Jobs : \/ LoadRows(j) \/ JobGet(j) \/ JobAdapter(j) \/ FetchInterval(j)
                     \/ FetchFails(j) \/ JobWritten(j) \/ SimulateInterval(j)
  \/ \E s \in Symbols : EnsureSymbol(s)
  \/ FlushWritten \/ RecoverMarket
  \/ StartWebSocket \/ StreamAdapter \/ KlineFrame \/ Quote \/ Heartbeat
  \/ \E x \in Streams : SocketDies(x)
  \/ PumpSimulation \/ Tick \/ Restart

(***************************************************************************)
(* Properties.                                                             *)
(***************************************************************************)

(* "Each stream is judged by itself, and the one that broke is attached    *)
(* again" (startWebSocket): while the streams run, neither has been silent *)
(* for its limit and a heartbeat more without having been attached again,  *)
(* however lively the other one is.                                        *)
SilenceBounded ==
  stream.pc = "on" =>
    /\ now - stream.heard["kline"] < KlineStale + Period
    /\ now - stream.heard["ticker"] < TickerStale + Period

(* What the market service has heard it keeps, and what it should hear it  *)
(* asks for.                                                               *)
FeedIsSound == ClosedIsOnItsWay /\ SilenceBounded
=============================================================================
