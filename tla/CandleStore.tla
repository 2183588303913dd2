---------------------------- MODULE CandleStore ----------------------------
(***************************************************************************)
(* The candle store: a bounded buffer per symbol and interval in memory,   *)
(* the closed candles that wait for the next flush, the writes that are    *)
(* under way, and the table market_candles.                                *)
(*                                                                         *)
(* A candle is its opening time: its prices are left out, and so is the    *)
(* market part of the keys, for every caller uses the default one.         *)
(***************************************************************************)
EXTENDS Integers, Sequences, SequencesExt, FiniteSets

CONSTANTS
  Symbols,
  Timeframes,    \* the intervals, shortest first
  HistoryCount,  \* candles kept of a history: [intervals -> Nat]
  MaxBuffer      \* candles kept in memory

Intervals == {Timeframes[i] : i \in DOMAIN Timeframes}
Keys == Symbols \X Intervals

ASSUME StoreAssumption ==
  /\ HistoryCount \in [Intervals -> Nat \ {0}]
  /\ MaxBuffer \in Nat \ {0}
  /\ Timeframes \in Seq(Intervals) \ {<<>>}

VARIABLES
  store,    \* buffer: candles in memory; pending: the candle of a key that
            \* waits for a flush, if any; writes: upserts under way
  rows,     \* the table
  dropped   \* history: <<key, candle>> of the rows a failed write of this life
            \* of the process should have stored

storeVars == <<store, rows, dropped>>

Nothing == [buffer |-> [k \in Keys |-> <<>>], pending |-> [k \in Keys |-> {}],
            writes |-> {}]

Buffered(k) == store.buffer[k]
Has(k) == Buffered(k) # <<>>

\* rows.slice(-n)
Latest(s, n) == IF Len(s) > n THEN SubSeq(s, Len(s) - n + 1, Len(s)) ELSE s

(***************************************************************************)
(* upsert(): a newer candle is appended and closes the one before it, the  *)
(* same opening time is overwritten, an older candle is ignored.           *)
(***************************************************************************)
IsNew(st, k, c) == st.buffer[k] = <<>> \/ c > Last(st.buffer[k])
Closes(st, k, c) == IsNew(st, k, c) /\ st.buffer[k] # <<>>

After(st, k, c) ==
  LET b == st.buffer[k] IN
  IF IsNew(st, k, c) THEN Latest(Append(b, c), MaxBuffer)
  ELSE b               \* of the same time it takes the other's place

\* the candles of several keys at once, at most one of a key
UpsertAll(st, candles) ==
  [st EXCEPT
     !.buffer = [k \in Keys |-> IF k \in DOMAIN candles THEN After(st, k, candles[k]) ELSE @[k]],
     !.pending = [k \in Keys |-> IF k \in DOMAIN candles /\ Closes(st, k, candles[k])
                                   THEN {Last(st.buffer[k])} ELSE @[k]]]

Upsert(st, k, c) == UpsertAll(st, [x \in {k} |-> c])

ReplaceBuffer(st, k, candles) == [st EXCEPT !.buffer[k] = Latest(candles, MaxBuffer)]

(***************************************************************************)
(* flush(): everything pending goes into one upsert, and the map is        *)
(* cleared before the upsert is awaited.  persistAll() writes a buffer.    *)
(***************************************************************************)
Waiting(st) == UNION {{k} \X st.pending[k] : k \in Keys}

\* mutant: one flush at a time, the others are skipped
FlushWhenIdle(st) ==
  IF Waiting(st) = {} \/ st.writes # {} THEN st
  ELSE [st EXCEPT !.pending = [k \in Keys |-> {}],
                  !.writes = {[rows |-> Waiting(st), by |-> "flush"]}]

Flush(st) ==
  IF Waiting(st) = {} THEN st
  ELSE [st EXCEPT !.pending = [k \in Keys |-> {}],
                  !.writes = @ \cup {[rows |-> Waiting(st), by |-> "flush"]}]

PersistAll(st, k, job) ==
  [st EXCEPT !.writes =
     @ \cup {[rows |-> {<<k, c>> : c \in ToSet(st.buffer[k])}, by |-> job]}]

\* load(): openTime ascending, so the oldest rows come first
Load(k) ==
  LET count == Cardinality(rows[k]) IN
  [n \in 1..(IF count < HistoryCount[k[2]] THEN count ELSE HistoryCount[k[2]]) |->
     CHOOSE c \in rows[k] : Cardinality({d \in rows[k] : d < c}) = n - 1]

(***************************************************************************)
(* A write returns: the rows of the same opening time are overwritten, or  *)
(* the error is logged and the candles are gone.                           *)
(***************************************************************************)
Written(w, k) == {x[2] : x \in {y \in w.rows : y[1] = k}}

Committed(w) == rows' = [k \in Keys |-> rows[k] \cup Written(w, k)]

WriteReturns(w, stored) ==
  /\ IF stored THEN Committed(w) /\ UNCHANGED dropped
               ELSE dropped' = dropped \cup w.rows /\ UNCHANGED rows
  /\ store' = [store EXCEPT !.writes = @ \ {w}]

(***************************************************************************)
(* A candle of the shortest interval that was closed is in the table, or   *)
(* waits for a flush, or is in a write under way, or its write failed: no  *)
(* order of frames, refreshes, simulated ticks and returning writes loses  *)
(* it (upsert, flush and persistAll share the pending map).                *)
(***************************************************************************)
OnItsWay(k, t) ==
  \/ t \in rows[k] \cup store.pending[k]
  \/ \E w \in store.writes : t \in Written(w, k)
  \/ <<k, t>> \in dropped

ClosedIsOnItsWay ==
  \A s \in Symbols :
    LET k == <<s, Head(Timeframes)>> IN
    \A i \in 1..(Len(Buffered(k)) - 1) : OnItsWay(k, Buffered(k)[i])
=============================================================================
