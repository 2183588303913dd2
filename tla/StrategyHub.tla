---------------------------- MODULE StrategyHub ----------------------------
(***************************************************************************)
(* The listing of one strategy: the history of research runs and its gate  *)
(* (backtest.service.ts), and the hub that keeps the manifest file and     *)
(* the manifest in memory (strategy-hub.service.ts).  The calls of several *)
(* administrators overlap at every await.  A run row keeps whether its own *)
(* criteria pass; the figures behind them are chosen when it is recorded.  *)
(***************************************************************************)
EXTENDS Integers, Sequences, FiniteSets, SequencesExt, FiniteSetsExt

CONSTANTS Admins,      \* who calls the controller at the same time
          MaxRuns,     \* bound on the recorded runs
          Freshness,   \* GATE_FRESHNESS_DAYS
          MaxUpsets,   \* bound on failed writes, crashes, deleted runs and days that pass
          MaxCalls,    \* bound on the administrators' calls
          None,        \* nothing: no manifest, no reference, no run
          Torn         \* a manifest file that does not parse

ASSUME HubAssumption == {MaxRuns, Freshness, MaxUpsets, MaxCalls} \subseteq Nat

VARIABLES runs,        \* every run recorded: kind, day, its verdict, still there
          today,
          file,        \* the manifest on disk
          shipped,     \* the file is the one of the repository, not written by the hub
          shown,       \* the manifest in memory
          call,        \* what each administrator's request is doing
          calls,       \* how many there were
          upsets

hubVars == <<runs, today, file, shipped, shown, call, calls, upsets>>

Idle == [at |-> "idle"]

Run(kind, day, passes, kept) == [kind |-> kind, day |-> day, passes |-> passes, kept |-> kept]

Refs == [runId : Nat \cup {None}, verdict : {"pass", "overfit"}, ts : Nat, override : BOOLEAN]

ASSUME NoneAssumption == None \notin Refs

----------------------------------------------------------------------------
(* The criteria: a figure is good, bad or was not produced.                *)

Figures == {"good", "bad", "absent"}

\* Without a deflated Sharpe ratio the sweep fails; without neighbours the plateau is skipped.
SweepPasses(f) == f.dsr = "good" /\ f.plateau # "bad"

\* Only the out-of-sample Sharpe ratio may not be missing.
ResearchPasses(f) ==
    f.oosSharpe = "good" /\ "bad" \notin {f.oosMaxDd, f.cpcvP5, f.mcDd95, f.regime, f.pbo}

OneOff(fields) ==
    {[k \in fields |-> "good"]} \cup
        {[k \in fields |-> IF k = x THEN y ELSE "good"] : x \in fields, y \in Figures}

SweepFigures == OneOff({"dsr", "plateau"})

ResearchFigures == OneOff({"oosSharpe", "oosMaxDd", "cpcvP5", "mcDd95", "regime", "pbo"})

\* The newest row of a kind, if it is fresh for a judgement that began on day `since`.
Newest(kind) == {i \in DOMAIN runs : runs[i].kept /\ runs[i].kind = kind
                    /\ \A j \in (i + 1) .. Len(runs) : ~(runs[j].kept /\ runs[j].kind = kind)}

Fresh(kind, since) == {i \in Newest(kind) : runs[i].day + Freshness >= since}

\* Mutant: a strategy without research is judged by its sweep.
PassesBySweep(sweep, research) ==
    /\ sweep # None /\ runs[sweep].passes
    /\ research # None => runs[research].passes

\* The judgement fails on any criterion that fails; a kind without a fresh run fails.
Passes(sweep, research) ==
    /\ sweep # None /\ runs[sweep].passes
    /\ research # None /\ runs[research].passes

OneOrNone(S) == IF S = {} THEN None ELSE CHOOSE i \in S : TRUE

----------------------------------------------------------------------------
(* The hub.                                                                *)

Ref(c, research) ==
    [runId    |-> IF c.sweep # None THEN c.sweep ELSE research,
     verdict  |-> IF Passes(c.sweep, research) THEN "pass" ELSE "overfit",
     ts       |-> today,
     override |-> ~Passes(c.sweep, research) /\ c.force]

\* The manifest object in memory is changed before the file is written.
Remember(c, ref) == IF c.holds THEN [shown EXCEPT !.backtestRef = ref] ELSE shown

\* A request that judges the strategy, and one that writes the file.
Judging(at, since, force, holds, sweep) ==
    [at |-> at, since |-> since, force |-> force, holds |-> holds, sweep |-> sweep]

Writing(at, enabled, ref, alone) ==
    [at |-> at, enabled |-> enabled, ref |-> ref, alone |-> alone]

SetEnabled(a, enabled, force) ==
    /\ call[a].at = "idle" /\ shown # None
    /\ calls < MaxCalls /\ calls' = calls + 1
    /\ IF enabled
         THEN /\ call' = [call EXCEPT ![a] = Judging("sweep", today, force, TRUE, None)]
              /\ UNCHANGED shown
         ELSE /\ shown' = [shown EXCEPT !.backtestRef = None]
              /\ call' = [call EXCEPT ![a] = Writing("open", FALSE, None, TRUE)]
    /\ UNCHANGED <<runs, today, file, shipped, upsets>>

ReadSweep(a) ==
    /\ call[a].at = "sweep"
    /\ call' = [call EXCEPT ![a] =
                  Judging("research", @.since, @.force, @.holds, OneOrNone(Fresh("sweep", @.since)))]
    /\ UNCHANGED <<calls, runs, today, file, shipped, shown, upsets>>

Judge(a) ==
    /\ call[a].at = "research"
    /\ LET c == call[a]
           research == OneOrNone(Fresh("research", c.since))
           ref == Ref(c, research)
       IN  IF ~Passes(c.sweep, research) /\ ~c.force
             THEN call' = [call EXCEPT ![a] = Idle] /\ UNCHANGED shown
             ELSE /\ call' = [call EXCEPT ![a] = Writing("open", TRUE, ref, TRUE)]
                  /\ shown' = Remember(c, ref)
    /\ UNCHANGED <<calls, runs, today, file, shipped, upsets>>

\* The file is emptied when it is opened, and filled afterwards.
OpenFile(a) ==
    /\ call[a].at = "open"
    /\ file' = Torn /\ shipped' = FALSE
    /\ call' = [call EXCEPT ![a] = Writing("fill", @.enabled, @.ref, @.alone)]
    /\ UNCHANGED <<calls, runs, today, shown, upsets>>

\* Two writers that opened the file together may leave a mixture of both texts.
FillFile(a) ==
    /\ call[a].at = "fill"
    /\ file' \in {[enabled |-> call[a].enabled, backtestRef |-> call[a].ref]}
                   \cup (IF call[a].alone THEN {} ELSE {Torn})
    /\ call' = [b \in Admins |->
                  IF b = a THEN [at |-> "load"]
                  ELSE IF call[b].at = "fill" THEN Writing("fill", call[b].enabled, call[b].ref, FALSE)
                  ELSE call[b]]
    /\ UNCHANGED <<calls, runs, today, shipped, shown, upsets>>

WriteFails(a) ==
    /\ call[a].at \in {"open", "fill"} /\ upsets < MaxUpsets
    /\ upsets' = upsets + 1
    /\ call' = [call EXCEPT ![a] = Idle]
    /\ UNCHANGED <<calls, runs, today, file, shipped, shown>>

Reload(a) ==
    /\ call[a].at = "idle"
    /\ calls < MaxCalls /\ calls' = calls + 1
    /\ call' = [call EXCEPT ![a] = [at |-> "load"]]
    /\ UNCHANGED <<runs, today, file, shipped, shown, upsets>>

\* The scan reads this manifest, and others after it, before it replaces the map.
Scan(a) ==
    /\ call[a].at = "load"
    /\ call' = [call EXCEPT ![a] = [at |-> "publish", read |-> IF file = Torn THEN None ELSE file]]
    /\ UNCHANGED <<calls, runs, today, file, shipped, shown, upsets>>

PublishScan(a) ==
    /\ call[a].at = "publish"
    /\ shown' = call[a].read
    /\ call' = [b \in Admins |->
                  IF b = a THEN Idle
                  ELSE IF call[b].at \in {"sweep", "research"}
                         THEN Judging(call[b].at, call[b].since, call[b].force, FALSE, call[b].sweep)
                  ELSE call[b]]
    /\ UNCHANGED <<calls, runs, today, file, shipped, upsets>>

----------------------------------------------------------------------------
(* The runs, the clock and the process.                                    *)

Recorded(kind, passes) ==
    /\ Len(runs) < MaxRuns
    /\ runs' = Append(runs, Run(kind, today, passes, TRUE))
    /\ UNCHANGED <<today, file, shipped, shown, call, calls, upsets>>

PersistSweep == \E f \in SweepFigures : Recorded("sweep", SweepPasses(f))

PersistResearch == \E f \in ResearchFigures : Recorded("research", ResearchPasses(f))

DeleteRun ==
    /\ upsets < MaxUpsets /\ upsets' = upsets + 1
    /\ \E i \in DOMAIN runs : runs[i].kept /\ runs' = [runs EXCEPT ![i] = Run(@.kind, @.day, @.passes, FALSE)]
    /\ UNCHANGED <<today, file, shipped, shown, call, calls>>

\* A judgement lasts less than the unit of the clock.
NextDay ==
    /\ \A a \in Admins : call[a].at \notin {"sweep", "research"}
    /\ upsets < MaxUpsets /\ upsets' = upsets + 1
    /\ today' = today + 1
    /\ UNCHANGED <<runs, file, shipped, shown, call, calls>>

\* The process dies wherever it stands; the start loads the manifests again.
Crash ==
    /\ upsets < MaxUpsets /\ upsets' = upsets + 1
    /\ shown' = None
    /\ \E a \in Admins : call' = [b \in Admins |-> IF b = a THEN [at |-> "load"] ELSE Idle]
    /\ UNCHANGED <<calls, runs, today, file, shipped>>

HubInit ==
    /\ runs = <<>> /\ today = 0 /\ shipped = TRUE /\ upsets = 0 /\ calls = 0
    /\ \E enabled \in BOOLEAN :
          /\ file = [enabled |-> enabled, backtestRef |-> None]
          /\ shown = file
    /\ call = [a \in Admins |-> Idle]

HubNext ==
    \/ \E a \in Admins :
          \/ \E enabled, force \in BOOLEAN : SetEnabled(a, enabled, force)
          \/ ReadSweep(a) \/ Judge(a) \/ OpenFile(a) \/ FillFile(a) \/ WriteFails(a)
          \/ Reload(a) \/ Scan(a) \/ PublishScan(a)
    \/ PersistSweep \/ PersistResearch \/ DeleteRun \/ NextDay \/ Crash

HubSpec == HubInit /\ [][HubNext]_hubVars

----------------------------------------------------------------------------
\* A manifest the hub wrote lists the strategy only with an override that the
\* administrator gave a reason for, or on the evidence of a passing sweep, the one
\* it names, and of a passing research run, both fresh when it was judged -
\* whatever was recorded, deleted, written or lost meanwhile.
ListedWasJudged ==
    (~shipped /\ file # Torn /\ file.enabled) =>
        LET ref == file.backtestRef
            evidence(i, kind) == /\ runs[i].kind = kind /\ runs[i].passes
                                 /\ runs[i].day + Freshness >= ref.ts
        IN  /\ ref # None
            /\ \/ ref.override
               \/ /\ ref.verdict = "pass"
                  /\ evidence(ref.runId, "sweep")
                  /\ \E i \in DOMAIN runs : evidence(i, "research")
=============================================================================
