---------------------------- MODULE PaperPrices -----------------------------
(***************************************************************************)
(* services/paper/engine.py with its prices, in integers.  Bars are mid    *)
(* prices: a long buys half a spread above and sells half a spread below,  *)
(* a short the other way round.  The bar that opens at time t closes at    *)
(* t + 1.                                                                  *)
(***************************************************************************)
EXTENDS PaperEngine, SequencesExt

CONSTANT Nothing   \* None

(* SimParams: side is 1 for a long and -1 for a short.                     *)
Params(plan, created, costs) ==
  [side |-> plan.side, limit |-> plan.entry, stop |-> plan.stop, target |-> plan.tp1,
   created |-> created, half |-> costs.half, slip |-> costs.slip]

(* SimState.  best and worst are the exit prices seen while open.          *)
NewSim ==
  [status |-> "PENDING", pending |-> 0, fill |-> Nothing, filled |-> Nothing,
   exit |-> Nothing, exited |-> Nothing, reason |-> "none", ambiguous |-> FALSE,
   best |-> Nothing, worst |-> Nothing, thru |-> Nothing]

CloseOf(bar) == bar.at + 1
Entering(p, price) == price + p.side * p.half
Leaving(p, price)  == price - p.side * p.half

(* For the position, one price is at least as good as the other.           *)
AtLeast(p, price, other) == p.side * (price - other) >= 0
High(p, bar) == IF p.side > 0 THEN bar.high ELSE bar.low
Low(p, bar)  == IF p.side > 0 THEN bar.low ELSE bar.high

(* step passes over a bar when the order is done, when it was processed    *)
(* already and when it opened before the order was there.                  *)
Ignores(p, sim, bar) ==
  sim.status \notin Active \/ (sim.thru # Nothing /\ bar.at <= sim.thru) \/ bar.at < p.created

(* A pending limit is filled at the open when the bar gapped through it.   *)
OpensThrough(p, bar) == AtLeast(p, p.limit, Entering(p, bar.open))
Reaches(p, bar) == AtLeast(p, p.limit, Entering(p, Low(p, bar)))

Waits(sim, bar) ==
  [sim EXCEPT !.pending = @ + 1, !.thru = bar.at,
              !.status = IF sim.pending + 1 >= ExpiryBars THEN "EXPIRED" ELSE @]

Filled(p, sim, bar) ==
  [sim EXCEPT !.status = "OPEN", !.filled = bar.at,
              !.fill = IF OpensThrough(p, bar) THEN Entering(p, bar.open) ELSE p.limit]

(* An open position: its extremes with this bar, and how it is closed.     *)
Extended(p, sim, bar) ==
  LET Favourable == Leaving(p, High(p, bar))
      Adverse    == Leaving(p, Low(p, bar))
  IN  [sim EXCEPT !.thru = bar.at,
         !.best  = IF @ = Nothing \/ AtLeast(p, Favourable, @) THEN Favourable ELSE @,
         !.worst = IF @ = Nothing \/ AtLeast(p, @, Adverse) THEN Adverse ELSE @]

Close(sim, bar, reason, price, ambiguous) ==
  [sim EXCEPT !.status = "CLOSED", !.reason = reason, !.exit = price,
              !.exited = CloseOf(bar), !.ambiguous = ambiguous]

(* Mutant: after a fill inside the bar the target may be hit in it too.    *)
ManagedAtOnce(p, sim, bar, intrabar) ==
  LET stopHit   == AtLeast(p, p.stop, Leaving(p, Low(p, bar)))
      targetHit == AtLeast(p, Leaving(p, High(p, bar)), p.target)
  IN  IF stopHit THEN Close(sim, bar, "STOP", p.stop - p.side * p.slip, targetHit)
      ELSE IF targetHit THEN Close(sim, bar, "TARGET", p.target, FALSE)
      ELSE sim

Managed(p, sim, bar, intrabar) ==
  LET open      == Leaving(p, bar.open)
      stopHit   == AtLeast(p, p.stop, Leaving(p, Low(p, bar)))
      targetHit == ~intrabar /\ AtLeast(p, Leaving(p, High(p, bar)), p.target)
  IN  IF ~intrabar /\ AtLeast(p, p.stop, open)
        THEN Close(sim, bar, "STOP", open - p.side * p.slip, FALSE)
      ELSE IF ~intrabar /\ AtLeast(p, open, p.target) THEN Close(sim, bar, "TARGET", open, FALSE)
      ELSE IF stopHit
        THEN Close(sim, bar, "STOP", p.stop - p.side * p.slip, targetHit \/ intrabar)
      ELSE IF targetHit THEN Close(sim, bar, "TARGET", p.target, FALSE)
      ELSE sim

(* step and simulate.  An order that is done ignores the bars that follow. *)
StepBar(p, sim, bar) ==
  LET pending  == sim.status = "PENDING"
      intrabar == pending /\ ~OpensThrough(p, bar)
      open     == IF pending THEN Filled(p, sim, bar) ELSE sim
  IN  IF Ignores(p, sim, bar) THEN sim
      ELSE IF pending /\ ~Reaches(p, bar) THEN Waits(sim, bar)
      ELSE Managed(p, Extended(p, open, bar), bar, intrabar)

Simulate(p, sim, bars) == FoldLeft(LAMBDA s, bar : StepBar(p, s, bar), sim, bars)

(* What a bar does to an order's levels, as PaperEngine describes it.      *)
Seen(p, bar) ==
  LET Of(atOpen, inside) == IF atOpen THEN "gap" ELSE IF inside THEN "touch" ELSE "none"
  IN  [entry  |-> Of(OpensThrough(p, bar), Reaches(p, bar)),
       stop   |-> Of(AtLeast(p, p.stop, Leaving(p, bar.open)), AtLeast(p, p.stop, Leaving(p, Low(p, bar)))),
       target |-> Of(AtLeast(p, Leaving(p, bar.open), p.target), AtLeast(p, Leaving(p, High(p, bar)), p.target))]
=============================================================================
