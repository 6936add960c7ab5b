----------------------------- MODULE MCDecision -----------------------------
(***************************************************************************)
(* EvaluationRequests with one delayed release, seen at times before, in   *)
(* and after its windows through calendars that cover them, begin after    *)
(* the release, end too early, grow too old, are synthetic or cannot be    *)
(* had.  In one setting and at one time evaluations are asked for.         *)
(***************************************************************************)
EXTENDS EvaluationRequests, TLC

MCBefore == [i \in {"HIGH"} |-> 1]
MCAfter == [i \in {"HIGH"} |-> 1]
MCPostWait == [i \in {"HIGH"} |-> 1]
MCLead == [i \in {"HIGH"} |-> 2]

MCWorld == {[time |-> 0, importance |-> "HIGH", status |-> "DELAYED"]}

Covering(start, end, synthetic) ==
    [events |-> {e \in MCWorld : start <= e.time /\ e.time <= end},
     start |-> start, end |-> end, fetched |-> 0, synthetic |-> synthetic]

MCCalendars == {NoSnapshot, Covering(-20, 20, FALSE), Covering(-20, 20, TRUE),
                Covering(1, 20, FALSE), Covering(-20, 0, FALSE),
                [Covering(-20, 20, FALSE) EXCEPT !.fetched = -5]}

MCTimes == {-2, 4, 5, 7}

\* scoring.json.
MCWeight == [HTF |-> 150, LIQUIDITY |-> 150, STRUCTURE |-> 150, DISPLACEMENT |-> 100, PD_ARRAY |-> 100,
             NO_WICK |-> 50, SESSION |-> 100, MACRO |-> 50, ENTRY |-> 100, RISK_RR |-> 50]
MCPoints == [htfAligned |-> 150, htfSetupBiasOnly |-> 80, dolTarget |-> 50, liquidityEvent |-> 100, mss |-> 150,
             choch |-> 100, displacement |-> 100, legZone |-> 50, zoneTouched |-> 50, noWick |-> 50,
             entryConfirmed |-> 100, entryResearchOnly |-> 50, rrMet |-> 50]
MCSessionPoints == [IDEAL |-> 100, ACCEPTABLE |-> 60, LOW_QUALITY |-> 20, AVOID |-> 0]
MCMacroPoints == [STRONGLY_SUPPORTIVE |-> 50, SUPPORTIVE |-> 40, NEUTRAL |-> 25, CONFLICT |-> 0, STRONG_CONFLICT |-> 0]
MCConflictPoints == [htfOpposite |-> 300, dolOpposite |-> 250, timeAvoid |-> 200, timeLowQuality |-> 100,
                     oppositeNoWick |-> 150, adrExhausted |-> 100, macroConflict |-> 150, macroStrongConflict |-> 300]
MCCorrelatedEvidence == -50
MCCounterTrend == -100
MCFloors == <<900, 800, 700, 600>>

\* Two drivers, as most markets have them, the second with a fallback.
MCDrivers == <<[series |-> "DXY", relationship |-> -1, weight |-> 3, fallback |-> Nothing],
               [series |-> "US2Y", relationship |-> -1, weight |-> 2, fallback |-> "US10Y"]>>

Daily(values, last) == [i \in 1 .. 5 |-> [day |-> last - 5 + i, value |-> values[i]]]
Paths == [up |-> <<100, 102, 101, 103, 108>>, flat |-> <<100, 103, 101, 104, 104>>,
          down |-> <<100, 98, 99, 97, 92>>]

\* A series that moves, one that is too old, and one that is not there.
Told == {"up", "flat", "down", "old", "none"}
SeriesOf(id, how) ==
    IF how = "none" THEN [x \in {} |-> <<>>] ELSE [x \in {id} |-> IF how = "old" THEN Daily(Paths.up, 7) ELSE Daily(Paths[how], 10)]

Input(dxy, us2y, us10y, closes, synthetic, surprise) ==
    [failed |-> FALSE, synthetic |-> synthetic, today |-> 10, closes |-> IF closes = "none" THEN <<>> ELSE Daily(Paths[closes], 10),
     series |-> SeriesOf("DXY", dxy) @@ SeriesOf("US2Y", us2y) @@ SeriesOf("US10Y", us10y),
     releases |-> <<[keyword |-> surprise, surprise |-> 2, ago |-> 1, important |-> TRUE, released |-> TRUE],
                    [keyword |-> -1, surprise |-> 5, ago |-> 9, important |-> TRUE, released |-> TRUE]>>]

\* Every pair of drivers with the closes, and every pair with a surprise.
MCInputs == {Input(dxy, us2y, us10y, closes, FALSE, surprise) :
                dxy \in Told, us2y \in {"up", "down", "none"}, us10y \in {"down", "none"},
                closes \in {"up", "none"}, surprise \in {-1, 0}}
            \cup {Input("up", "up", "none", "none", TRUE, 0), [Input("up", "up", "none", "none", FALSE, 0) EXCEPT !.failed = TRUE]}

\* One for each state of the macro context of a long.
Moods == {Input("down", "down", "none", "none", FALSE, 0), Input("down", "up", "none", "none", FALSE, 0),
          Input("flat", "flat", "none", "none", FALSE, 0), Input("up", "down", "none", "none", FALSE, 0),
          Input("up", "up", "none", "none", FALSE, 0), Input("none", "up", "none", "none", FALSE, 0)}

MCEvidence ==
    {[side |-> side, htf |-> htf, dol |-> IF against THEN "SHORT" ELSE "OTHER", target |-> all, event |-> all, zones |-> all,
      touched |-> all \/ plan # Nothing, same |-> all, opposite |-> against, break |-> b[1], displaced |-> b[2],
      time |-> time, exhausted |-> against, plan |-> plan, rr |-> all, locked |-> against /\ plan # Nothing, macro |-> Nothing] :
        side \in {"LONG", "SHORT"}, htf \in {"LONG", "SHORT", "OTHER"}, all \in BOOLEAN,
        against \in BOOLEAN, b \in {<<Nothing, FALSE>>, <<"CHOCH", FALSE>>, <<"MSS", FALSE>>, <<"MSS", TRUE>>},
        time \in {Nothing, "IDEAL", "ACCEPTABLE", "LOW_QUALITY", "AVOID"}, plan \in {Nothing, "RESEARCH", "CONFIRMED"}}

\* What a setup looks like when macro varies, in its two sides.
Plain(e) == e.htf = "OTHER" /\ e.target /\ e.dol = "OTHER" /\ e.displaced /\ e.time = "IDEAL" /\ e.plan = "CONFIRMED"

Watched == setting.spec /\ setting.known /\ setting.validated /\ Full /\ ~setting.synthetic /\ setting.reversalOn

\* A sound setup at the last time; and every run, news and risk with one evidence.
Request(e, input) ==
    [run |-> [eligible |-> TRUE, current |-> IF e.plan = Nothing THEN "OPEN" ELSE "CONFIRMED", direction |-> e.side],
     news |-> [state |-> "CLEAR", blockers |-> {}],
     risk |-> IF e.locked THEN "LOCKED" ELSE IF e.plan = Nothing THEN "CLEAR" ELSE "WITHIN_LIMITS",
     userSpec |-> FALSE, evidence |-> e, input |-> input, fails |-> FALSE]

Rich == {Request(e, input) : e \in {x \in MCEvidence : x.side = "LONG"}, input \in Moods}
        \cup {Request(e, input) : e \in {x \in MCEvidence : Plain(x)}, input \in MCInputs}

Matched(run, risk) == {e \in MCEvidence : Fits(e, run, risk) /\ e.displaced /\ e.time = "IDEAL" /\ e.htf = "OTHER" /\ e.target}

Varied(input) ==
    UNION {[run : {run}, news : NewsReads, risk : {risk}, userSpec : BOOLEAN, evidence : Matched(run, risk),
            input : {input}, fails : BOOLEAN] : run \in Runs, risk \in RiskStatus}

MCAsked == IF ~Watched \/ stage # "idle" \/ answer # Nothing THEN {}
           ELSE (IF now = 7 THEN Rich ELSE {}) \cup {q \in Varied(Input("down", "down", "none", "none", FALSE, 1)) : q.risk \in Risks(q.run)}

\* An unknown symbol has no specification and is not validated, and the reversal
\* flag is only read under FULL authority.
MCInit == /\ RequestInit
          /\ setting.known \/ (~setting.spec /\ ~setting.validated)
          /\ setting.reversalOn => Full

MCSpec == MCInit /\ [][RequestNext(MCAsked, IF Watched /\ now = 7 THEN MCInputs ELSE {})]_<<vars, answer>>
=============================================================================
