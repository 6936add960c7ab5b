--------------------------- MODULE MCMarketEngines --------------------------
(***************************************************************************)
(* Small scenes for the market engines.                                    *)
(***************************************************************************)
EXTENDS MarketEngines

(* A slot's candle as open, high, low, close; a slot that stays empty.     *)
P(o, h, l, c) == {<<[open |-> o, high |-> h, low |-> l, close |-> c]>>}
None == {<<>>}

MCGradeAtr == <<100, 150, 200, 300>>
MCTypePoints == [INTERNAL_SWING |-> 20, EXTERNAL_SWING |-> 35, EQUAL |-> 40, SESSION |-> 35, DAY |-> 40, WEEK |-> 50]
MCMargins == [high |-> 20, moderate |-> 10, low |-> 5]
MCStrengths == <<80, 120, 150>>
MCDisplacementPoints == [r \in 0 .. 4 |-> CASE r = 0 -> 0 [] r = 1 -> 10 [] r = 2 -> 18 [] OTHER -> 25]
MCStructurePoints == [BOS |-> 15, CHOCH |-> 15, MSS |-> 25]
MCSessionPoints == [IDEAL |-> 10, ACCEPTABLE |-> 5, LOW_QUALITY |-> 0, AVOID |-> 0]
MCWindows == [ASIA |-> [from |-> 0, to |-> 2], LONDON |-> [from |-> 2, to |-> 4],
              NY_AM |-> [from |-> 4, to |-> 5], NY_PM |-> [from |-> 5, to |-> 6]]
MCKillZones == [LONDON_KZ |-> [from |-> 2, to |-> 3], NY_AM_KZ |-> [from |-> 4, to |-> 5]]
MCTimeQuality == [LONDON_KZ |-> "IDEAL", NY_AM_KZ |-> "IDEAL", ASIA |-> "ACCEPTABLE"]
MCQualities == <<"AVOID", "LOW_QUALITY", "ACCEPTABLE", "IDEAL">>
MCRangeBounds == <<60, 130, 200>>
MCExpansionBounds == <<25, 50, 80, 110>>
MCFrames == {[bars |-> 2, always |-> TRUE], [bars |-> 3, always |-> FALSE]}

(* A range that breaks both ways, with slots that stay empty: an equal     *)
(* pool loses a member, a session stays incomplete.                        *)
Gapped ==
  <<P(12, 12, 11, 12), P(12, 13, 10, 13), P(14, 14, 12, 12), P(12, 12, 12, 12), P(13, 18, 13, 16), None,
    P(18, 19, 15, 17), P(17, 17, 17, 17), P(17, 17, 14, 14), P(15, 18, 15, 16), P(15, 19, 15, 19),
    P(18, 18, 15, 15), P(15, 16, 13, 14) \cup None, P(13, 15, 13, 13) \cup P(14, 17, 13, 17),
    P(13, 15, 9, 9) \cup P(14, 16, 11, 12), None \cup P(10, 12, 9, 12),
    P(13, 15, 13, 15) \cup P(12, 18, 12, 16), P(16, 16, 11, 12) \cup P(16, 20, 16, 19),
    P(12, 12, 10, 10) \cup P(13, 18, 11, 16), P(10, 10, 10, 10) \cup P(10, 12, 10, 12)>>

(* A fall that turns: reversals confirmed by an inverted gap and entered,  *)
(* expired or broken, and both changes of character.                       *)
Turning ==
  <<P(12, 13, 9, 9), P(10, 15, 10, 14), P(13, 15, 8, 10), P(11, 12, 9, 11), P(11, 13, 11, 12),
    P(13, 14, 13, 13), P(12, 16, 12, 16), P(15, 17, 14, 14), P(14, 14, 11, 13), P(13, 16, 12, 15),
    P(16, 16, 13, 13), P(14, 16, 10, 10), P(10, 12, 6, 6) \cup P(10, 12, 8, 10),
    P(10, 15, 8, 14) \cup P(9, 12, 7, 12), P(13, 17, 13, 17) \cup P(13, 15, 13, 15),
    P(16, 21, 16, 19) \cup P(15, 17, 14, 16), P(19, 24, 19, 23) \cup P(19, 20, 15, 15),
    P(15, 15, 12, 12) \cup P(16, 18, 14, 18), P(18, 22, 16, 21) \cup P(19, 20, 15, 15),
    P(14, 14, 10, 11) \cup P(15, 20, 14, 19)>>

(* A rise that fades: reversals whose target comes before their entry.     *)
Fading ==
  <<P(12, 12, 11, 11), P(12, 13, 11, 12), P(13, 13, 11, 11), P(11, 14, 11, 14), P(15, 15, 12, 14),
    P(15, 16, 14, 16), P(16, 17, 14, 17), P(18, 22, 17, 20), P(20, 22, 20, 21), P(21, 21, 21, 21),
    P(20, 25, 18, 24), P(24, 27, 24, 25), P(24, 25, 21, 21) \cup P(25, 30, 25, 29),
    P(30, 33, 29, 33) \cup P(30, 35, 28, 34), P(33, 33, 28, 30) \cup P(34, 34, 30, 30),
    P(30, 32, 26, 26) \cup P(30, 30, 27, 27), P(28, 28, 24, 25) \cup P(26, 28, 26, 28),
    P(25, 26, 24, 24) \cup P(26, 27, 22, 23), P(22, 24, 20, 20) \cup P(24, 27, 22, 27),
    P(28, 29, 22, 24) \cup P(27, 28, 24, 24)>>

(* A range over two days: equal pools, Judas swings that fail.             *)
Ranging ==
  <<P(13, 18, 13, 17), P(17, 20, 16, 20), P(20, 22, 17, 17), P(18, 21, 18, 19), P(19, 20, 17, 17),
    P(18, 21, 16, 21), P(21, 23, 19, 23), P(23, 24, 23, 24), P(24, 27, 22, 25), P(25, 27, 19, 21),
    P(21, 21, 16, 17), P(16, 17, 12, 14), P(14, 17, 12, 17) \cup P(14, 20, 12, 18),
    P(17, 18, 15, 16) \cup P(19, 20, 18, 20), P(20, 20, 17, 19) \cup P(20, 20, 20, 20),
    P(20, 21, 18, 19) \cup P(19, 22, 18, 20), P(20, 24, 18, 24) \cup P(20, 23, 18, 21),
    P(23, 26, 23, 26) \cup P(24, 29, 22, 27), P(27, 29, 27, 29) \cup P(28, 28, 26, 26),
    P(29, 30, 24, 26) \cup P(29, 31, 26, 27)>>

(* A wick over a swing, and the break of it by the next candle.            *)
Late ==
  SubSeq(Ranging, 1, 6) \o <<P(21, 26, 14, 15), P(15, 26, 14, 24), P(24, 24, 14, 15) \cup P(24, 27, 22, 26), P(15, 20, 14, 18)>>

(* A gap far wider than the origin that inverts it: the entry lies beyond  *)
(* the origin's far edge, and is touched or left behind.                   *)
Flipping ==
  <<P(20, 21, 20, 21), P(19, 22, 19, 21), P(21, 21, 18, 19), P(19, 19, 18, 19), P(21, 22, 18, 19),
    P(20, 21, 18, 19), P(21, 21, 20, 20), P(21, 22, 20, 22), P(21, 21, 18, 19), P(20, 20, 17, 18),
    P(18, 28, 18, 27), P(28, 29, 26, 26), P(22, 22, 19, 20),
    P(20, 21, 18, 18) \cup P(20, 24, 19, 19) \cup P(20, 20, 15, 15),
    P(17, 18, 16, 16) \cup P(18, 22, 17, 22) \cup P(18, 25, 18, 19),
    P(18, 21, 17, 18) \cup P(16, 16, 11, 11) \cup P(19, 23, 17, 17),
    P(18, 24, 17, 20) \cup P(18, 20, 15, 15) \cup P(14, 14, 9, 9),
    P(20, 21, 18, 18) \cup P(15, 18, 14, 14)>>

(* What may be wrong with one analysis.                                    *)
Faults == {[Fine EXCEPT !.failing = stages] : stages \in {{"LIQUIDITY"}, {"PD_ARRAY"}, {"NO_WICK"}, {"LIQUIDITY", "PD_ARRAY"}}}
          \cup {[Fine EXCEPT !.quality = quality] : quality \in {"INVALID", "STALE"}}
          \cup {Fine, [Fine EXCEPT !.synthetic = TRUE, !.days = FALSE, !.sessions = FALSE]}

MCScenes == {[script |-> script, weathers |-> {Fine}] : script \in {Gapped, Turning, Fading, Flipping, Ranging, Late}}
            \cup {[script |-> SubSeq(Turning, 1, 16), weathers |-> Faults]}

MCReversalScenes == {[script |-> Fading, weathers |-> {Fine}]}
=============================================================================
