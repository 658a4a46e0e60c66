------------------------------- MODULE MCScan -------------------------------
EXTENDS Scan, TLC

CONSTANTS s1, s2, k1, k2

MCSymmetry == Permutations({s1, s2}) \cup Permutations({k1, k2})

(* Two baskets: btc in both, of tier 2 where it comes first; hl:sol/usd    *)
(* and yf:sol share the alias sol.                                         *)
btc == Ticker("", "btc", "usd")
hlsol == Ticker("hl", "sol", "")
yfsol == Ticker("yf", "sol", "")
doge == Ticker("", "doge", "usd")
MCAlphabet == <<btc, doge, hlsol, yfsol>>

Meta(tier, class) == [NoMetadata EXCEPT !.tier = tier, !.class = class]
Member(ticker, meta) == [ticker |-> ticker, meta |-> meta]
Majors == [name |-> "majors", members |-> <<Member(btc, Meta(2, "other")), Member(hlsol, Meta(1, "perp_dex"))>>]
Alts == [name |-> "alts", members |-> <<Member(btc, Meta(3, "other")), Member(yfsol, Meta(3, "other")),
                                         Member(doge, [Meta(3, "low_float") EXCEPT !.sound = FALSE])>>]
Sound == <<Majors>>
Both == <<Majors, Alts>>
Empty == <<[name |-> "majors", members |-> <<>>]>>

-----------------------------------------------------------------------------
(* Candles *)

Base ==
  [open |-> 10000000, high |-> 10500000, low |-> 9500000, close |-> 10000000,
   emas |-> <<4, 3, 2, 1>>, rank |-> 5, above |-> [i \in 1..6 |-> TRUE],
   hh |-> "yes", hl |-> "yes", fib |-> "near", impulse |-> "none", vol |-> 160,
   obv |-> "rising", held |-> "mixed", squeezeOn |-> FALSE, momentum |-> 1, growing |-> TRUE,
   support |-> 9900000, resistance |-> 10150000, sits |-> FALSE,
   dipped |-> FALSE, wickS |-> FALSE, wickR |-> FALSE, swept |-> FALSE, surge |-> FALSE,
   regime |-> "NORMAL", compressing |-> FALSE, rsi |-> 50, flip |-> FALSE,
   atr |-> 500000, funding |-> Unknown]
Falling == [Base EXCEPT !.emas = <<1, 2, 3, 4>>, !.rank = 0, !.hh = "no", !.hl = "no", !.obv = "falling"]
Mixed == [Base EXCEPT !.hh = "no"]
Flat == [Base EXCEPT !.emas = <<2, 2, 1, 1>>, !.hh = "no", !.hl = "no", !.rsi = Unknown, !.vol = 80, !.obv = "falling"]
Oversold == [Flat EXCEPT !.rsi = 20]
Paid == [Oversold EXCEPT !.funding = -120]
Wide == [Flat EXCEPT !.rsi = 20, !.support = 10000000, !.resistance = 10000000]

Tangle == [i \in 1..6 |-> i > 2]
Death == [i \in 1..6 |-> i < 4]

TrendBars ==
  {[Base EXCEPT !.emas = e, !.rank = r, !.above = a, !.hh = h, !.hl = l, !.fib = f, !.impulse = i, !.obv = o] :
     e \in {<<4, 3, 2, 1>>, <<1, 2, 3, 4>>, <<4, 3, 1, 2>>, <<2, 2, 1, 1>>, <<1, 2>>},
     r \in {0, 5}, a \in {Base.above, Tangle, Death}, h \in {"yes", "no"}, l \in {"yes", "no"},
     f \in {"near", "far"}, i \in {"bounce", "drop"}, o \in {"rising", "falling"}}
BreakBars ==
  {[Base EXCEPT !.emas = e, !.above = a, !.hh = h, !.vol = v, !.obv = o, !.momentum = m,
                !.squeezeOn = q, !.sits = s, !.held = g] :
     e \in {<<4, 3, 2, 1>>, <<1, 2, 3, 4>>, <<2, 2, 1, 1>>}, a \in {Base.above, Death}, h \in {"yes", "no"},
     v \in {110, 160}, o \in {"rising", "falling"}, m \in {-1, 1}, q \in BOOLEAN, s \in BOOLEAN,
     g \in {"above", "below"}}
AccumulationBars ==
  {[Base EXCEPT !.emas = e, !.rank = r, !.hh = h, !.hl = l, !.vol = v, !.sits = s, !.dipped = d,
                !.regime = g, !.compressing = c] :
     e \in {<<4, 3, 2, 1>>, <<1, 2, 3, 4>>}, r \in {1, 5}, h \in {"yes", "no"}, l \in {"yes", "no"},
     v \in {80, 160}, s \in BOOLEAN, d \in BOOLEAN, g \in {"LOW", "NORMAL"}, c \in BOOLEAN}
FadeBars ==
  {[Base EXCEPT !.emas = e, !.vol = v, !.rsi = x, !.regime = g, !.flip = f, !.hh = h, !.hl = h] :
     e \in {<<4, 3, 2, 1>>, <<1, 2, 3, 4>>}, v \in {160, 300}, x \in {Unknown, 20, 50, 80},
     g \in {"LOW", "NORMAL"}, f \in BOOLEAN, h \in {"yes", "no"}}
SweepBars ==
  {[Base EXCEPT !.wickS = w, !.wickR = x, !.swept = t, !.surge = u, !.sits = s, !.vol = v, !.obv = o] :
     w \in BOOLEAN, x \in BOOLEAN, t \in BOOLEAN, u \in BOOLEAN, s \in BOOLEAN,
     v \in {90, 160}, o \in {"rising", "falling"}}

Quote(bar) == [bar |-> bar, lowest |-> 9500000]
Late(bar) == [bar |-> bar, lowest |-> 3000000]
One(quote) == [t \in {btc} |-> [f \in {"1d"} |-> quote]]
Two(day, hours) == [t \in {btc} |-> [f \in {"1d", "4h"} |-> IF f = "1d" THEN Quote(day) ELSE Quote(hours)]]
All(a, b, c, d) ==
  [t \in ToSet(MCAlphabet) |-> [f \in {"1d"} |->
     CASE t = btc -> a [] t = doge -> b [] t = hlsol -> c [] t = yfsol -> d]]

MCMarkets(feed) ==
  CASE feed = "survey" -> {One(Quote(b)) : b \in TrendBars \cup BreakBars \cup AccumulationBars \cup FadeBars \cup SweepBars}
    [] feed = "frames" -> {Two(a, b) : a, b \in {Base, Falling, Mixed, Flat, Oversold, Paid}}
    [] feed = "chop" -> {One(Quote(Oversold)), One(Quote(Base)), One(Quote(Wide)), One(NoData)}
    [] feed = "few" -> {One(Quote(Base)), One(NoData)}
    [] feed = "batch" -> {All(a, b, c, d) : a \in {Quote(Wide), Quote(Base), NoData}, b \in {Quote(Paid), Late(Base)},
                                             c \in {Late(Base), Quote(Wide)}, d \in {Quote(Base), NoData}}

-----------------------------------------------------------------------------
(* Command lines *)

Given(flag, value) == [flag |-> flag, value |-> value]
Words(tickers) == [i \in DOMAIN tickers |-> Given("", tickers[i])]
Line(skill, tickers) ==
  [skill |-> skill, argv |-> Words(tickers), baskets |-> <<>>, frames |-> <<"1d">>, periods |-> 1, valid |-> TRUE,
   bare |-> FALSE, json |-> FALSE, notes |-> FALSE, top |-> NoTop, fired |-> FALSE, chop |-> FALSE, skip |-> {}, half |-> "both",
   question |-> "list"]

SurveyLines == {Line("bug-scan", <<btc>>)}
FrameLines == {[Line("bug-scan", <<btc>>) EXCEPT !.frames = <<"1d", "4h">>, !.periods = p] : p \in 1..2}
ChopLines == {[Line("bug-scan", <<btc>>) EXCEPT !.chop = TRUE]}

Codes(line) == {line, [line EXCEPT !.valid = FALSE], [line EXCEPT !.argv = <<>>]}
BatchLines ==
  Codes(Line("bug-scan", <<btc>>))
  \cup {[Line("bug-scan", <<btc, doge>>) EXCEPT !.periods = 2]}
  \cup Codes([Line("run-all-l2", <<btc, doge>>) EXCEPT !.fired = TRUE, !.json = TRUE])
  \cup {[Line("run-all-l3", <<btc>>) EXCEPT !.top = 1]}
  \cup Codes([Line("run-all-l3", <<btc, doge>>) EXCEPT !.top = 1, !.fired = TRUE, !.json = TRUE])
  \cup Codes(Line("mean_reversion", <<btc>>))
  \cup {[l EXCEPT !.baskets = b, !.skip = {btc, hlsol, doge}, !.half = h] :
          l \in Codes(Line("run-watchlist", <<>>)), b \in {<<>>, <<"majors">>, <<"alts">>}, h \in {"both", "l2", "neither"}}
  \cup {Line("run-watchlist", <<Ticker("", "sol", ""), Ticker("", "btc", "")>>)}
  \cup {[l EXCEPT !.baskets = b, !.top = p, !.json = TRUE] :
          l \in {Line("l3-conviction-scan", <<>>), [Line("l3-conviction-scan", <<>>) EXCEPT !.valid = FALSE]},
          b \in {<<>>, <<"majors">>, <<"majors", "alts">>}, p \in {NoTop, 0, 1, 2}}
  \cup {[Line("l3-conviction-scan", <<>>) EXCEPT !.bare = TRUE],
        [Line("bug-scan", <<>>) EXCEPT !.argv = <<Given("--from-state", btc), Given("option", btc), Given("", doge)>>]}
  \cup {[Line("market-watchlist", <<Ticker("", s, "")>>) EXCEPT !.question = q, !.baskets = b] :
          s \in {"sol", "btc"}, q \in {"list", "show", "tickers", "resolve", "validate"}, b \in {<<"none">>, <<"alts">>}}
  \cup {[Line("market-watchlist", <<>>) EXCEPT !.question = "tickers"]}

ViewLines ==
  {[Line("run-all-l3", <<btc>>) EXCEPT !.json = TRUE], Line("run-all-l3", <<>>)}
NoteLines ==
  {[Line("run-all-l3", <<btc>>) EXCEPT !.notes = TRUE], [Line("run-watchlist", <<btc>>) EXCEPT !.notes = TRUE]}

Open == [tag |-> "BUG"]
Cells1 == {[ticker |-> btc, frame |-> "1d", skills |-> ("sweep" :> [present |-> TRUE, class |-> "none", on |-> 2, weight |-> 5000, total |-> 10000]),
            strategies |-> <<>>]}
Captured(layout) == [layout |-> layout, cells |-> Cells1, open |-> {Open}]
MCDefaultState == Captured("tracker")
OfflineLines ==
  {[Line("bug-scan", <<>>) EXCEPT !.argv = <<Given(f, Captured(d))>>] :
     f \in {"--from-state=", "--from-json=", "--from-json"}, d \in {"flat", "frames", "tracker", "wrapped", "l2l3", "findings"}}
  \cup {[Line("bug-scan", <<>>) EXCEPT !.argv = <<Given("--from-state", btc), Given("", btc)>>]}

-----------------------------------------------------------------------------
(* Notes *)

Tag(word) == [word |-> word, exact |-> TRUE]
Plain(id) ==
  [id |-> id, blank |-> FALSE, expires |-> Never, status |-> "null", type |-> "null", frame |-> "null",
   refs |-> "null", tags |-> {}, meta |-> NoMeta]
Brief == [Plain("a") EXCEPT !.expires = 2]
Legacy ==
  [Plain("b") EXCEPT !.status = "absent", !.type = "absent",
                     !.meta = [tags |-> <<Tag("setup_invalidated"), Tag("1d_only"), Tag("4h_pullback")>>, refs |-> "typed"]]
MCDrafts == {Brief, Legacy, [Plain("e") EXCEPT !.blank = TRUE]}
MCPairs == {btc}
MCBook ==
  [p \in MCPairs |-> <<[Brief EXCEPT !.id = "c"], [Legacy EXCEPT !.status = "null"],
                       [Plain("d") EXCEPT !.refs = "bad", !.meta = [tags |-> <<Tag("alpha")>>, refs |-> "null"]]>>]

-----------------------------------------------------------------------------

Session(lines, feed, registries, times, book, quota) ==
  [lines |-> lines, feed |-> feed, registries |-> registries, launches |-> times, history |-> Blank,
   book |-> book, errands |-> quota]

MCSessions ==
  {Session(SurveyLines, "survey", {Sound}, 1, EmptyBook, 0),
   Session(FrameLines, "frames", {Sound}, 1, EmptyBook, 0),
   Session(ChopLines, "chop", {Sound}, 3, EmptyBook, 0),
   Session(ViewLines, "few", {Sound}, 3, EmptyBook, 0),
   Session(BatchLines, "batch", {Sound, Both, Empty, Unavailable}, 1, EmptyBook, 0),
   Session(OfflineLines, "few", {Sound}, 1, EmptyBook, 0),
   Session(NoteLines, "few", {Sound}, 0, MCBook, 3),
   Session(NoteLines, "few", {Sound}, 1, MCBook, 2),
   Session(NoteLines, "few", {Sound}, 1, EmptyBook, 2)}

(* One ticker in both baskets, on candles that make two strategies fire.   *)
TopLines == {[Line("run-all-l3", <<btc>>) EXCEPT !.json = TRUE, !.top = 1, !.fired = f] : f \in BOOLEAN}
TopSessions == {Session(TopLines, "survey", {Sound}, 1, EmptyBook, 0)}
=============================================================================
