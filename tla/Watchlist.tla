----------------------------- MODULE Watchlist -----------------------------
(***************************************************************************)
(* The asset registry (analysis/watchlist.py, watchlist_format.py) and the *)
(* questions market-watchlist answers from it: named baskets of tickers    *)
(* with metadata, kept by hand and only read by the program.  A registry   *)
(* is a sequence of baskets, or Unavailable when the file is missing or    *)
(* does not parse.  A ticker is its provider prefix, its stem and its      *)
(* quote suffix ("" where it has none), and so is an alias.                *)
(***************************************************************************)
EXTENDS Integers, Sequences, FiniteSets, SequencesExt

CONSTANT Unavailable

(* The elements of s that are in S, in their order.                        *)
Among(s, S) == FlattenSeq([i \in DOMAIN s |-> IF s[i] \in S THEN <<s[i]>> ELSE <<>>])

Ticker(prefix, stem, quote) == [prefix |-> prefix, stem |-> stem, quote |-> quote]

NoMetadata == [tier |-> 0, class |-> "other", sound |-> TRUE]

(* load_raw: a registry without a single ticker is no registry.            *)
Usable(reg) == reg # Unavailable /\ \E i \in DOMAIN reg : reg[i].members # <<>>

Distinct(s) == FoldLeft(LAMBDA seen, t : IF t \in ToSet(seen) THEN seen ELSE Append(seen, t), <<>>, s)

TickersOf(basket) == [i \in DOMAIN basket.members |-> basket.members[i].ticker]
AllTickers(reg) == Distinct(FlattenSeq([i \in DOMAIN reg |-> TickersOf(reg[i])]))
ByCategory(reg, name) == FlattenSeq([i \in DOMAIN reg |-> IF reg[i].name = name THEN TickersOf(reg[i]) ELSE <<>>])

(* metadata_for: of several baskets the first wins.                        *)
MetadataFor(reg, ticker) ==
  LET entries == FlattenSeq([i \in DOMAIN reg |-> SelectSeq(reg[i].members, LAMBDA m : m.ticker = ticker)])
  IN IF entries = <<>> THEN NoMetadata ELSE Head(entries).meta

(* _bare_aliases: the ticker itself, and without its prefix or, if it has  *)
(* none, without its quote.                                                *)
BareAliases(t) == {t, IF t.prefix # "" THEN [t EXCEPT !.prefix = ""] ELSE [t EXCEPT !.quote = ""]}
Candidates(reg, alias) == SelectSeq(AllTickers(reg), LAMBDA t : alias \in BareAliases(t))

(* expand_tickers: an alias that fits no ticker, or several, is kept.      *)
ExpandTickers(reg, items) ==
  LET Expanded(alias, found) == IF Len(found) = 1 THEN found[1] ELSE alias
  IN Distinct([i \in DOMAIN items |-> Expanded(items[i], Candidates(reg, items[i]))])

(* Mutant: the skip list wins over the registry. *)
Skipped_AnyTier(reg, tickers, skip) == ToSet(tickers) \cap skip

(* filter_skip_list: the watchlist's tier 1 and 2 win over the skip list.  *)
Skipped(reg, tickers, skip) ==
  {t \in ToSet(tickers) : t \in skip /\ MetadataFor(reg, t).tier \notin {1, 2}}

(* What market-watchlist prints and its exit code: list and tickers,       *)
(* show, resolve, validate.                                                *)
Answer(reg, question, basket, alias) ==
  LET tickers == IF question = "show" \/ (question = "tickers" /\ basket # "") THEN ByCategory(reg, basket)
                 ELSE IF question = "resolve"
                 THEN IF Len(Candidates(reg, alias)) = 1 THEN Candidates(reg, alias) ELSE <<>>
                 ELSE AllTickers(reg)
      unsound == \E i \in DOMAIN reg : \E j \in DOMAIN reg[i].members : ~reg[i].members[j].meta.sound
      refused == \/ ~Usable(reg)
                 \/ question \in {"show", "tickers"} /\ tickers = <<>>
                 \/ question = "resolve" /\ Len(Candidates(reg, alias)) > 1
                 \/ question = "validate" /\ unsound
  IN [code |-> IF refused THEN 1 ELSE 0, tickers |-> IF Usable(reg) THEN tickers ELSE <<>>]
============================================================================
