------------------------------ MODULE CallBilling ------------------------------
(***************************************************************************)
(* What a turn's model calls cost: collect_usage normalises what a         *)
(* provider reports of one call and prices it by the catalogue, and        *)
(* summarize_usage adds the calls up.  Prices are in small integers; the   *)
(* peak rate is the catalogue's, off peak is half of it.                   *)
(***************************************************************************)
EXTENDS Integers, Sequences, FiniteSets, FiniteSetsExt

CONSTANTS Counts,          \* numbers of tokens a provider may report
          Pricings,        \* price entries of the catalogue, with its tiers
          MaxCalls,        \* calls of a turn
          Unknown          \* None

\* The catalogue lists the tiers of a price from the narrowest to the widest.
ASSUME BillingAssumption ==
    /\ Counts \subseteq Nat
    /\ MaxCalls \in Nat
    /\ Unknown \notin Int
    /\ \A pricing \in Pricings :
          /\ pricing.currency # Unknown
          /\ pricing.tiers \in Seq([limit : Nat \union {Unknown}, input : Nat, output : Nat,
                                    cache : Nat \union {Unknown}])
          /\ \A i, j \in DOMAIN pricing.tiers : i < j =>
                /\ pricing.tiers[i].limit # Unknown
                /\ pricing.tiers[j].limit # Unknown => pricing.tiers[i].limit < pricing.tiers[j].limit
          /\ \A i \in DOMAIN pricing.tiers :
                LET tier == pricing.tiers[i]
                IN /\ tier.input % 2 = 0 /\ tier.output % 2 = 0
                   /\ tier.cache # Unknown => tier.cache % 2 = 0

VARIABLES call,            \* the call that has just ended: none, or what it was and its usage
          calls,           \* the usages of the turn's calls
          bill             \* the summary, once the turn has ended

billVars == <<call, calls, bill>>

-----------------------------------------------------------------------------
(***************************************************************************)
(* One call.                                                               *)
(***************************************************************************)
\* What is reported; Unknown where the provider says nothing.  Of the tokens of reasoning
\* it matters only if they exceed those of the output.
Reports == [input : Counts \union {Unknown}, output : Counts \union {Unknown},
            total : Counts \union {Unknown}, cache : Counts \union {Unknown}, exceeds : BOOLEAN]

\* A total that is reported is kept, even one that is wrong.
TokensOfReport(report) ==
    IF report.total = Unknown THEN report.input + report.output ELSE report.total

\* Numbers are there; if they do not add up the usage is kept, but not as complete.
Stated(report) == report.input # Unknown /\ report.output # Unknown
Consistent(report) ==
    /\ TokensOfReport(report) = report.input + report.output
    /\ report.cache # Unknown => report.cache <= report.input
    /\ ~report.exceeds

\* The first tier that is wide enough, if there is one.
Tier(pricing, n) ==
    LET wide == {i \in DOMAIN pricing.tiers :
                    pricing.tiers[i].limit = Unknown \/ n <= pricing.tiers[i].limit}
    IN {pricing.tiers[i] : i \in {j \in wide : \A k \in wide : j <= k}}

CacheRate(tier) == IF tier.cache = Unknown THEN tier.input ELSE tier.cache

\* Mutant: a provider that does not say what it had cached has cached nothing.
NeedsCache_Never(tier, report) == FALSE

NeedsCache(tier, report) ==
    CacheRate(tier) # tier.input /\ report.cache = Unknown /\ report.input # 0

\* Off peak half of it is charged; the prices of the model are even.
Price(tier, report, peak) ==
    LET cached == IF report.cache = Unknown THEN 0 ELSE report.cache
        full == (report.input - cached) * tier.input + cached * CacheRate(tier)
                + report.output * tier.output
    IN IF peak THEN full ELSE full \div 2

Usage(complete, tokens, currency, price) ==
    [complete |-> complete, tokens |-> tokens, currency |-> currency, price |-> price]

collect_usage(report, pricing, complete, peak) ==
    CASE ~Stated(report) -> Usage(FALSE, 0, Unknown, Unknown)
      [] Stated(report) /\ ~(Consistent(report) /\ complete) ->
            Usage(FALSE, TokensOfReport(report), Unknown, Unknown)
      [] Stated(report) /\ Consistent(report) /\ complete ->
            IF Tier(pricing, report.input) = {}
            THEN Usage(TRUE, TokensOfReport(report), Unknown, Unknown)
            ELSE LET tier == CHOOSE t \in Tier(pricing, report.input) : TRUE
                 IN Usage(TRUE, TokensOfReport(report), pricing.currency,
                          IF NeedsCache(tier, report) THEN Unknown ELSE Price(tier, report, peak))

-----------------------------------------------------------------------------
(***************************************************************************)
(* The turn.                                                               *)
(***************************************************************************)
Total(f(_), set) == MapThenSumSet(f, set)

known_costs(currency) ==
    Total(LAMBDA i : calls[i].price,
          {i \in DOMAIN calls : calls[i].price # Unknown /\ calls[i].currency = currency})

Currencies == {calls[i].currency : i \in DOMAIN calls} \ {Unknown}
Currency == IF Cardinality(Currencies) = 1 THEN CHOOSE c \in Currencies : TRUE ELSE Unknown

\* Mutant: it is enough that every call was reported.
PriceComplete_Reported(interrupted) == ~interrupted /\ \A i \in DOMAIN calls : calls[i].complete

PriceComplete(interrupted) ==
    ~interrupted /\ \A i \in DOMAIN calls : calls[i].complete /\ calls[i].price # Unknown

summarize_usage(interrupted) ==
    [interrupted |-> interrupted,
     complete |-> ~interrupted /\ \A i \in DOMAIN calls : calls[i].complete,
     tokens |-> Total(LAMBDA i : calls[i].tokens, DOMAIN calls),
     total_price |-> IF PriceComplete(interrupted) /\ Cardinality(Currencies) <= 1
                     THEN known_costs(Currency) ELSE Unknown]

\* The column of the message: the total, or what is known in the one currency.
summary_fields(summary) ==
    IF summary.total_price # Unknown THEN summary.total_price
    ELSE IF Currency # Unknown THEN known_costs(Currency) ELSE 0

BillInit ==
    /\ call = << >>
    /\ calls = << >>
    /\ bill = << >>

\* A call is whole unless its stream broke off; a call that is never settled counts
\* like one of which nothing is reported.
CallEnds ==
    /\ call = << >>
    /\ bill = << >>
    /\ Len(calls) < MaxCalls
    /\ \E report \in Reports, pricing \in Pricings, complete, peak \in BOOLEAN :
          /\ pricing.scheduled \/ peak
          /\ call' = <<[report |-> report, pricing |-> pricing, peak |-> peak,
                        usage |-> collect_usage(report, pricing, complete, peak)]>>
    /\ UNCHANGED <<calls, bill>>

\* The settlement brings the usage of the whole call to the events of the turn.
UsageMerged ==
    /\ \E i \in DOMAIN call : calls' = Append(calls, call[i].usage)
    /\ call' = << >>
    /\ UNCHANGED bill

TurnEnds ==
    /\ call = << >>
    /\ bill = << >>
    /\ \E interrupted \in BOOLEAN :
          LET summary == summarize_usage(interrupted)
          IN bill' = <<[summary |-> summary, column |-> summary_fields(summary)]>>
    /\ UNCHANGED <<call, calls>>

BillNext == CallEnds \/ UsageMerged \/ TurnEnds

BillSpec == BillInit /\ [][BillNext]_billVars

-----------------------------------------------------------------------------
\* A price is stated only if it is certain: it is the price at every number of
\* cached tokens that the report leaves possible, by the tier with the smallest
\* limit that the prompt fits in.
PriceIsCertain ==
    \A i \in DOMAIN call : call[i].usage.price # Unknown =>
        LET report == call[i].report
            possible == IF report.cache = Unknown THEN 0 .. report.input ELSE {report.cache}
            fitting == {t \in {call[i].pricing.tiers[j] : j \in DOMAIN call[i].pricing.tiers} :
                           t.limit = Unknown \/ report.input <= t.limit}
            narrowest == CHOOSE t \in fitting :
                            \A u \in fitting : u.limit = Unknown \/ (t.limit # Unknown /\ t.limit <= u.limit)
        IN /\ report.total \in {Unknown, report.input + report.output}
           /\ ~report.exceeds
           /\ \A cached \in possible :
                 (IF call[i].peak THEN 1 ELSE 2) * call[i].usage.price =
                     (report.input - cached) * narrowest.input + report.output * narrowest.output
                     + cached * (IF narrowest.cache = Unknown THEN narrowest.input ELSE narrowest.cache)

\* The bill of a turn has a total only if the turn was not cut off and every call has
\* a price, all in one currency; the column never adds up two currencies.
BillIsWholeOrOpen ==
    \A i \in DOMAIN bill :
        LET prices == {j \in DOMAIN calls : calls[j].price # Unknown}
            spent == Total(LAMBDA j : calls[j].price, prices)
        IN /\ bill[i].summary.total_price # Unknown =>
                 /\ ~bill[i].summary.interrupted
                 /\ prices = DOMAIN calls
                 /\ \A j, k \in prices : calls[j].currency = calls[k].currency
                 /\ bill[i].summary.total_price = spent
           /\ bill[i].column # 0 =>
                 /\ bill[i].column = spent
                 /\ \A j, k \in prices : calls[j].currency = calls[k].currency
=============================================================================
