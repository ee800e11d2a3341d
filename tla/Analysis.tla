-------------------------------- MODULE Analysis --------------------------------
(***************************************************************************)
(* AnalysisService: the figures of one app for the days before today, from *)
(* messages that are created when a turn begins and counted once they have *)
(* an answer, with a cache per day in Redis.  Time passes in half days.    *)
(***************************************************************************)
EXTENDS Integers, Sequences, FiniteSets, FiniteSetsExt

CONSTANTS Analysers,       \* requests
          WindowDays,      \* length of a window, 7 in the code
          Kinds,           \* what a message may be: records of user, conversation, tokens,
                           \* latency and price
          MaxMessages,     \* bound on the messages of a run
          MaxTime          \* bound on the time of a run

ASSUME WindowAssumption == WindowDays \in Nat \ {0} /\ MaxTime \in Nat

ASSUME KindsAssumption ==
    \A kind \in Kinds : kind.price \in Int /\ kind.tokens \in Nat /\ kind.latency \in Nat

VARIABLES now,             \* half days since the beginning
          log,             \* Message rows
          cache,           \* the analyses in Redis, with the time when they expire
          analysis         \* the requests

analysisVars == <<now, log, cache, analysis>>

Midnight(t) == t - (t % 2)
Days == 0 .. MaxTime \div 2

NoAnalysis == [at |-> "new"]

AnalysisTypeOK ==
    /\ now \in 0 .. MaxTime
    /\ \A m \in DOMAIN log : log[m].at <= now /\ log[m].answered <= now /\ log[m].kind \in Kinds
    /\ \A d \in Days : cache[d] # {} => \E c \in cache[d] : cache[d] = {c} /\ c.expires <= MaxTime + 2
    /\ \A a \in Analysers : analysis[a].at \in {"new", "hit", "computing", "comparing", "computed", "over"}

AnalysisInit ==
    /\ now = 0
    /\ log = << >>
    /\ cache = [d \in Days |-> {}]
    /\ analysis = [a \in Analysers |-> NoAnalysis]

-----------------------------------------------------------------------------
(***************************************************************************)
(* The world: messages are created without an answer (-1), get one later,  *)
(* and Redis forgets what has expired.                                     *)
(***************************************************************************)
Tick ==
    /\ now < MaxTime
    /\ now' = now + 1
    /\ cache' = [d \in Days |-> {c \in cache[d] : c.expires > now + 1}]
    /\ UNCHANGED <<log, analysis>>

NewMessageRow ==
    /\ Len(log) < MaxMessages
    /\ \E kind \in Kinds : log' = Append(log, [at |-> now, answered |-> -1, kind |-> kind])
    /\ UNCHANGED <<now, cache, analysis>>

AnswerMessage ==
    /\ \E m \in DOMAIN log :
          /\ log[m].answered = -1
          /\ log' = [log EXCEPT ![m].answered = now]
    /\ UNCHANGED <<now, cache, analysis>>

-----------------------------------------------------------------------------
(***************************************************************************)
(* The figures.  A quotient is the pair of its terms, <<0, 1>> where the   *)
(* code keeps it from being a division by zero.                            *)
(***************************************************************************)
get_messages_by_time_range(start, end) ==
    {m \in DOMAIN log : start <= log[m].at /\ log[m].at < end /\ log[m].answered # -1}

Users(ms) == {log[m].kind.user : m \in ms}
Talks(ms) == {log[m].kind.conversation : m \in ms}
Tokens(ms) == MapThenSumSet(LAMBDA m : log[m].kind.tokens, ms)
Latency(ms) == MapThenSumSet(LAMBDA m : log[m].kind.latency, ms)
Cost(ms) == MapThenSumSet(LAMBDA m : log[m].kind.price, ms)

Quotient(n, d) == IF d = 0 THEN <<0, 1>> ELSE <<n, d>>

Average(ms) == Quotient(Cardinality(ms), Cardinality(Talks(ms)))

calculate_overview_indicators_by_messages(ms) ==
    [total_messages |-> Cardinality(ms),
     active_accounts |-> Cardinality(Users(ms)),
     avg_of_conversation_messages |-> Average(ms),
     token_output_rate |-> Quotient(Tokens(ms), Latency(ms)),
     cost_consumption |-> Cost(ms)]

\* (a / b - c / d) / (c / d); 0 where c is 0.
Growth(current, previous) ==
    Quotient(current[1] * previous[2] - previous[1] * current[2], previous[1] * current[2])

\* Growth against the window before.
calculate_pop_by_overview_indicators(current, previous) ==
    [f \in DOMAIN current |->
        IF f \in {"avg_of_conversation_messages", "token_output_rate"}
        THEN Growth(current[f], previous[f])
        ELSE Growth(<<current[f], 1>>, <<previous[f], 1>>)]

\* Four figures a day, of the messages that were read for the window.
calculate_trend_by_messages(end, ms) ==
    [d \in 1 .. WindowDays |->
        LET start == end - 2 * (WindowDays - d + 1)
            day == {m \in ms : start <= log[m].at /\ log[m].at < start + 2}
        IN [total_messages |-> Cardinality(day),
            active_accounts |-> Cardinality(Users(day)),
            avg_of_conversation_messages |-> Average(day),
            cost_consumption |-> Cost(day)]]

-----------------------------------------------------------------------------
(***************************************************************************)
(* get_app_analysis.  The clock is read once; an entry may expire between  *)
(* exists and get; a failure of Redis is passed over both times.           *)
(***************************************************************************)
Analyses(a, from, values) ==
    /\ analysis[a].at = from
    /\ analysis' = [analysis EXCEPT ![a] = values]
    /\ UNCHANGED <<now, log>>

\* Mutant: one entry for all days.
CacheKey_OneForAll(time) == 0

CacheKey(time) == time \div 2

AskAnalysis(a) ==
    /\ \E at \in (IF cache[CacheKey(now)] # {} THEN {"hit", "computing"} ELSE {"computing"}),
          from \in {"new", "over"} : Analyses(a, from, [at |-> at, today |-> now])
    /\ UNCHANGED cache

ReadCache(a) ==
    /\ analysis[a].at = "hit"
    /\ LET entry == cache[CacheKey(analysis[a].today)]
       IN \/ /\ entry = {}
             /\ Analyses(a, "hit", [analysis[a] EXCEPT !.at = "computing"])
          \/ \E c \in entry :
                Analyses(a, "hit", [at |-> "over", today |-> analysis[a].today, figures |-> c.figures])
    /\ UNCHANGED cache

\* The messages of the window are read, ...
ReadRecent(a) ==
    /\ analysis[a].at = "computing"
    /\ LET today == analysis[a].today
           end == Midnight(today)
       IN Analyses(a, "computing",
                   [at |-> "comparing", today |-> today,
                    recent |-> get_messages_by_time_range(end - 2 * WindowDays, end)])
    /\ UNCHANGED cache

Figures(end, recent) ==
    LET before == get_messages_by_time_range(end - 4 * WindowDays, end - 2 * WindowDays)
        overview == calculate_overview_indicators_by_messages(recent)
    IN [overview |-> overview,
        pop |-> calculate_pop_by_overview_indicators(
                    overview, calculate_overview_indicators_by_messages(before)),
        trend |-> calculate_trend_by_messages(end, recent)]

\* ... and those of the window before it by a statement of their own.
Compute(a) ==
    /\ analysis[a].at = "comparing"
    /\ LET today == analysis[a].today
       IN Analyses(a, "comparing", [at |-> "computed", today |-> today,
                                    figures |-> Figures(Midnight(today), analysis[a].recent)])
    /\ UNCHANGED cache

\* setex for a day, or a failure that is only logged.
WriteCache(a) ==
    /\ Analyses(a, "computed", [analysis[a] EXCEPT !.at = "over"])
    /\ \/ cache' = [cache EXCEPT ![CacheKey(analysis[a].today)] =
                       {[figures |-> analysis[a].figures, expires |-> now + 2]}]
       \/ UNCHANGED cache

get_app_analysis(a) == AskAnalysis(a) \/ ReadCache(a) \/ ReadRecent(a) \/ Compute(a) \/ WriteCache(a)

AnalysisNext ==
    \/ Tick \/ NewMessageRow \/ AnswerMessage
    \/ \E a \in Analysers : get_app_analysis(a)

AnalysisSpec == AnalysisInit /\ [][AnalysisNext]_analysisVars

-----------------------------------------------------------------------------
\* Figures that are served, from the cache or not, are those of the day they were
\* asked on: a message of the window is missing only if it was answered after the
\* midnight that ends the window.  The days of the trend tile that window.
ServedIsOfToday ==
    \A a \in Analysers : analysis[a].at = "over" =>
        LET end == Midnight(analysis[a].today)
            window == get_messages_by_time_range(end - 2 * WindowDays, end)
            overview == analysis[a].figures.overview
            n == overview.total_messages
            Tiled(f) == MapThenSumSet(LAMBDA d : analysis[a].figures.trend[d][f], 1 .. WindowDays)
        IN /\ n <= Cardinality(window)
           /\ n >= Cardinality({m \in window : log[m].answered < end})
           /\ Tiled("total_messages") = n
           /\ Tiled("cost_consumption") = overview.cost_consumption
=============================================================================
