------------------------------ MODULE OpsAlert ------------------------------
(***************************************************************************)
(* The alert worker and the daily inspection (StartOpsCenterBackground in  *)
(* internal/ops_center_alert_worker.go).  Every process that runs the      *)
(* background jobs has one goroutine with a ticker of a minute.  A tick    *)
(* loads the state of the rules from the platform KV, queries Prometheus   *)
(* for one rule after the other, notifies at once and saves the state at   *)
(* its end; then it looks whether the daily report is due.  A document that *)
(* cannot be read counts as one that is not there, and Redis, in front of   *)
(* the store, may answer with an older one after a save that it missed.     *)
(*                                                                         *)
(* The job ignores the end of its leadership, so that two processes may    *)
(* run it together (LeaderJobs); the clock counts minutes of one day.      *)
(***************************************************************************)
EXTENDS Naturals, FiniteSets

CONSTANTS
    Workers,        \* processes that may run the job
    Rules,
    ForMinutes,     \* how long a condition must hold before its rule fires
    ReportMinute,   \* when the daily report is due
    MaxClock, MaxUpsets

ASSUME AlertAssumption ==
    /\ ForMinutes \in Nat \ {0} /\ ReportMinute \in Nat \ {0}
    /\ MaxClock \in Nat \ {0} /\ MaxUpsets \in Nat

VARIABLES
    clock,
    ticker,          \* the minute of a worker's next tick, 0 if the job does not run
    since, firing,   \* the saved state: PendingSince (0: none) and LastFiring
    tick,            \* a worker's tick: where it is, the rules to come, its copy
    reported,        \* the saved date of the last daily report is today
    older, oldDate,  \* the states that Redis may answer with instead; or an older date
    upsets

\* What has happened: the last notice was FIRING; the last minute a rule was seen
\* quiet or silenced; rules that fired too early; reports of the day; a tick was cut
\* off, read something else than what was saved, failed to save or met another one.
VARIABLES said, quiet, hasty, reports, spoilt

alertHist == <<said, quiet, hasty, reports, spoilt>>
alertKV == <<since, firing, reported, older, oldDate>>
alertVars == <<clock, ticker, alertKV, tick, upsets, alertHist>>

Minutes == 0..MaxClock

Idle == [at |-> "idle", now |-> 0, todo |-> {}, since |-> [r \in Rules |-> 0], firing |-> {}]

Ticks == [at : {"idle", "rules", "daily", "inspect"}, now : Minutes, todo : SUBSET Rules,
          since : [Rules -> Minutes], firing : SUBSET Rules]

\* The document of the state.
States == [since : [Rules -> Minutes], firing : SUBSET Rules]
Saved == [since |-> since, firing |-> firing]
Nothing == [since |-> [r \in Rules |-> 0], firing |-> {}]

AlertTypeOK ==
    /\ clock \in 1..MaxClock
    /\ ticker \in [Workers -> 0..MaxClock + 1]
    /\ since \in [Rules -> Minutes] /\ firing \subseteq Rules
    /\ tick \in [Workers -> Ticks]
    /\ older \subseteq States /\ oldDate \in BOOLEAN
    /\ reported \in BOOLEAN /\ upsets \in 0..MaxUpsets
    /\ said \subseteq Rules /\ quiet \in [Rules -> Minutes] /\ hasty \subseteq Rules
    /\ reports \in Nat /\ spoilt \in BOOLEAN

AlertInit ==
    /\ clock = 1 /\ ticker = [w \in Workers |-> 0]
    /\ since = [r \in Rules |-> 0] /\ firing = {}
    /\ tick = [w \in Workers |-> Idle]
    /\ reported = FALSE /\ upsets = 0
    /\ older = {} /\ oldDate = FALSE
    /\ said = {} /\ quiet = [r \in Rules |-> 0] /\ hasty = {}
    /\ reports = 0 /\ spoilt = FALSE

Upset == upsets < MaxUpsets /\ upsets' = upsets + 1

Busy(w) == tick[w].at # "idle"

Minute ==
    /\ clock < MaxClock
    /\ clock' = clock + 1
    /\ UNCHANGED <<ticker, alertKV, tick, upsets, alertHist>>

(* The first tick of a job is a minute after its start.  A second process   *)
(* starts it beside the first one only while that one is leaving.           *)
StartJob(w) ==
    /\ ticker[w] = 0
    /\ \/ /\ \A v \in Workers : ticker[v] = 0
          /\ UNCHANGED upsets
       \/ Upset
    /\ ticker' = [ticker EXCEPT ![w] = clock + 1]
    /\ UNCHANGED <<clock, alertKV, tick, alertHist>>

\* The process ends, maybe in the middle of a tick.
KillJob(w) ==
    /\ ticker[w] # 0 /\ Upset
    /\ ticker' = [ticker EXCEPT ![w] = 0]
    /\ tick' = [tick EXCEPT ![w] = Idle]
    /\ spoilt' = (spoilt \/ Busy(w))
    /\ UNCHANGED <<clock, alertKV, said, quiet, hasty, reports>>

\* What Redis had of the documents has expired.
Forget ==
    /\ older # {} \/ oldDate
    /\ older' = {} /\ oldDate' = FALSE
    /\ UNCHANGED <<clock, ticker, since, firing, reported, tick, upsets, alertHist>>

\* What the Get of the state gives: if it fails, a state with nothing in it.
ReadsState(s) ==
    \/ s \in {Saved} \cup older /\ UNCHANGED upsets
    \/ s = Nothing /\ Upset

(* A slow tick makes the ticker drop the ones it has missed.                *)
BeginTick(w, s) ==
    /\ ticker[w] \in 1..clock /\ ~Busy(w) /\ ReadsState(s)
    /\ ticker' = [ticker EXCEPT ![w] = clock + 1]
    /\ tick' = [tick EXCEPT ![w] = [at |-> "rules", now |-> clock, todo |-> Rules,
                                    since |-> s.since, firing |-> s.firing]]
    /\ spoilt' = (spoilt \/ s # Saved \/ \E v \in Workers : Busy(v))
    /\ UNCHANGED <<clock, alertKV, said, quiet, hasty, reports>>

-----------------------------------------------------------------------------
(* One rule of opsTickAlerts.                                               *)

Considers(w, r) == tick[w].at = "rules" /\ r \in tick[w].todo

Settle(w, r, start, fires) ==
    tick' = [tick EXCEPT ![w].todo = @ \ {r},
                         ![w].since = [@ EXCEPT ![r] = start],
                         ![w].firing = fires]

\* A rule that is switched off keeps its state.
SkipRule(w, r) ==
    /\ Considers(w, r)
    /\ Settle(w, r, tick[w].since[r], tick[w].firing)
    /\ UNCHANGED <<clock, ticker, alertKV, upsets, alertHist>>

\* Mutant: silencing a rule leaves it pending.
SilencedKeepsPending(w, r) ==
    /\ Considers(w, r)
    /\ Settle(w, r, tick[w].since[r], tick[w].firing)
    /\ quiet' = [quiet EXCEPT ![r] = tick[w].now]
    /\ UNCHANGED <<clock, ticker, alertKV, upsets, said, hasty, reports, spoilt>>

SilencedRule(w, r) ==
    /\ Considers(w, r)
    /\ Settle(w, r, 0, tick[w].firing)
    /\ quiet' = [quiet EXCEPT ![r] = tick[w].now]
    /\ UNCHANGED <<clock, ticker, alertKV, upsets, said, hasty, reports, spoilt>>

\* Mutant: the rule is announced as resolved and stays marked as firing.
QuietStaysFiring(w, r) ==
    /\ Considers(w, r)
    /\ Settle(w, r, 0, tick[w].firing)
    /\ said' = IF r \in tick[w].firing THEN said \ {r} ELSE said
    /\ quiet' = [quiet EXCEPT ![r] = tick[w].now]
    /\ UNCHANGED <<clock, ticker, alertKV, upsets, hasty, reports, spoilt>>

\* The condition does not hold, or the query failed.
QuietRule(w, r) ==
    /\ Considers(w, r)
    /\ Settle(w, r, 0, tick[w].firing \ {r})
    /\ said' = IF r \in tick[w].firing THEN said \ {r} ELSE said
    /\ quiet' = [quiet EXCEPT ![r] = tick[w].now]
    /\ UNCHANGED <<clock, ticker, alertKV, upsets, hasty, reports, spoilt>>

Started(w, r) == IF tick[w].since[r] = 0 THEN tick[w].now ELSE tick[w].since[r]

PendingRule(w, r) ==
    /\ Considers(w, r) /\ tick[w].now - Started(w, r) < ForMinutes
    /\ Settle(w, r, Started(w, r), tick[w].firing)
    /\ UNCHANGED <<clock, ticker, alertKV, upsets, alertHist>>

FiringRule(w, r) ==
    /\ Considers(w, r) /\ tick[w].now - Started(w, r) >= ForMinutes
    /\ Settle(w, r, Started(w, r), tick[w].firing \cup {r})
    /\ said' = IF r \in tick[w].firing THEN said ELSE said \cup {r}
    /\ hasty' = IF r \notin tick[w].firing /\ tick[w].now < quiet[r] + ForMinutes
                THEN hasty \cup {r} ELSE hasty
    /\ UNCHANGED <<clock, ticker, alertKV, upsets, quiet, reports, spoilt>>

(* The end of opsTickAlerts: the result of the save is ignored.             *)
SaveState(w) ==
    /\ tick[w].at = "rules" /\ tick[w].todo = {}
    /\ since' = tick[w].since /\ firing' = tick[w].firing
    /\ \/ older' = {} /\ UNCHANGED upsets
       \/ older' = older \cup {Saved} /\ Upset
    /\ tick' = [tick EXCEPT ![w] = [Idle EXCEPT !.at = "daily"]]
    /\ UNCHANGED <<clock, ticker, reported, oldDate, alertHist>>

\* It may have been saved nevertheless; Redis is not told then.
SaveStateFails(w) ==
    /\ tick[w].at = "rules" /\ tick[w].todo = {} /\ Upset
    /\ tick' = [tick EXCEPT ![w] = [Idle EXCEPT !.at = "daily"]]
    /\ \/ UNCHANGED <<since, firing, older>>
       \/ /\ since' = tick[w].since /\ firing' = tick[w].firing
          /\ older' = older \cup {Saved}
    /\ spoilt' = TRUE
    /\ UNCHANGED <<clock, ticker, reported, oldDate, said, quiet, hasty, reports>>

-----------------------------------------------------------------------------
(* opsTickDailyInspect.                                                     *)

\* What the Get of the date gives: one that fails or is answered with an older date
\* says that there was no report today.
ReadsDate(seen) ==
    \/ seen = reported /\ UNCHANGED <<upsets, spoilt>>
    \/ /\ ~seen /\ reported /\ spoilt' = TRUE
       /\ \/ oldDate /\ UNCHANGED upsets
          \/ Upset

\* Mutant: the date of the last report is not looked at.
EveryReportDue(seen) == clock = ReportMinute

\* In this very minute, and not reported yet.
ReportDue(seen) == clock = ReportMinute /\ ~seen

BeginReport(w, seen) ==
    /\ tick[w].at = "daily" /\ ReadsDate(seen) /\ ReportDue(seen)
    /\ tick' = [tick EXCEPT ![w].at = "inspect"]
    /\ UNCHANGED <<clock, ticker, alertKV, said, quiet, hasty, reports>>

NoReport(w) ==
    /\ tick[w].at = "daily" /\ ~ReportDue(reported)
    /\ tick' = [tick EXCEPT ![w] = Idle]
    /\ UNCHANGED <<clock, ticker, alertKV, upsets, alertHist>>

\* The inspection saves its report before the date of the day is saved.
SaveReport(w) ==
    /\ tick[w].at = "inspect"
    /\ reports' = reports + 1 /\ reported' = TRUE
    /\ \/ oldDate' = FALSE /\ UNCHANGED upsets
       \/ oldDate' = TRUE /\ Upset
    /\ tick' = [tick EXCEPT ![w] = Idle]
    /\ UNCHANGED <<clock, ticker, since, firing, older, said, quiet, hasty, spoilt>>

\* The save of the date, whose result is ignored, fails, or is done without an answer.
SaveDateFails(w) ==
    /\ tick[w].at = "inspect" /\ Upset
    /\ reports' = reports + 1 /\ spoilt' = TRUE
    /\ \/ UNCHANGED <<reported, oldDate>>
       \/ reported' = TRUE /\ oldDate' = TRUE
    /\ tick' = [tick EXCEPT ![w] = Idle]
    /\ UNCHANGED <<clock, ticker, since, firing, older, said, quiet, hasty>>

InspectionFails(w) ==
    /\ tick[w].at = "inspect" /\ Upset
    /\ tick' = [tick EXCEPT ![w] = Idle]
    /\ UNCHANGED <<clock, ticker, alertKV, alertHist>>

-----------------------------------------------------------------------------
RuleStep(w, r) ==
    SkipRule(w, r) \/ SilencedRule(w, r) \/ QuietRule(w, r) \/ PendingRule(w, r) \/ FiringRule(w, r)

AlertNext ==
    \/ Minute \/ Forget
    \/ \E w \in Workers :
        \/ StartJob(w) \/ KillJob(w)
        \/ \E s \in {Saved, Nothing} \cup older : BeginTick(w, s)
        \/ \E r \in Rules : RuleStep(w, r)
        \/ SaveState(w) \/ SaveStateFails(w)
        \/ \E seen \in BOOLEAN : BeginReport(w, seen)
        \/ NoReport(w) \/ SaveReport(w) \/ SaveDateFails(w) \/ InspectionFails(w)

AlertSpec == AlertInit /\ [][AlertNext]_alertVars

-----------------------------------------------------------------------------
\* Between two ticks the saved state says of each rule what its last notice said, so
\* that notices alternate and every FIRING can be followed by its RESOLVED, unless a
\* tick was cut off, could not read or save, read an older state from Redis, or met a
\* tick of another process.
FiringAsSaid == (\A w \in Workers : tick[w].at # "rules") => firing = said \/ spoilt

\* A rule is announced as firing only if nobody has seen it quiet or silenced for as
\* long as its condition has to hold, under the same reservation.
FiringEarned == hasty = {} \/ spoilt

\* Two processes that both run the job in the minute of the daily report do not both
\* make it, under the same reservation.
DailyOnce == reports <= 1 \/ spoilt
=============================================================================
