----------------------------- MODULE HealthConfig -----------------------------
(***************************************************************************)
(* The settings of a health check on their way from a payload to the loop  *)
(* that uses them: normalizeHealthSettings (internal/config), which        *)
(* refuses or completes what was registered, then runtimeSettingsFrom      *)
(* (internal/health), which reads the stored strings again and never       *)
(* refuses; and nextInterval, the time the loop waits between two checks.  *)
(*                                                                         *)
(* A duration is a number of any unit; Duration.String and ParseDuration   *)
(* are inverse to each other, so that storing one as a string keeps it.    *)
(* The path only matters for being empty or not beginning with a slash.    *)
(***************************************************************************)
EXTENDS Integers

CONSTANTS
    Payloads,   \* HealthSettings as they may be registered, None for none at all
    Defaults,   \* DefaultHealthSettings, completely set
    Unset,      \* "" for a duration, nil for Enabled
    Unparsable, \* no duration
    None

Durations == {"interval", "timeout", "jitter", "maxBackoff"}

\* What a loop can run with: it never spins, and its backoff never falls below its interval.
Runnable(s) ==
    /\ s.interval > 0 /\ s.timeout > 0 /\ s.jitter >= 0
    /\ s.interval <= s.maxBackoff
    /\ s.failureThreshold > 0 /\ s.successThreshold > 0

\* The fields of a payload: pointers may be nil, and strings empty or anything.
HealthSettingsForms ==
    [enabled : BOOLEAN \cup {Unset}, path : {"unset", "absolute", "relative"},
     interval : Int \cup {Unset, Unparsable}, timeout : Int \cup {Unset, Unparsable},
     jitter : Int \cup {Unset, Unparsable}, maxBackoff : Int \cup {Unset, Unparsable},
     failureThreshold : Int, successThreshold : Int]

\* What is left of them when they are stored.
CompleteSettings ==
    [enabled : BOOLEAN, path : {"absolute"}, interval : Int, timeout : Int, jitter : Int,
     maxBackoff : Int, failureThreshold : Int, successThreshold : Int]

ASSUME PayloadsAreForms == Payloads \subseteq HealthSettingsForms \cup {None}
ASSUME DefaultsAreRunnable ==
    Defaults \in CompleteSettings /\ Defaults.enabled /\ Runnable(Defaults)
ASSUME NoneIsNoPayload == None \notin CompleteSettings
ASSUME UnsetIsNoValue == Unset \notin Int /\ Unset \notin BOOLEAN
ASSUME UnparsableIsNoDuration == Unparsable \notin Int /\ Unparsable # Unset

-----------------------------------------------------------------------------
(* normalizeHealthSettings                                                 *)

\* Mutant: zero passes for positive.
positiveOrZero(value) == value = Unset \/ (value # Unparsable /\ value >= 0)

\* normalizePositiveDuration accepts it.
positive(value) == value = Unset \/ (value # Unparsable /\ value > 0)

\* normalizeNonNegativeDuration accepts it.
nonNegative(value) == value = Unset \/ (value # Unparsable /\ value >= 0)

orDefault(value, field) == IF value = Unset THEN Defaults[field] ELSE value

accepted(p) ==
    \/ p = None
    \/ /\ p.path # "relative"
       /\ positive(p.interval) /\ positive(p.timeout)
       /\ nonNegative(p.jitter) /\ positive(p.maxBackoff)
       /\ orDefault(p.maxBackoff, "maxBackoff") >= orDefault(p.interval, "interval")
       /\ p.failureThreshold >= 0 /\ p.successThreshold >= 0

\* What is stored of an accepted payload.
normalizeHealthSettings(p) ==
    IF p = None THEN Defaults
    ELSE [enabled |-> orDefault(p.enabled, "enabled"),
          path |-> "absolute",
          interval |-> orDefault(p.interval, "interval"),
          timeout |-> orDefault(p.timeout, "timeout"),
          jitter |-> orDefault(p.jitter, "jitter"),
          maxBackoff |-> orDefault(p.maxBackoff, "maxBackoff"),
          failureThreshold |->
            IF p.failureThreshold = 0 THEN Defaults.failureThreshold ELSE p.failureThreshold,
          successThreshold |->
            IF p.successThreshold = 0 THEN Defaults.successThreshold ELSE p.successThreshold]

-----------------------------------------------------------------------------
(* runtimeSettingsFrom                                                     *)

\* desiredTargets skips a service whose durations cannot be parsed.
skipped(s) == s # None /\ \E field \in Durations : s[field] = Unparsable

\* What the loop is given; no setting is checked again.
runtimeSettingsFrom(s) ==
    IF s = None THEN Defaults
    ELSE [enabled |-> orDefault(s.enabled, "enabled"),
          path |-> IF s.path = "unset" THEN Defaults.path ELSE s.path,
          interval |-> orDefault(s.interval, "interval"),
          timeout |-> orDefault(s.timeout, "timeout"),
          jitter |-> orDefault(s.jitter, "jitter"),
          maxBackoff |-> orDefault(s.maxBackoff, "maxBackoff"),
          failureThreshold |->
            IF s.failureThreshold <= 0 THEN Defaults.failureThreshold ELSE s.failureThreshold,
          successThreshold |->
            IF s.successThreshold <= 0 THEN Defaults.successThreshold ELSE s.successThreshold]

\* The offset of a target, always the same: the hash of its key.
jitterFor(hash, maxJitter) == IF maxJitter <= 0 THEN 0 ELSE hash % maxJitter

\* Mutant: the interval is doubled without a look at the maximum.
nextIntervalUncapped(s, jitter, failures) ==
    LET rounds == IF failures >= s.failureThreshold THEN failures - s.failureThreshold + 1 ELSE 0
        grown[n \in 0..rounds] == IF n = 0 THEN s.interval ELSE grown[n - 1] * 2
    IN grown[rounds] + jitter

\* One doubling when the threshold is reached and one for each failure after it.  Division
\* rounds down, and an interval that has reached half of the maximum becomes the maximum.
nextInterval(s, jitter, failures) ==
    LET rounds == IF failures >= s.failureThreshold THEN failures - s.failureThreshold + 1 ELSE 0
        grown[n \in 0..rounds] ==
            IF n = 0 THEN s.interval
            ELSE IF grown[n - 1] >= s.maxBackoff \div 2 THEN s.maxBackoff ELSE grown[n - 1] * 2
    IN (IF grown[rounds] > s.maxBackoff THEN s.maxBackoff ELSE grown[rounds]) + jitter
=============================================================================
