----------------------------- MODULE Throttling -----------------------------
(***************************************************************************)
(* Failed-authentication throttling: services/throttling.go and the three  *)
(* callers that ask IsLocked before they check a credential and call       *)
(* RecordFailure after it was wrong (apiKeyTokenAuth, secretAuth, and      *)
(* loginThrottle with processLogin).                                       *)
(*                                                                         *)
(* RecordFailure reads the clock before it takes the mutex, and a request  *)
(* asks IsLocked long before its failure is recorded, so each is a step of *)
(* its own.  Time is a counter of ticks.                                   *)
(***************************************************************************)
EXTENDS Integers, SequencesExt

CONSTANTS
    IPs,         \* client addresses
    Attempts,    \* concurrent requests
    Window,      \* throttlingWindowMs
    MaxFails,    \* throttlingMaxFails
    Lockout,     \* throttlingLockoutMs
    Stale,       \* throttlingStaleMs
    MaxEntries,  \* throttlingMaxEntries
    RecordDelay, \* longest wait of RecordFailure for the mutex
    MaxTime,     \* bound on the clock
    NoIP

ASSUME ThrottlingAssumption ==
    /\ {Window, MaxFails, Lockout, Stale, MaxEntries} \subseteq Nat \ {0}
    /\ RecordDelay \in Nat /\ Window + RecordDelay <= Stale  \* 1 minute against 10
    /\ MaxTime \in Nat
    /\ NoIP \notin IPs

VARIABLES
    now,     \* the clock
    entries, \* entries: a map from some of the IPs to their state
    stage,   \* stage[r]: where request r is
    ip,      \* ip[r]: its client
    at,      \* at[r]: the clock RecordFailure read
    tick     \* the sweeper's pending tick, or -1

throttleVars == <<now, entries, stage, ip, at, tick>>

Entry == [failures : Seq(0..MaxTime), lockedUntil : Nat, lastSeenMs : 0..MaxTime]

ThrottleInit ==
    /\ now = 0
    /\ entries = [i \in {} |-> 0]
    /\ stage = [r \in Attempts |-> "idle"]
    /\ ip = [r \in Attempts |-> NoIP]
    /\ at = [r \in Attempts |-> 0]
    /\ tick = -1

tracked == DOMAIN entries
locked(i) == i \in tracked /\ now < entries[i].lockedUntil

\* The failures that still count at time t, in their order.
pruned(failures, t) ==
    LET kept[n \in 0..Len(failures)] ==
            IF n = 0 THEN <<>>
            ELSE IF failures[n] > t - Window THEN Append(kept[n - 1], failures[n])
                 ELSE kept[n - 1]
    IN  kept[Len(failures)]

\* The map m with entry e for i, and without i.
with(m, i, e) == [j \in DOMAIN m \cup {i} |-> IF j = i THEN e ELSE m[j]]
without(m, i) == [j \in DOMAIN m \ {i} |-> m[j]]

-----------------------------------------------------------------------------
\* IsLocked: a locked client is turned away before its credential is read.
IsLocked(r, i) ==
    /\ stage[r] = "idle"
    /\ IF locked(i)
       THEN UNCHANGED <<stage, ip>>
       ELSE /\ stage' = [stage EXCEPT ![r] = "verify"]
            /\ ip' = [ip EXCEPT ![r] = i]
    /\ UNCHANGED <<now, entries, at, tick>>

\* The credential was right: the request goes on and leaves no trace here.
Pass(r) ==
    /\ stage[r] = "verify"
    /\ stage' = [stage EXCEPT ![r] = "idle"]
    /\ ip' = [ip EXCEPT ![r] = NoIP]
    /\ UNCHANGED <<now, entries, at, tick>>

\* It was wrong: RecordFailure reads the clock ...
FailReadClock(r) ==
    /\ stage[r] = "verify"
    /\ stage' = [stage EXCEPT ![r] = "record"]
    /\ at' = [at EXCEPT ![r] = now]
    /\ UNCHANGED <<now, entries, ip, tick>>

\* Variation of evictOldestEntryLocked: nobody is evicted when all are locked.
evictOnlyUnlocked ==
    LET unlocked == {i \in tracked : ~locked(i)}
    IN  IF unlocked = {} THEN {NoIP}
        ELSE {i \in unlocked :
                 \A j \in unlocked : entries[i].lastSeenMs <= entries[j].lastSeenMs}

\* The entries evictOldestEntryLocked may delete: the longest unseen of the
\* unlocked ones, or of all when every entry is locked (map order breaks ties).
evictOldestEntryLocked ==
    LET unlocked == {i \in tracked : ~locked(i)}
        pool == IF unlocked # {} THEN unlocked ELSE tracked
    IN  {i \in pool : \A j \in pool : entries[i].lastSeenMs <= entries[j].lastSeenMs}

\* Variation of failed: a failure below the threshold lifts the lockout.
failedUnlocks(e, t) ==
    LET failures == Append(pruned(e.failures, t), t)
    IN  IF Len(failures) >= MaxFails
        THEN [failures |-> <<>>, lockedUntil |-> t + Lockout, lastSeenMs |-> t]
        ELSE [failures |-> failures, lockedUntil |-> 0, lastSeenMs |-> t]

\* The entry after a failure at time t: prune, append, lock at the threshold and
\* start over with no failures.
failed(e, t) ==
    LET failures == Append(pruned(e.failures, t), t)
    IN  IF Len(failures) >= MaxFails
        THEN [failures |-> <<>>, lockedUntil |-> t + Lockout, lastSeenMs |-> t]
        ELSE [e EXCEPT !.failures = failures, !.lastSeenMs = t]

\* ... and then, under the mutex, records the failure at the time it read.
RecordFailure(r) ==
    /\ stage[r] = "record"
    /\ LET i == ip[r]
           fresh == [failures |-> <<>>, lockedUntil |-> 0, lastSeenMs |-> 0]
       IN  \/ /\ i \in tracked
              /\ entries' = [entries EXCEPT ![i] = failed(@, at[r])]
           \/ /\ i \notin tracked
              /\ Cardinality(tracked) < MaxEntries
              /\ entries' = with(entries, i, failed(fresh, at[r]))
           \/ /\ i \notin tracked
              /\ Cardinality(tracked) >= MaxEntries
              /\ \E old \in evictOldestEntryLocked :
                    entries' = with(without(entries, old), i, failed(fresh, at[r]))
    /\ stage' = [stage EXCEPT ![r] = "idle"]
    /\ ip' = [ip EXCEPT ![r] = NoIP]
    /\ at' = [at EXCEPT ![r] = 0]
    /\ UNCHANGED <<now, tick>>

\* The sweeper's ticker stamps the time; the sweep runs when it is scheduled.
SweeperTick ==
    /\ tick = -1
    /\ tick' = now
    /\ UNCHANGED <<now, entries, stage, ip, at>>

\* Variation of sweep: the age of an entry is its lockout's, not its last failure's.
sweepUnlessLocked ==
    /\ tick # -1
    /\ entries' = [i \in {j \in tracked : tick < entries[j].lockedUntil} |-> entries[i]]
    /\ tick' = -1
    /\ UNCHANGED <<now, stage, ip, at>>

sweep ==
    /\ tick # -1
    /\ entries' = [i \in {j \in tracked : \/ entries[j].lastSeenMs >= tick - Stale
                                          \/ tick < entries[j].lockedUntil}
                      |-> entries[i]]
    /\ tick' = -1
    /\ UNCHANGED <<now, stage, ip, at>>

\* A call that has read the clock gets the mutex within RecordDelay.
Clock ==
    /\ now < MaxTime
    /\ \A r \in Attempts : stage[r] = "record" => now < at[r] + RecordDelay
    /\ now' = now + 1
    /\ UNCHANGED <<entries, stage, ip, at, tick>>

ThrottleNext ==
    \/ \E r \in Attempts :
          \/ \E i \in IPs : IsLocked(r, i)
          \/ Pass(r) \/ FailReadClock(r) \/ RecordFailure(r)
    \/ SweeperTick \/ sweep
    \/ Clock

ThrottleSpec == ThrottleInit /\ [][ThrottleNext]_throttleVars

-----------------------------------------------------------------------------
(* Properties *)

\* Types; an entry never keeps MaxFails failures, reaching them clears the list,
\* and the map never exceeds its cap, however many addresses fail at once.
ThrottleTypeOK ==
    /\ now \in 0..MaxTime
    /\ tracked \subseteq IPs /\ Cardinality(tracked) <= MaxEntries
    /\ \A i \in tracked : entries[i] \in Entry /\ Len(entries[i].failures) < MaxFails
    /\ stage \in [Attempts -> {"idle", "verify", "record"}]
    /\ ip \in [Attempts -> IPs \cup {NoIP}]
    /\ at \in [Attempts -> 0..MaxTime]
    /\ tick \in -1..MaxTime

\* What still counts is not forgotten: an entry that is locked or has failures
\* in the window is dropped only by an eviction at the cap, and a locked one
\* only when no unlocked entry was left to evict.
ForgetsOnlyAtTheCap ==
    [][\A i \in tracked \ DOMAIN entries' :
          locked(i) \/ pruned(entries[i].failures, now) # <<>> =>
              /\ Cardinality(tracked) = MaxEntries
              /\ locked(i) => \A j \in tracked : locked(j)]_throttleVars

\* Failures recorded late, with a clock read before the lockout began, pull the
\* end of a lockout back by no more than the delay of their calls.
LockoutHolds ==
    [][\A i \in tracked \cap DOMAIN entries' :
          entries'[i].lockedUntil >= entries[i].lockedUntil - RecordDelay]_throttleVars

=============================================================================
