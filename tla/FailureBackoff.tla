--------------------------- MODULE FailureBackoff ---------------------------
(***************************************************************************)
(* crates/doggy-dns-nacos/src/watcher.rs, struct FailureBackoff.           *)
(*                                                                         *)
(* Three Relaxed atomics are shared by every DNS query task: the streak of *)
(* remote failures, the wall-clock second the backoff window opened at,    *)
(* and the "has the registry ever answered" flag.  Each task is a Caller;  *)
(* one action is one atomic access.  Relaxed gives no order between the    *)
(* accesses of one call to different atomics, so the stores of             *)
(* record_success and the loads of is_open happen in any order (todo);     *)
(* record_failure's store depends on the value its fetch_add returned, so  *)
(* those two keep theirs.                                                  *)
(***************************************************************************)
EXTENDS Naturals, Integers, FiniteSets

CONSTANTS
    Caller,          \* concurrent query tasks
    Threshold,       \* NACOS_FAILURE_THRESHOLD (3 in the code)
    Backoff,         \* NACOS_FAILURE_BACKOFF in seconds (30 in the code)
    CounterModulus,  \* 2^32: failures is an AtomicU32 and fetch_add wraps
    MaxTime          \* bound on the wall clock

ASSUME BackoffAssumption ==
    /\ Threshold \in Nat \ {0}
    /\ Backoff \in Nat \ {0}
    /\ CounterModulus \in Nat
    /\ CounterModulus > Threshold
    /\ MaxTime \in Nat

VARIABLES
    failures,      \* AtomicU32
    opened_at,     \* AtomicI64
    confirmed,     \* AtomicBool
    now,           \* the wall clock unix_now_secs reads; may step back
    call,          \* what each caller is inside of
    at,            \* the `now` argument of each caller's call
    todo,          \* the atomic accesses each caller still has to make
    seenOpened,    \* is_open's local opened_at
    seenFailures,  \* is_open's local failures (locals are cleared on return)
    \* history, read by no guard:
    streak,        \* failures counted since the last reset, up to Threshold
    earned,        \* a full streak stood at some moment of this is_open call
    stamps         \* the times the failures that completed a streak were read

shared == <<failures, opened_at, confirmed>>
locals == <<call, at, todo, seenOpened, seenFailures>>
history == <<streak, earned, stamps>>
backoffVars == <<shared, now, locals, history>>

Time == 0 .. MaxTime
WINDOW_CLOSED == -1   \* i64::MIN: a value no clock reading has
Stores == {"failures", "opened_at", "confirmed"}
Loads == {"failures", "opened_at"}

BackoffTypeOK ==
    /\ failures \in 0 .. CounterModulus - 1
    /\ opened_at \in Time \cup {WINDOW_CLOSED}
    /\ confirmed \in BOOLEAN
    /\ now \in Time
    /\ call \in [Caller -> {"idle", "count", "stamp", "succeed", "load"}]
    /\ at \in [Caller -> Time]
    /\ todo \in [Caller -> SUBSET Stores]
    /\ seenOpened \in [Caller -> Time \cup {WINDOW_CLOSED}]
    /\ seenFailures \in [Caller -> 0 .. CounterModulus - 1]
    /\ streak \in 0 .. Threshold
    /\ earned \in [Caller -> BOOLEAN]
    /\ stamps \subseteq Time

BackoffInit ==
    /\ failures = 0
    /\ opened_at = WINDOW_CLOSED
    /\ confirmed = FALSE
    /\ now \in Time
    /\ call = [c \in Caller |-> "idle"]
    /\ at = [c \in Caller |-> 0]
    /\ todo = [c \in Caller |-> {}]
    /\ seenOpened = [c \in Caller |-> WINDOW_CLOSED]
    /\ seenFailures = [c \in Caller |-> 0]
    /\ streak = 0
    /\ earned = [c \in Caller |-> FALSE]
    /\ stamps = {}

-----------------------------------------------------------------------------
(* record_failure *)

\* record_remote_failure reads the clock before it touches the atomics.
CallRecordFailure(c) ==
    /\ call[c] = "idle"
    /\ call' = [call EXCEPT ![c] = "count"]
    /\ at' = [at EXCEPT ![c] = now]
    /\ UNCHANGED <<shared, now, todo, seenOpened, seenFailures, history>>

\* Mutation: the counter does not wrap.
FetchAddUnwrapped(n) == n + 1

FetchAdd(n) == IF n + 1 = CounterModulus THEN 0 ELSE n + 1

\* A streak below the threshold returns without touching the window.
CountFailure(c) ==
    LET opens == FetchAdd(failures) >= Threshold IN
    /\ call[c] = "count"
    /\ failures' = FetchAdd(failures)
    /\ call' = [call EXCEPT ![c] = IF opens THEN "stamp" ELSE "idle"]
    /\ streak' = IF streak < Threshold THEN streak + 1 ELSE streak
    /\ earned' = [d \in Caller |->
                    earned[d] \/ (call[d] = "load" /\ streak' = Threshold)]
    /\ stamps' = IF opens THEN stamps \cup {at[c]} ELSE stamps
    /\ at' = [at EXCEPT ![c] = IF opens THEN @ ELSE 0]
    /\ UNCHANGED <<opened_at, confirmed, now, todo, seenOpened, seenFailures>>

StampWindow(c) ==
    /\ call[c] = "stamp"
    /\ opened_at' = at[c]
    /\ call' = [call EXCEPT ![c] = "idle"]
    /\ at' = [at EXCEPT ![c] = 0]
    /\ UNCHANGED <<failures, confirmed, now, todo, seenOpened,
                   seenFailures, history>>

-----------------------------------------------------------------------------
(* record_success *)

CallRecordSuccess(c) ==
    /\ call[c] = "idle"
    /\ call' = [call EXCEPT ![c] = "succeed"]
    /\ todo' = [todo EXCEPT ![c] = Stores]
    /\ UNCHANGED <<shared, now, at, seenOpened, seenFailures, history>>

StoreSuccess(c, x) ==
    /\ call[c] = "succeed"
    /\ x \in todo[c]
    /\ failures' = IF x = "failures" THEN 0 ELSE failures
    /\ opened_at' = IF x = "opened_at" THEN WINDOW_CLOSED ELSE opened_at
    /\ confirmed' = (x = "confirmed" \/ confirmed)
    /\ todo' = [todo EXCEPT ![c] = @ \ {x}]
    /\ call' = [call EXCEPT ![c] = IF todo[c] = {x} THEN "idle" ELSE @]
    /\ streak' = IF x = "failures" THEN 0 ELSE streak
    /\ UNCHANGED <<now, at, seenOpened, seenFailures, earned, stamps>>

-----------------------------------------------------------------------------
(* is_open *)

CallIsOpen(c) ==
    /\ call[c] = "idle"
    /\ call' = [call EXCEPT ![c] = "load"]
    /\ at' = [at EXCEPT ![c] = now]
    /\ todo' = [todo EXCEPT ![c] = Loads]
    /\ earned' = [earned EXCEPT ![c] = (streak = Threshold)]
    /\ UNCHANGED <<shared, now, seenOpened, seenFailures, streak, stamps>>

LoadWindow(c, x) ==
    /\ call[c] = "load"
    /\ x \in todo[c]
    /\ todo' = [todo EXCEPT ![c] = @ \ {x}]
    /\ seenOpened' = IF x = "opened_at"
                     THEN [seenOpened EXCEPT ![c] = opened_at] ELSE seenOpened
    /\ seenFailures' = IF x = "failures"
                       THEN [seenFailures EXCEPT ![c] = failures]
                       ELSE seenFailures
    /\ UNCHANGED <<shared, now, call, at, history>>

\* Mutations: the stamp alone decides; a stamp ahead of the clock counts as open.
IsOpenByStamp(opened, count, t) ==
    opened # WINDOW_CLOSED /\ t - opened >= 0 /\ t - opened < Backoff
IsOpenAheadOfStart(opened, count, t) ==
    opened # WINDOW_CLOSED /\ count >= Threshold /\ t - opened < Backoff

\* The value is_open(t) returns for the two values it loaded.
IsOpen(opened, count, t) ==
    /\ opened # WINDOW_CLOSED
    /\ count >= Threshold
    /\ t - opened >= 0
    /\ t - opened < Backoff

Decided(c) == call[c] = "load" /\ todo[c] = {}
Verdict(c) == IsOpen(seenOpened[c], seenFailures[c], at[c])

ReturnIsOpen(c) ==
    /\ Decided(c)
    /\ call' = [call EXCEPT ![c] = "idle"]
    /\ at' = [at EXCEPT ![c] = 0]
    /\ seenOpened' = [seenOpened EXCEPT ![c] = WINDOW_CLOSED]
    /\ seenFailures' = [seenFailures EXCEPT ![c] = 0]
    /\ earned' = [earned EXCEPT ![c] = FALSE]
    /\ UNCHANGED <<shared, now, todo, streak, stamps>>

-----------------------------------------------------------------------------
(* The wall clock: seconds pass, and NTP may step it back. *)

BackoffTick ==
    /\ now < MaxTime
    /\ now' = now + 1
    /\ UNCHANGED <<shared, locals, history>>

StepBack(t) ==
    /\ t < now
    /\ now' = t
    /\ UNCHANGED <<shared, locals, history>>

BackoffNext ==
    \/ \E c \in Caller :
        \/ CallRecordFailure(c)
        \/ CountFailure(c)
        \/ StampWindow(c)
        \/ CallRecordSuccess(c)
        \/ \E x \in Stores : StoreSuccess(c, x)
        \/ CallIsOpen(c)
        \/ \E x \in Loads : LoadWindow(c, x)
        \/ ReturnIsOpen(c)
    \/ BackoffTick
    \/ \E t \in Time : StepBack(t)

BackoffSpec == BackoffInit /\ [][BackoffNext]_backoffVars

-----------------------------------------------------------------------------
(* Properties *)

\* is_open reports an open window only if Threshold failures in a row, with no
\* confirmed answer's reset between them, stood counted at some moment of that
\* very call: a failure that stamps the window late, beside a confirmed answer
\* that already restarted the count, cannot keep it open (watcher.rs:141-144,
\* docs/configuration.md:244-246).
OpenIsEarned ==
    \A c \in Caller : Decided(c) /\ Verdict(c) => earned[c]

\* is_open reports an open window only within Backoff seconds after the clock
\* reading of a failure that completed a streak, and never before that reading:
\* a clock behind the window's start is "not open" (watcher.rs:144-147).
OpenCoversAFailure ==
    \A c \in Caller : Decided(c) /\ Verdict(c) =>
        \E s \in stamps : s <= at[c] /\ at[c] < s + Backoff
=============================================================================
