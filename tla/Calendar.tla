------------------------------ MODULE Calendar ------------------------------
(***************************************************************************)
(* The days a run looks at.  A day is a number (a UTC day); a window is    *)
(* the set of days between its ends.                                       *)
(***************************************************************************)
EXTENDS Integers

CONSTANTS
    RecentDays,     \* [SCAN] ScanRecentDays
    ScanDays,       \* [SCAN] ScanDays
    RetentionDays   \* [LEDGER] RetentionDays

\* What Validate insists on.
ASSUME CalendarAssumption ==
    /\ RecentDays \in Nat \ {0} /\ ScanDays \in Nat /\ RetentionDays \in Nat
    /\ RecentDays <= ScanDays /\ ScanDays < RetentionDays

\* The last so many days, today included.
Window(now, days) == now - (days - 1) .. now
HotWindow(now)    == Window(now, RecentDays)
DeepWindow(now)   == Window(now, ScanDays)

\* The oldest day a resend may touch: two days before the ledger forgets.
RetentionMargin       == 2
RetentionLimit(today) == today - (RetentionDays - RetentionMargin)

\* Slip: a day between the deep window and the automatic resend.
AutoWindowLate(today, origin) ==
    (IF origin > RetentionLimit(today) THEN origin ELSE RetentionLimit(today))
      .. today - ScanDays - 1

\* The automatic resend: from the limit, or the first day of operation, to the
\* day the deep window has just left.
AutoWindow(today, origin) ==
    (IF origin > RetentionLimit(today) THEN origin ELSE RetentionLimit(today))
      .. today - ScanDays

\* Why there is nothing for it to look at.
EmptyWhy(today, origin) ==
    IF RetentionLimit(today) > today - ScanDays THEN "retention_too_short"
    ELSE IF AutoWindow(today, origin) = {} THEN "before_origin" ELSE "none"

\* What a manual resend may ask for.
ManualAllowed(from, to, today) ==
    from <= to /\ from >= RetentionLimit(today) /\ to <= today
=============================================================================
