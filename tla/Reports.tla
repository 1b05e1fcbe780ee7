------------------------------ MODULE Reports ------------------------------
(***************************************************************************)
(* What goes wrong at the party and how the host hears of it.  A guest     *)
(* writes a bug report, or taps "Send report" on an error page, signed in  *)
(* or not; both are rows of bug_reports, and the second of two alike in    *)
(* half a minute is dropped.  The host tracks and closes them from the     *)
(* queue, from more than one tab and with a beacon the browser delivers    *)
(* when it likes (sendBeacon of the "Open issue" link).                    *)
(***************************************************************************)
EXTENDS SequencesExt, Integers

CONSTANTS
    Senders,        \* guests, and Nobody
    Nobody,         \* somebody who never joined: guest_id NULL
    Bodies,         \* what is written -> what is left of it at BUG_REPORT_BODY_MAX, or Empty
    Empty,
    BUG_REPORT_DUPLICATE_WINDOW_SECONDS,
    MaxClock, MaxPosts, MaxTouches   \* bounds

VARIABLES
    clock,
    bug_reports,    \* a sequence: the rows, their ids their positions
    touches,        \* how many requests of the host there were
    thanked,        \* history: the reports whose senders were thanked
    furthest        \* history: how far each row has come

reportVars == <<clock, bug_reports, touches, thanked, furthest>>

ReportsInit ==
    /\ clock = 0 /\ touches = 0
    /\ bug_reports = <<>> /\ furthest = <<>> /\ thanked = <<>>

Tick ==
    /\ clock < MaxClock
    /\ clock' = clock + 1
    /\ UNCHANGED <<bug_reports, touches, thanked, furthest>>

\* Mutant of recentDuplicate: a signed-out sender's NULL equals no other.
recentDuplicateSignedIn(g, body) ==
    \E i \in DOMAIN bug_reports :
        /\ g # Nobody /\ bug_reports[i].guest = g /\ bug_reports[i].body = body
        /\ bug_reports[i].at >= clock - BUG_REPORT_DUPLICATE_WINDOW_SECONDS

\* The same words of the same sender, both as they were stored.
recentDuplicate(g, body) ==
    \E i \in DOMAIN bug_reports :
        /\ bug_reports[i].guest = g /\ bug_reports[i].body = body
        /\ bug_reports[i].at >= clock - BUG_REPORT_DUPLICATE_WINDOW_SECONDS

insertBugReportOnce(g, body) ==
    IF recentDuplicate(g, body) THEN UNCHANGED <<bug_reports, furthest>>
    ELSE /\ bug_reports' = Append(bug_reports, [guest |-> g, body |-> body, at |-> clock, status |-> "open"])
         /\ furthest' = Append(furthest, "open")

\* POST /bug-report of a guest, POST /error-report of anybody: an empty body or
\* a code of the wrong shape is refused, everything else is thanked for.
Report(g, b) ==
    /\ Len(thanked) < MaxPosts
    /\ Bodies[b] # Empty
    /\ insertBugReportOnce(g, Bodies[b])
    /\ thanked' = Append(thanked, [guest |-> g, text |-> b, at |-> clock])
    /\ UNCHANGED <<clock, touches>>

Rank(status) == CASE status = "open" -> 0 [] status = "tracked" -> 1 [] status = "closed" -> 2

\* POST /admin/bugs/:id/track and /close, from a tab or a late beacon: neither
\* looks at the status it replaces.
Handle(i, status) ==
    /\ touches < MaxTouches /\ touches' = touches + 1
    /\ i \in DOMAIN bug_reports
    /\ bug_reports' = [bug_reports EXCEPT ![i].status = status]
    /\ furthest' = [furthest EXCEPT ![i] = IF Rank(status) > Rank(@) THEN status ELSE @]
    /\ UNCHANGED <<clock, thanked>>

track(i) == Handle(i, "tracked")
close(i) == Handle(i, "closed")

openBugCount == Cardinality({i \in DOMAIN bug_reports : bug_reports[i].status = "open"})

ReportsNext ==
    \/ Tick
    \/ \E g \in Senders, b \in DOMAIN Bodies : Report(g, b)
    \/ \E i \in DOMAIN bug_reports : track(i) \/ close(i)

ReportsSpec == ReportsInit /\ [][ReportsNext]_reportVars

-----------------------------------------------------------------------------
(* Properties.                                                             *)

\* Whoever was thanked has a row with those words, no older than the window of
\* a double tap, whatever the host did meanwhile; and no two rows are one tap.
ReportsAreKept ==
    /\ \A r \in Range(thanked) : \E i \in DOMAIN bug_reports :
        /\ bug_reports[i].guest = r.guest /\ bug_reports[i].body = Bodies[r.text]
        /\ r.at - BUG_REPORT_DUPLICATE_WINDOW_SECONDS <= bug_reports[i].at /\ bug_reports[i].at <= r.at
    /\ \A i, j \in DOMAIN bug_reports :
        (i < j /\ bug_reports[i].guest = bug_reports[j].guest /\ bug_reports[i].body = bug_reports[j].body)
            => bug_reports[j].at - bug_reports[i].at > BUG_REPORT_DUPLICATE_WINDOW_SECONDS

\* routes/admin/bugs-export.js on tracking a report: "it only ever advances
\* forward, never reopens".
OnlyAdvances == \A i \in DOMAIN bug_reports : bug_reports[i].status = furthest[i]

=============================================================================
