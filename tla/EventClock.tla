----------------------------- MODULE EventClock -----------------------------
(***************************************************************************)
(* The event's local calendar (services/event-days.js).  An instant is a   *)
(* number of ticks; a zone has one offset before its daylight-saving jump  *)
(* and one from it on.  Everything the app knows of a zone it learns by    *)
(* asking for the wall clock of an instant, so the way back, from a wall   *)
(* time to the instant that shows it, is a guess checked against the zone. *)
(***************************************************************************)
EXTENDS Integers, FiniteSetsExt

CONSTANT TicksPerDay

ASSUME ClockAssumption == TicksPerDay \in Nat \ {0}

\* tzOffsetMs: what the zone adds to the instant u.
tzOffset(zone, u) == IF u < zone.jump THEN zone.before ELSE zone.after

wallClock(zone, u) == u + tzOffset(zone, u)

eventLocalDate(zone, u) == wallClock(zone, u) \div TicksPerDay

\* Mutant of eventLocalInstant: the first guess is taken unchecked.
eventLocalInstantUnchecked(zone, day, h) ==
    LET naive == day * TicksPerDay + h IN naive - tzOffset(zone, naive)

\* Mutant of eventLocalInstant: failing the first guess, the second is taken
\* unchecked.
eventLocalInstantCorrected(zone, day, h) ==
    LET naive == day * TicksPerDay + h
        a == naive - tzOffset(zone, naive)
    IN  IF wallClock(zone, a) = naive THEN a ELSE naive - tzOffset(zone, a)

\* The instant at which the zone's clocks show h on the given day: the naive
\* reading corrected by the offset seen there, or by the offset seen at that
\* first guess; whichever reads as asked, the first guess before the second;
\* failing both, the earliest that reads later.
eventLocalInstant(zone, day, h) ==
    LET naive == day * TicksPerDay + h
        a == naive - tzOffset(zone, naive)
        b == naive - tzOffset(zone, a)
        later == {u \in {a, b} : wallClock(zone, u) >= naive}
    IN  CASE wallClock(zone, a) = naive -> a
          [] wallClock(zone, a) # naive /\ wallClock(zone, b) = naive -> b
          [] OTHER -> IF later # {} THEN Min(later) ELSE Max({a, b})

dayOpensAt(zone, day) == eventLocalInstant(zone, day, 0)

\* The clocks show the day's midnight at one instant and no other, or skip ahead
\* from it on.
OpensOnce(zone, day) ==
    LET w == day * TicksPerDay
    IN  \/ \E u \in {w - zone.before, w - zone.after} :
              \A v \in {w - zone.before, w - zone.after} : wallClock(zone, v) = w <=> v = u
        \/ zone.jump + zone.before = w /\ zone.before <= zone.after
=============================================================================
