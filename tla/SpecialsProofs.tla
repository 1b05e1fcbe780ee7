--------------------------- MODULE SpecialsProofs ---------------------------
(***************************************************************************)
(* Proofs about Specials, for every number of tasks, photos, days and      *)
(* requests: the event's calendar in zones of one jump, what a form leaves *)
(* behind in a task's row, and the invariant the steps keep; and about the *)
(* hosts' desk, for every number of tasks, items and forms.                *)
(***************************************************************************)
EXTENDS MCTasks, FiniteSetTheorems, SequenceTheorems, TLAPS

(* How many days have passed at a tick.                                    *)
LEMMA DayOfTick ==
    ASSUME NEW x \in Int, NEW d \in Int
    PROVE  /\ x \div TicksPerDay \in Int
           /\ x \div TicksPerDay < d <=> x < d * TicksPerDay
<1>1. TicksPerDay \in Int /\ TicksPerDay > 0
    BY ClockAssumption
<1> DEFINE q == x \div TicksPerDay
<1>2. q \in Int /\ TicksPerDay * q <= x /\ x < TicksPerDay * q + TicksPerDay
    BY <1>1, SMTT(20)
<1>3. ASSUME q < d  PROVE x < d * TicksPerDay
    <2>1. d = q + 1 + (d - q - 1) /\ d - q - 1 >= 0
        BY <1>2, <1>3
    <2>2. (d - q - 1) * TicksPerDay >= 0
        BY <1>1, <1>2, <2>1, SMTT(20)
    <2>3. d * TicksPerDay = TicksPerDay * q + TicksPerDay + (d - q - 1) * TicksPerDay
        BY <1>1, <1>2, SMTT(20)
    <2> QED BY <1>1, <1>2, <2>2, <2>3
<1>4. ASSUME x < d * TicksPerDay, d <= q  PROVE FALSE
    <2>1. (q - d) * TicksPerDay >= 0
        BY <1>1, <1>2, <1>4, SMTT(20)
    <2>2. TicksPerDay * q = d * TicksPerDay + (q - d) * TicksPerDay
        BY <1>1, <1>2, SMTT(20)
    <2> QED BY <1>1, <1>2, <1>4, <2>1, <2>2
<1> QED BY <1>1, <1>2, <1>3, <1>4

(* A later tick is of a later day, or the same.                            *)
LEMMA LaterTickLaterDay ==
    ASSUME NEW x \in Int, NEW y \in Int, x <= y
    PROVE  x \div TicksPerDay <= y \div TicksPerDay
<1>1. /\ x \div TicksPerDay \in Int /\ y \div TicksPerDay \in Int
      /\ TicksPerDay \in Int
    BY DayOfTick, ClockAssumption
<1>2. SUFFICES ASSUME y \div TicksPerDay < x \div TicksPerDay
      PROVE  FALSE
    BY <1>1
<1>3. y < (x \div TicksPerDay) * TicksPerDay
    BY <1>1, <1>2, DayOfTick
<1>4. ~(x < (x \div TicksPerDay) * TicksPerDay)
    BY <1>1, DayOfTick
<1>5. (x \div TicksPerDay) * TicksPerDay \in Int
    BY <1>1
<1> QED BY <1>3, <1>4, <1>5

ZoneRecords == [jump : Int, before : Int, after : Int]

(* The clock of a zone shows a whole time, of a whole day.                 *)
LEMMA WallClockIsInt ==
    ASSUME NEW z \in ZoneRecords, NEW u \in Int
    PROVE  /\ tzOffset(z, u) \in Int
           /\ wallClock(z, u) \in Int
           /\ eventLocalDate(z, u) \in Int
<1>1. tzOffset(z, u) \in Int /\ wallClock(z, u) \in Int
    BY DEF ZoneRecords, tzOffset, wallClock
<1> QED BY <1>1, DayOfTick DEF eventLocalDate

(* The instant computed for a wall time, for every day, every hour and     *)
(* every zone with one jump of its clocks, forward or back, by any amount. *)
LEMMA InstantShowsTheTime ==
    ASSUME NEW z \in ZoneRecords, NEW day \in Int, NEW h \in Int
    PROVE  LET w == day * TicksPerDay + h
               u == eventLocalInstant(z, day, h)
           IN  /\ u \in Int
               /\ \A v \in Int : wallClock(z, v) = w => wallClock(z, u) = w
               /\ wallClock(z, u) # w =>
                     wallClock(z, u) \in w .. w + (z.after - z.before)
<1> DEFINE w == day * TicksPerDay + h
           u == eventLocalInstant(z, day, h)
           a == w - tzOffset(z, w)
           b == w - tzOffset(z, a)
           later == {x \in {a, b} : wallClock(z, x) >= w}
<1>1. w \in Int
    BY ClockAssumption
<1>2. z.jump \in Int /\ z.before \in Int /\ z.after \in Int
    BY DEF ZoneRecords
<1>3. u = CASE wallClock(z, a) = w -> a
            [] wallClock(z, a) # w /\ wallClock(z, b) = w -> b
            [] OTHER -> IF later # {} THEN Min(later) ELSE Max({a, b})
    BY DEF eventLocalInstant
<1> HIDE DEF w, u
<1>4. a \in Int /\ b \in Int
    BY <1>1, <1>2 DEF tzOffset
<1>5. CASE wallClock(z, a) = w
    <2>1. u = a
        BY <1>3, <1>5
    <2> QED BY <2>1, <1>4, <1>5 DEF w, u
<1>6. CASE wallClock(z, a) # w
    \* The two offsets give the two instants there are to choose from.
    <2>1. {a, b} = {w - z.before, w - z.after}
        BY <1>1, <1>2, <1>6 DEF tzOffset, wallClock
    <2>2. \A v \in Int : wallClock(z, v) = w => v = b
        BY <1>1, <1>2, <1>6, <2>1 DEF tzOffset, wallClock
    <2>3. CASE wallClock(z, b) = w
        <3>1. u = b
            BY <1>3, <1>6, <2>3
        <3> QED BY <3>1, <1>4, <2>3 DEF w, u
    <2>4. CASE wallClock(z, b) # w
        \* The time is skipped: only one of the two reads later.
        <3>1. /\ wallClock(z, w - z.before) = w - z.before + z.after
              /\ z.before < z.after
              /\ wallClock(z, w - z.after) < w
            <4>1. /\ wallClock(z, w - z.before) # w
                  /\ wallClock(z, w - z.after) # w
                BY <1>6, <2>1, <2>4
            <4> QED BY <1>1, <1>2, <4>1 DEF tzOffset, wallClock
        <3>2. later = {w - z.before}
            <4> DEFINE c == w - z.before
                       e == w - z.after
            <4>1. c \in Int /\ e \in Int /\ wallClock(z, c) >= w /\ ~(wallClock(z, e) >= w)
                BY <1>1, <1>2, <3>1, WallClockIsInt
            <4>2. {a, b} = {c, e}
                BY <2>1
            <4> HIDE DEF c, e
            <4>3. later = {x \in {c, e} : wallClock(z, x) >= w}
                BY <4>2
            <4>4. later = {c}
                BY <4>1, <4>3
            <4> QED BY <4>4 DEF c
        <3>3. Min(later) = w - z.before
            BY <1>1, <1>2, <3>2 DEF Min
        <3>4. u = w - z.before
            BY <1>3, <1>6, <2>4, <3>2, <3>3
        <3>5. \A v \in Int : wallClock(z, v) # w
            BY <2>2, <2>4
        <3> QED BY <1>1, <1>2, <3>1, <3>4, <3>5 DEF w, u
    <2> QED BY <2>3, <2>4
<1> QED BY <1>5, <1>6

(* And a day whose midnight the clocks show once, or skip ahead from,      *)
(* opens at its first instant.                                             *)
LEMMA DayOpensOnce ==
    ASSUME NEW z \in ZoneRecords, NEW d \in Int, OpensOnce(z, d), NEW v \in Int
    PROVE  dayOpensAt(z, d) \in Int /\ (v >= dayOpensAt(z, d) <=> eventLocalDate(z, v) >= d)
<1> DEFINE w == d * TicksPerDay
           u == dayOpensAt(z, d)
<1>1. w \in Int /\ z.before \in Int /\ z.after \in Int /\ z.jump \in Int /\ wallClock(z, v) \in Int
  BY ClockAssumption, WallClockIsInt DEF ZoneRecords
<1>2. \A x \in Int : wallClock(z, x) = IF x < z.jump THEN x + z.before ELSE x + z.after
  BY DEF wallClock, tzOffset
<1>3. /\ u \in Int /\ (\A x \in Int : wallClock(z, x) = w => wallClock(z, u) = w)
      /\ wallClock(z, u) # w => wallClock(z, u) \in w .. w + (z.after - z.before)
  <2>1. w + 0 = w
    BY <1>1
  <2> QED  BY InstantShowsTheTime, <2>1 DEF dayOpensAt
<1>4. eventLocalDate(z, v) \in Int /\ (eventLocalDate(z, v) >= d <=> wallClock(z, v) >= w)
  BY <1>1, DayOfTick DEF eventLocalDate
<1>5. \/ \E x \in {w - z.before, w - z.after} :
              \A y \in {w - z.before, w - z.after} : wallClock(z, y) = w <=> y = x
      \/ z.jump + z.before = w /\ z.before <= z.after
  BY DEF OpensOnce
<1> HIDE DEF w, u
<1>6. v >= u <=> wallClock(z, v) >= w
  <2>1. CASE \E x \in {w - z.before, w - z.after} :
               \A y \in {w - z.before, w - z.after} : wallClock(z, y) = w <=> y = x
    <3>1. PICK x \in {w - z.before, w - z.after} :
                 \A y \in {w - z.before, w - z.after} : wallClock(z, y) = w <=> y = x
      BY <2>1
    <3>2. x \in Int /\ wallClock(z, x) = w
      BY <1>1, <3>1
    <3>3. wallClock(z, u) = w
      BY <1>3, <3>2
    <3>4. wallClock(z, w - z.before) = w => u = w - z.before \/ wallClock(z, w - z.after) = w
      BY <1>1, <1>2, <1>3, <3>3
    <3>5. u \in {w - z.before, w - z.after}
      BY <1>1, <1>2, <1>3, <3>3
    <3>6. \A y \in {w - z.before, w - z.after} : wallClock(z, y) = w <=> y = u
      BY <3>1, <3>3, <3>5
    <3>7. CASE u < z.jump
      <4>1. u = w - z.before
        BY <1>1, <1>2, <1>3, <3>3, <3>7
      <4>2. w - z.after < z.jump \/ w - z.after = u
        BY <1>1, <1>2, <3>6
      <4> QED  BY <1>1, <1>2, <1>3, <3>7, <4>1, <4>2
    <3>8. CASE u >= z.jump
      <4>1. u = w - z.after
        BY <1>1, <1>2, <1>3, <3>3, <3>8
      <4>2. w - z.before >= z.jump \/ w - z.before = u
        BY <1>1, <1>2, <3>6
      <4> QED  BY <1>1, <1>2, <1>3, <3>8, <4>1, <4>2
    <3> QED  BY <1>1, <1>3, <3>7, <3>8
  <2>2. CASE z.jump + z.before = w /\ z.before <= z.after
    <3>1. u = z.jump
      <4>1. CASE wallClock(z, u) = w
        BY <1>1, <1>2, <1>3, <2>2, <4>1
      <4>2. CASE wallClock(z, u) # w
        BY <1>1, <1>2, <1>3, <2>2, <4>2
      <4> QED  BY <4>1, <4>2
    <3> QED  BY <1>1, <1>2, <2>2, <3>1
  <2> QED  BY <1>5, <2>1, <2>2
<1> QED  BY <1>3, <1>4, <1>6 DEF u

-----------------------------------------------------------------------------
(* The inductive invariant.                                                *)

NatOrNone == Nat \cup {None}

TaskRecords ==
    [live : BOOLEAN, there : BOOLEAN, date : NatOrNone, bonus : Nat \cup {None},
     lucky : NatOrNone, flash : NatOrNone, ends : NatOrNone]

PhotoRecords ==
    [stage : {"none", "began", "posted"}, of : Tasks \cup {None},
     reason : {"none", "daily", "flash", "lucky"}, amount : Nat \cup {None}, day : Int,
     overtaken : BOOLEAN]

TypeOK ==
    /\ zone \in Zones /\ now \in Nat
    /\ task \in [Tasks -> TaskRecords]
    /\ photo \in [Photos -> PhotoRecords]
    /\ edits \in Nat

\* A task that is not there is nothing at all, a flash has both its ends, and
\* an upload is of a task.
RowsAreWhole ==
    /\ \A t \in Tasks : /\ ~task[t].there => task[t] = NoTask
                        /\ task[t].flash # None => task[t].ends # None
    /\ \A p \in Photos : photo[p].stage # "none" => photo[p].of \in Tasks

\* What a row is spoken for by, as comparisons with today and with now.
IsDaily(row) == row.date # None /\ row.date >= today
IsFlash(row) == row.flash # None /\ (now < row.flash \/ now < row.ends)
IsLucky(row) == row.lucky # None /\ row.lucky >= today

OnlyOne(row) ==
    /\ ~(IsDaily(row) /\ IsFlash(row))
    /\ ~(IsDaily(row) /\ IsLucky(row))
    /\ ~(IsFlash(row) /\ IsLucky(row))
OneKind == \A t \in Tasks : OnlyOne(task[t])

LuckyApart ==
    \A t, u \in Tasks : task[t].lucky # None /\ task[t].lucky = task[u].lucky => t = u

\* A photo in the table has its task; one that is on its way has it too, unless
\* it was overtaken; and what it banked, or is about to, is what the task says.
Explained(p) ==
    LET row == task[photo[p].of]
    IN  /\ photo[p].stage = "posted" => row # NoTask
        /\ photo[p].stage # "none" /\ ~photo[p].overtaken =>
              /\ row # NoTask
              /\ photo[p].reason = "daily" => row.date = photo[p].day /\ row.bonus = photo[p].amount
AllExplained == \A p \in Photos : Explained(p)

SpecialsInv == TypeOK /\ RowsAreWhole /\ OneKind /\ LuckyApart /\ AllExplained

-----------------------------------------------------------------------------
(* What a row is, at an instant.                                           *)

(* NULL is no day of the event.                                            *)
LEMMA NoneIsNoDay == None \in Int /\ None \notin Nat
BY DEF None

(* Today is a day in every zone.                                           *)
LEMMA TodayIsInt ==
    ASSUME TypeOK
    PROVE  today \in Int /\ now \in Int
BY SpecialsAssumption, WallClockIsInt DEF TypeOK, today, ZoneRecords

(* Tomorrow is not before today in a zone whose days go on.                *)
LEMMA TodayGoesOn ==
    ASSUME NEW z \in PlayedZones, NEW u \in Int
    PROVE  eventLocalDate(z, u) <= eventLocalDate(z, u + 1)
<1>1. z \in ZoneRecords /\ z.jump \in Int /\ z.before \in Int /\ z.after \in Int
    BY SpecialsAssumption DEF ZoneRecords
<1>2. CASE u + 1 = z.jump
    <2>1. u = z.jump - 1
        BY <1>1, <1>2
    <2> QED BY <1>2, <2>1, DaysGoOn
<1>3. CASE u + 1 # z.jump
    <2>1. wallClock(z, u) <= wallClock(z, u + 1)
        BY <1>1, <1>3 DEF wallClock, tzOffset
    <2>2. wallClock(z, u) \in Int /\ wallClock(z, u + 1) \in Int
        BY <1>1, WallClockIsInt
    <2> QED BY <2>1, <2>2, LaterTickLaterDay DEF eventLocalDate
<1> QED BY <1>2, <1>3

(* The set of kinds, as the comparisons that put a kind in it.             *)
LEMMA SpokenForMeans ==
    ASSUME TypeOK, NEW row \in TaskRecords, row.flash # None => row.ends # None
    PROVE  /\ SpokenFor(row) \subseteq {"daily", "flash", "lucky"}
           /\ "daily" \in SpokenFor(row) <=> IsDaily(row)
           /\ "flash" \in SpokenFor(row) <=> IsFlash(row)
           /\ "lucky" \in SpokenFor(row) <=> IsLucky(row)
<1>1. today \in Int /\ now \in Int
    BY TodayIsInt
<1>2. /\ row.date \in Int /\ row.lucky \in Int /\ row.flash \in Int /\ row.ends \in Int
    BY NoneIsNoDay DEF TaskRecords, NatOrNone
<1>3. "daily" \in SpokenFor(row) <=> IsDaily(row)
    BY <1>1, <1>2 DEF SpokenFor, IsDaily, isSealed, isOnDay
<1>4. flashState(row) \in {"scheduled", "active"} <=> IsFlash(row)
    BY <1>1, <1>2 DEF IsFlash, flashState
<1>5. "flash" \in SpokenFor(row) <=> IsFlash(row)
    BY <1>4 DEF SpokenFor
<1>6. "lucky" \in SpokenFor(row) <=> IsLucky(row)
    BY DEF SpokenFor, IsLucky
<1> QED BY <1>3, <1>5, <1>6 DEF SpokenFor

(* Of a row of one kind, the kind it is named by is the only one.          *)
LEMMA WhatSpecialMeans ==
    ASSUME TypeOK, NEW row \in TaskRecords, row.flash # None => row.ends # None,
           OnlyOne(row)
    PROVE  /\ whatSpecial(row) \in {"none", "daily"} => ~IsFlash(row) /\ ~IsLucky(row)
           /\ whatSpecial(row) \in {"none", "flash"} => ~IsDaily(row) /\ ~IsLucky(row)
           /\ whatSpecial(row) \in {"none", "lucky"} => ~IsDaily(row) /\ ~IsFlash(row)
           /\ whatSpecial(row) = "daily" => IsDaily(row)
BY SpokenForMeans DEF whatSpecial, OnlyOne

(* One kind at most is one element at most.                                *)
LEMMA OneKindIsOne ==
    ASSUME TypeOK, NEW row \in TaskRecords, row.flash # None => row.ends # None,
           OnlyOne(row)
    PROVE  Cardinality(SpokenFor(row)) <= 1
<1>1. \A k, l \in SpokenFor(row) : k = l
    BY SpokenForMeans DEF OnlyOne
<1>2. CASE SpokenFor(row) = {}
    BY <1>2, FS_EmptySet
<1>3. CASE SpokenFor(row) # {}
    <2>1. PICK k : k \in SpokenFor(row)
        BY <1>3
    <2>2. SpokenFor(row) = {k}
        BY <1>1, <2>1
    <2>3. Cardinality({k}) = 1
        BY FS_Singleton
    <2> QED BY <2>2, <2>3
<1> QED BY <1>2, <1>3

-----------------------------------------------------------------------------
(* What a form writes.                                                     *)

(* What each mode of a form brings along.                                  *)
LEMMA FormMeans ==
    ASSUME NEW f \in Forms
    PROVE  /\ f.mode \in {"none", "hidden", "absent", "oneday", "lucky", "flash"}
           /\ f.cancel \in BOOLEAN
           /\ f.mode = "oneday" => f.day \in Nat /\ f.bonus \in Nat
           /\ f.mode = "lucky" => f.day \in Nat
           /\ f.mode = "flash" /\ ~f.cancel =>
                 /\ f.start \in {"now", "later"}
                 /\ f.minutes \in Nat \ {0}
                 /\ f.start = "later" => f.day \in Int /\ f.hour \in Int
<1>1. FormDays \subseteq Nat /\ Bonuses \subseteq Nat /\ Minutes \subseteq Nat \ {0}
    BY SpecialsAssumption
<1>2. TicksPerDay \div 2 \in Int
    BY ClockAssumption
<1>3. \A x \in {0, TicksPerDay \div 2} : x \in Int
    BY <1>2
<1>4. CASE f \in [mode : {"none", "hidden", "absent"}, cancel : BOOLEAN]
    BY <1>4
<1>5. CASE f \in [mode : {"oneday"}, cancel : BOOLEAN, day : FormDays, bonus : Bonuses]
    BY <1>1, <1>5
<1>6. CASE f \in [mode : {"lucky"}, cancel : BOOLEAN, day : FormDays]
    BY <1>1, <1>6
<1>7. CASE f \in [mode : {"flash"}, cancel : {FALSE}, start : {"now"}, minutes : Minutes]
    BY <1>1, <1>7
<1>8. CASE f \in [mode : {"flash"}, cancel : {FALSE}, start : {"later"}, minutes : Minutes,
                  day : FormDays, hour : {0, TicksPerDay \div 2}]
    <2>1. /\ f.mode = "flash" /\ f.cancel = FALSE /\ f.start = "later"
          /\ f.minutes \in Minutes /\ f.day \in FormDays /\ f.hour \in {0, TicksPerDay \div 2}
        BY <1>8
    <2>2. f.minutes \in Nat \ {0}
        BY <1>1, <2>1
    <2>3. f.day \in Nat
        BY <1>1, <2>1
    <2>4. f.hour \in Int
        BY <1>3, <2>1
    <2>5. f.day \in Int
        BY <2>3
    <2>6. f.mode # "oneday" /\ f.mode # "lucky" /\ f.cancel \in BOOLEAN
        BY <2>1
    <2> QED BY <2>1, <2>2, <2>4, <2>5, <2>6, Zenon
<1>9. CASE f \in [mode : {"flash"}, cancel : {TRUE}]
    BY <1>9
<1> QED BY <1>4, <1>5, <1>6, <1>7, <1>8, <1>9 DEF Forms

(* The flash a form leaves has both its ends, or is none.                  *)
LEMMA FlashWritten ==
    ASSUME TypeOK, NEW row \in TaskRecords, row.flash # None => row.ends # None,
           NEW f \in Forms, NEW new, new = resolveFlashWrite(row, f), new.ok
    PROVE  /\ new.flash \in NatOrNone /\ new.ends \in NatOrNone
           /\ new.flash # None => new.ends # None
           /\ f.mode = "none" => new.flash = None
           /\ f.mode \notin {"none", "flash"} =>
                 new.flash = None \/ (new.flash = row.flash /\ new.ends = row.ends)
<1> DEFINE start == IF f.start = "now" THEN now ELSE eventLocalInstant(zone, f.day, f.hour)
<1>1. row.flash \in NatOrNone /\ row.ends \in NatOrNone
    BY DEF TaskRecords
<1>2. CASE f.cancel \/ f.mode = "none"
    <2>1. new.flash = None /\ new.ends = None
        BY <1>2 DEF resolveFlashWrite
    <2>2. new.flash \in NatOrNone /\ new.ends \in NatOrNone
        BY <2>1 DEF NatOrNone
    <2> QED BY <2>1, <2>2
<1>3. CASE ~f.cancel /\ f.mode # "none" /\ f.mode # "flash"
    <2>1. new.flash = row.flash /\ new.ends = row.ends
        BY <1>3 DEF resolveFlashWrite
    <2>2. /\ new.flash \in NatOrNone /\ new.ends \in NatOrNone
          /\ new.flash # None => new.ends # None
        BY <1>1, <2>1
    <2>3. f.mode # "none"
        BY <1>3
    <2> QED BY <2>1, <2>2, <2>3
<1>4. CASE ~f.cancel /\ f.mode = "flash"
    <2>1. \/ new.flash = row.flash /\ new.ends = row.ends
          \/ new.flash = start /\ new.ends = start + f.minutes /\ start >= now
        BY <1>4 DEF resolveFlashWrite
    <2>2. now \in Nat /\ f.minutes \in Nat \ {0} /\ zone \in ZoneRecords
        BY <1>4, FormMeans, SpecialsAssumption DEF TypeOK, ZoneRecords
    <2>3. start \in Int
        <3>1. CASE f.start = "now"
            BY <2>2, <3>1
        <3>2. CASE f.start = "later"
            <4>1. f.day \in Int /\ f.hour \in Int
                BY <1>4, <3>2, FormMeans
            <4>2. eventLocalInstant(zone, f.day, f.hour) \in Int
                BY <2>2, <4>1, InstantShowsTheTime
            <4> QED BY <3>2, <4>2
        <3> QED BY <1>4, <3>1, <3>2, FormMeans
    <2> HIDE DEF start
    <2>4. \/ new.flash = row.flash /\ new.ends = row.ends
          \/ new.flash \in Nat /\ new.ends \in Nat
        BY <2>1, <2>2, <2>3
    <2>5. /\ new.flash \in NatOrNone /\ new.ends \in NatOrNone
          /\ new.flash # None => new.ends # None
        BY <1>1, <2>4, NoneIsNoDay DEF NatOrNone
    <2> QED BY <1>4, <2>5
<1> QED BY <1>2, <1>3, <1>4, FormMeans

(* The row a form leaves behind is whole, and is there.                    *)
LEMMA WrittenIsWhole ==
    ASSUME TypeOK, NEW row \in TaskRecords, row.flash # None => row.ends # None,
           NEW f \in Forms, NEW t, resolveFlashWrite(row, f).ok
    PROVE  LET new == Written(t, row, f)
           IN  /\ new \in TaskRecords
               /\ new.there
               /\ new.flash # None => new.ends # None
<1>1. /\ row.date \in NatOrNone /\ row.bonus \in Nat \cup {None} /\ row.lucky \in NatOrNone
      /\ row.live \in BOOLEAN
    BY DEF TaskRecords
<1>2. StaysLive(row, f) \in BOOLEAN
    BY <1>1 DEF StaysLive
<1>3. /\ resolveSpecialPairWrite(t, row, f).date \in NatOrNone
      /\ resolveSpecialPairWrite(t, row, f).bonus \in Nat \cup {None}
    BY <1>1, FormMeans DEF resolveSpecialPairWrite, NatOrNone
<1>4. resolveLuckyPairWrite(row, f).lucky \in NatOrNone
    BY <1>1, FormMeans DEF resolveLuckyPairWrite, NatOrNone
<1> QED BY <1>2, <1>3, <1>4, FlashWritten DEF Written, TaskRecords

(* And it is one kind of special, if the row it is written over was.       *)
LEMMA WrittenIsOneKind ==
    ASSUME TypeOK, NEW row \in TaskRecords, row.flash # None => row.ends # None,
           OnlyOne(row),
           NEW f \in Forms, NEW t, resolveFlashWrite(row, f).ok, checkExclusivity(row, f)
    PROVE  OnlyOne(Written(t, row, f))
<1> DEFINE new == Written(t, row, f)
<1>1. /\ new.date = CASE f.mode = "oneday" -> f.day
                      [] f.mode = "none" -> None
                      [] OTHER -> row.date
      /\ new.lucky = CASE f.mode = "lucky" -> f.day
                       [] f.mode = "none" -> None
                       [] OTHER -> row.lucky
    BY FormMeans DEF Written, resolveSpecialPairWrite, resolveLuckyPairWrite
<1>2. /\ f.mode = "none" => new.flash = None
      /\ f.mode \notin {"none", "flash"} =>
            new.flash = None \/ (new.flash = row.flash /\ new.ends = row.ends)
    BY FlashWritten DEF Written
<1> HIDE DEF new
<1>3. /\ f.mode \notin {"none", "oneday"} /\ IsDaily(new) => IsDaily(row)
      /\ f.mode \notin {"none", "lucky"} /\ IsLucky(new) => IsLucky(row)
      /\ f.mode \notin {"none", "flash"} /\ IsFlash(new) => IsFlash(row)
    BY <1>1, <1>2, FormMeans DEF IsDaily, IsLucky, IsFlash
<1>4. CASE f.mode = "none"
    <2>1. ~IsDaily(new) /\ ~IsLucky(new) /\ ~IsFlash(new)
        BY <1>1, <1>2, <1>4 DEF IsDaily, IsLucky, IsFlash
    <2> QED BY <2>1 DEF OnlyOne, new
<1>5. CASE f.mode \in {"hidden", "absent"}
    BY <1>3, <1>5 DEF OnlyOne, new
<1>6. CASE f.mode = "oneday"
    <2>1. ~IsFlash(row) /\ ~IsLucky(row)
        BY <1>6, WhatSpecialMeans DEF checkExclusivity
    <2> QED BY <1>3, <1>6, <2>1 DEF OnlyOne, new
<1>7. CASE f.mode = "lucky"
    <2>1. ~IsFlash(row) /\ ~IsDaily(row)
        BY <1>7, WhatSpecialMeans DEF checkExclusivity
    <2> QED BY <1>3, <1>7, <2>1 DEF OnlyOne, new
<1>8. CASE f.mode = "flash"
    <2>1. ~IsDaily(row) /\ ~IsLucky(row)
        BY <1>8, WhatSpecialMeans DEF checkExclusivity
    <2> QED BY <1>3, <1>8, <2>1 DEF OnlyOne, new
<1> QED BY <1>4, <1>5, <1>6, <1>7, <1>8, FormMeans

-----------------------------------------------------------------------------
(* Each step keeps the invariant.                                          *)

SameClock == zone' = zone /\ now' = now

\* The tables as photos see them: what was a task still is, with its date and
\* bonus, but perhaps for t.
OthersStay(t) ==
    \A u \in Tasks \ {t} :
        /\ task[u] # NoTask => task'[u] # NoTask
        /\ task'[u].date = task[u].date /\ task'[u].bonus = task[u].bonus

(* Neither a new row nor none at all is special.                           *)
LEMMA NoTaskIsBlank ==
    /\ NoTask \in TaskRecords /\ ~NoTask.there /\ OnlyOne(NoTask)
    /\ NoTask.lucky = None /\ NoTask.flash = None
    /\ Blank \in TaskRecords /\ Blank.there /\ OnlyOne(Blank) /\ Blank.flash = None
BY DEF NoTask, Blank, TaskRecords, NatOrNone, OnlyOne, IsDaily, IsFlash, IsLucky

(* A row without its lucky day is still one kind of special.               *)
LEMMA ClearedLucky ==
    ASSUME NEW row \in TaskRecords, NEW new, new = [row EXCEPT !.lucky = None]
    PROVE  /\ new \in TaskRecords
           /\ new.lucky = None /\ new.there = row.there
           /\ new.date = row.date /\ new.bonus = row.bonus
           /\ new.flash = row.flash /\ new.ends = row.ends
           /\ OnlyOne(row) => OnlyOne(new)
BY DEF TaskRecords, NatOrNone, OnlyOne, IsDaily, IsFlash, IsLucky

(* The save of a row, and the lucky day it takes from another.             *)
LEMMA SavedRow ==
    ASSUME SpecialsInv, SameClock,
           NEW t \in Tasks,
           NEW new \in TaskRecords, new.there, new.flash # None => new.ends # None,
           OnlyOne(new),
           task' = ClearLucky([task EXCEPT ![t] = new], t, new.lucky)
    PROVE  /\ task' \in [Tasks -> TaskRecords]
           /\ \A u \in Tasks : /\ ~task'[u].there => task'[u] = NoTask
                               /\ task'[u].flash # None => task'[u].ends # None
           /\ OneKind' /\ LuckyApart'
           /\ OthersStay(t) /\ task'[t] = new
<1>1. task \in [Tasks -> TaskRecords]
    BY DEF SpecialsInv, TypeOK
<1>2. PICK rows : rows = [task EXCEPT ![t] = new]
    OBVIOUS
<1>3. rows[t] = new /\ \A u \in Tasks : u # t => rows[u] = task[u]
    BY <1>1, <1>2
<1>4. task' = [u \in Tasks |-> IF u # t /\ new.lucky # None /\ rows[u].lucky = new.lucky
                               THEN [rows[u] EXCEPT !.lucky = None] ELSE rows[u]]
    BY <1>2 DEF ClearLucky
<1>5. task'[t] = new
    BY <1>3, <1>4
<1>6. ASSUME NEW u \in Tasks, u # t
      PROVE  task'[u] = IF new.lucky # None /\ task[u].lucky = new.lucky
                        THEN [task[u] EXCEPT !.lucky = None] ELSE task[u]
    <2>1. rows[u] = task[u]
        BY <1>3, <1>6
    <2>2. task'[u] = IF u # t /\ new.lucky # None /\ rows[u].lucky = new.lucky
                     THEN [rows[u] EXCEPT !.lucky = None] ELSE rows[u]
        BY <1>4
    <2> QED BY <1>6, <2>1, <2>2
<1>7. ASSUME NEW u \in Tasks, u # t
      PROVE  /\ task'[u] \in TaskRecords
             /\ task'[u].there = task[u].there
             /\ task'[u].date = task[u].date /\ task'[u].bonus = task[u].bonus
             /\ task'[u].flash = task[u].flash /\ task'[u].ends = task[u].ends
             /\ task'[u].lucky \in {None, task[u].lucky}
             /\ task[u].lucky = new.lucky /\ new.lucky # None => task'[u].lucky = None
             /\ OnlyOne(task[u]) => OnlyOne(task'[u])
             /\ task[u] = NoTask => task'[u] = NoTask
    <2>1. task[u] \in TaskRecords
        BY <1>1
    <2>2. task'[u] = task[u] \/ task'[u] = [task[u] EXCEPT !.lucky = None]
        BY <1>6, <1>7
    <2>3. task[u].lucky = new.lucky /\ new.lucky # None => task'[u] = [task[u] EXCEPT !.lucky = None]
        BY <1>6, <1>7
    <2>4. task[u] = NoTask => task'[u] = NoTask
        BY <1>6, <1>7, NoTaskIsBlank
    <2>5. CASE task'[u] = task[u]
        BY <2>1, <2>3, <2>4, <2>5, ClearedLucky
    <2>6. CASE task'[u] = [task[u] EXCEPT !.lucky = None]
        BY <2>1, <2>4, <2>6, ClearedLucky
    <2> QED BY <2>2, <2>5, <2>6
<1>9. task' \in [Tasks -> TaskRecords]
    <2>1. ASSUME NEW u \in Tasks  PROVE task'[u] \in TaskRecords
        BY <1>5, <1>7
    <2> QED BY <1>4, <2>1
<1>10. ASSUME NEW u \in Tasks
       PROVE  /\ ~task'[u].there => task'[u] = NoTask
              /\ task'[u].flash # None => task'[u].ends # None
    <2>1. CASE u = t
        BY <1>5, <2>1
    <2>2. CASE u # t
        <3>1. /\ task'[u].there = task[u].there
              /\ task'[u].flash = task[u].flash /\ task'[u].ends = task[u].ends
              /\ task[u] = NoTask => task'[u] = NoTask
            BY <1>7, <2>2
        <3>2. /\ ~task[u].there => task[u] = NoTask
              /\ task[u].flash # None => task[u].ends # None
            BY DEF SpecialsInv, RowsAreWhole
        <3> QED BY <3>1, <3>2, Zenon
    <2> QED BY <2>1, <2>2
<1>11. OneKind'
    <2>1. ASSUME NEW u \in Tasks  PROVE OnlyOne(task[u])'
        <3>1. OnlyOne(task'[u])
            <4>1. CASE u = t
                BY <1>5, <4>1
            <4>2. CASE u # t
                BY <1>7, <4>2 DEF SpecialsInv, OneKind
            <4> QED BY <4>1, <4>2
        <3>2. today' = today /\ now' = now
            BY DEF SameClock, today
        <3> QED BY <3>1, <3>2 DEF OnlyOne, IsDaily, IsFlash, IsLucky
    <2> QED BY <2>1 DEF OneKind
<1>12. LuckyApart'
    <2>1. ASSUME NEW u \in Tasks, u # t, task'[u].lucky # None
          PROVE  task'[u].lucky = task[u].lucky /\ task'[u].lucky # new.lucky
        <3>1. task'[u].lucky = task[u].lucky
            BY <1>7, <2>1
        <3>2. task[u].lucky = new.lucky /\ new.lucky # None => task'[u].lucky = None
            BY <1>7, <2>1
        <3> QED BY <2>1, <3>1, <3>2
    <2>2. ASSUME NEW u \in Tasks, NEW v \in Tasks, task'[u].lucky # None,
                 task'[u].lucky = task'[v].lucky
          PROVE  u = v
        <3>1. CASE u # t /\ v # t
            <4>1. task[u].lucky = task'[u].lucky /\ task[v].lucky = task'[v].lucky
                BY <2>1, <2>2, <3>1
            <4> QED BY <2>2, <4>1 DEF SpecialsInv, LuckyApart
        <3>2. CASE u = t /\ v # t
            BY <1>5, <2>1, <2>2, <3>2
        <3>3. CASE u # t /\ v = t
            BY <1>5, <2>1, <2>2, <3>3
        <3> QED BY <3>1, <3>2, <3>3
    <2> QED BY <2>2 DEF LuckyApart
<1>13. OthersStay(t)
    <2>1. ASSUME NEW u \in Tasks, u # t, task[u] # NoTask
          PROVE  task'[u] # NoTask
        <3>1. task[u].there
            BY <2>1 DEF SpecialsInv, RowsAreWhole
        <3> QED BY <1>7, <2>1, <3>1, NoTaskIsBlank
    <2> QED BY <1>7, <2>1 DEF OthersStay
<1> QED BY <1>5, <1>9, <1>10, <1>11, <1>12, <1>13

(* What an edit of t does to the photos: those on their way are overtaken, *)
(* those in the table are explained as before, if there are any.           *)
LEMMA OvertakenPhotos ==
    ASSUME SpecialsInv, NEW t \in Tasks, OthersStay(t), Overtake(t),
           task'[t] # NoTask,
           Posted(t) # {} => task'[t].date = task[t].date /\ task'[t].bonus = task[t].bonus
    PROVE  /\ photo' \in [Photos -> PhotoRecords]
           /\ \A p \in Photos : photo'[p].stage # "none" => photo'[p].of \in Tasks
           /\ AllExplained'
<1>1. photo \in [Photos -> PhotoRecords]
    BY DEF SpecialsInv, TypeOK
<1>2. ASSUME NEW p \in Photos
      PROVE  /\ photo'[p] \in PhotoRecords
             /\ photo'[p].stage = photo[p].stage /\ photo'[p].of = photo[p].of
             /\ photo'[p].reason = photo[p].reason /\ photo'[p].amount = photo[p].amount
             /\ photo'[p].day = photo[p].day
             /\ photo[p].stage = "began" /\ photo[p].of = t => photo'[p].overtaken
             /\ photo[p].overtaken => photo'[p].overtaken
    <2>1. photo[p] \in PhotoRecords
        BY <1>1
    <2>2. photo'[p] = IF photo[p].stage = "began" /\ photo[p].of = t
                      THEN [photo[p] EXCEPT !.overtaken = TRUE] ELSE photo[p]
        BY DEF Overtake
    <2>3. CASE photo[p].stage = "began" /\ photo[p].of = t
        BY <2>1, <2>2, <2>3 DEF PhotoRecords
    <2>4. CASE ~(photo[p].stage = "began" /\ photo[p].of = t)
        BY <2>1, <2>2, <2>4
    <2> QED BY <2>3, <2>4
<1>3. photo' \in [Photos -> PhotoRecords]
    <2>1. DOMAIN photo' = Photos /\ photo' = [p \in DOMAIN photo' |-> photo'[p]]
        BY DEF Overtake
    <2> QED BY <1>2, <2>1
<1>4. ASSUME NEW p \in Photos, photo'[p].stage # "none"
      PROVE  photo'[p].of \in Tasks
    BY <1>2, <1>4 DEF SpecialsInv, RowsAreWhole
<1>5. ASSUME NEW p \in Photos
      PROVE  Explained(p)'
    <2>1. Explained(p)
        BY DEF SpecialsInv, AllExplained
    <2>2. CASE photo[p].stage = "none"
        BY <1>2, <2>2 DEF Explained
    <2>3. CASE photo[p].stage # "none" /\ photo[p].of # t
        <3>1. photo[p].of \in Tasks
            BY <2>3 DEF SpecialsInv, RowsAreWhole
        <3>2. /\ task[photo[p].of] # NoTask => task'[photo[p].of] # NoTask
              /\ task'[photo[p].of].date = task[photo[p].of].date
              /\ task'[photo[p].of].bonus = task[photo[p].of].bonus
            BY <2>3, <3>1 DEF OthersStay
        <3>3. photo'[p].of = photo[p].of
            BY <1>2
        <3> QED BY <1>2, <2>1, <2>3, <3>2, <3>3 DEF Explained
    <2>4. CASE photo[p].stage = "began" /\ photo[p].of = t
        BY <1>2, <2>4 DEF Explained
    <2>5. CASE photo[p].stage = "posted" /\ photo[p].of = t
        <3>1. task'[t].date = task[t].date /\ task'[t].bonus = task[t].bonus
            BY <2>5 DEF Posted
        <3>2. photo'[p].of = t
            BY <1>2, <2>5
        <3> QED BY <1>2, <2>1, <2>5, <3>1, <3>2 DEF Explained
    <2>6. photo[p].stage \in {"none", "began", "posted"}
        BY <1>1 DEF PhotoRecords
    <2> QED BY <2>2, <2>3, <2>4, <2>5, <2>6
<1> QED BY <1>3, <1>4, <1>5 DEF AllExplained

(* An event without tasks.                                                 *)
LEMMA NoTasksHold ==
    ASSUME zone \in Zones, now \in Nat, edits = 0,
           task = [t \in Tasks |-> NoTask], photo = [p \in Photos |-> NoPhoto]
    PROVE  SpecialsInv
<1>1. task = [t \in Tasks |-> NoTask] /\ photo = [p \in Photos |-> NoPhoto]
    OBVIOUS
<1>2. NoPhoto \in PhotoRecords /\ NoPhoto.stage = "none"
    BY NoneIsNoDay DEF NoPhoto, PhotoRecords
<1>3. TypeOK
    BY <1>1, <1>2, NoTaskIsBlank, SpecialsAssumption DEF TypeOK
<1>4. RowsAreWhole
    BY <1>1, <1>2, NoTaskIsBlank DEF RowsAreWhole
<1>5. OneKind
    BY <1>1, NoTaskIsBlank DEF OneKind
<1>6. LuckyApart
    BY <1>1, NoTaskIsBlank DEF LuckyApart
<1>7. AllExplained
    BY <1>1, <1>2 DEF AllExplained, Explained
<1> QED BY <1>3, <1>4, <1>5, <1>6, <1>7 DEF SpecialsInv

(* Time takes kinds away and brings none.                                  *)
LEMMA TickKeeps ==
    ASSUME SpecialsInv, Tick, zone \in PlayedZones
    PROVE  SpecialsInv'
<1>1. now \in Nat /\ now' = now + 1 /\ zone' = zone /\ task' = task /\ photo' = photo /\ edits' = edits
    BY DEF Tick, SpecialsInv, TypeOK
<1>2. today \in Int /\ today' \in Int /\ today <= today'
    <2>1. today' = eventLocalDate(zone, now + 1) /\ today = eventLocalDate(zone, now)
        BY <1>1 DEF today
    <2>2. eventLocalDate(zone, now + 1) \in Int /\ eventLocalDate(zone, now) \in Int
        BY <1>1, WallClockIsInt, SpecialsAssumption DEF ZoneRecords
    <2> QED BY <1>1, <2>1, <2>2, TodayGoesOn
<1>3. TypeOK'
    BY <1>1 DEF SpecialsInv, TypeOK
<1>4. RowsAreWhole' /\ LuckyApart'
    BY <1>1 DEF SpecialsInv, RowsAreWhole, LuckyApart
<1>5. OneKind'
    <2>1. ASSUME NEW t \in Tasks  PROVE OnlyOne(task[t])'
        <3>1. /\ task[t].date \in Int /\ task[t].lucky \in Int
              /\ task[t].flash \in Int /\ task[t].ends \in Int
            <4>1. task[t] \in TaskRecords
                BY DEF SpecialsInv, TypeOK
            <4> QED BY <4>1, NoneIsNoDay DEF TaskRecords, NatOrNone
        <3>2. /\ IsDaily(task[t])' => IsDaily(task[t])
              /\ IsLucky(task[t])' => IsLucky(task[t])
              /\ IsFlash(task[t])' => IsFlash(task[t])
            BY <1>1, <1>2, <3>1 DEF IsDaily, IsLucky, IsFlash
        <3>3. OnlyOne(task[t])
            BY DEF SpecialsInv, OneKind
        <3> QED BY <3>2, <3>3 DEF OnlyOne
    <2> QED BY <1>1, <2>1 DEF OneKind
<1>6. AllExplained'
    BY <1>1 DEF SpecialsInv, AllExplained, Explained
<1> QED BY <1>3, <1>4, <1>5, <1>6 DEF SpecialsInv

(* A new row is of one kind, and nobody has posted to it.                  *)
LEMMA CreateKeeps ==
    ASSUME SpecialsInv, NEW t \in Tasks, CreateTask(t)
    PROVE  SpecialsInv'
<1>1. PICK f \in Forms : /\ task[t] = NoTask /\ Posted(t) = {}
                         /\ AcceptsNew(f)
                         /\ Request /\ Save(t, Blank, f) /\ UNCHANGED photo
    BY DEF CreateTask
<1> DEFINE new == Written(t, Blank, f)
<1>2. SameClock /\ edits' = edits + 1 /\ zone' = zone /\ now' = now
    BY <1>1 DEF Request, SameClock
<1>3. TypeOK /\ resolveFlashWrite(Blank, f).ok
    BY <1>1 DEF SpecialsInv, AcceptsNew
<1>4. new \in TaskRecords /\ new.there /\ (new.flash # None => new.ends # None)
    BY <1>3, NoTaskIsBlank, WrittenIsWhole
<1>5. OnlyOne(new)
    <2>1. whatSpecial(Blank) = "none"
        <3>1. ~IsDaily(Blank) /\ ~IsFlash(Blank) /\ ~IsLucky(Blank)
            BY DEF Blank, IsDaily, IsFlash, IsLucky
        <3> QED BY <1>3, <3>1, NoTaskIsBlank, SpokenForMeans DEF whatSpecial
    <2>2. checkExclusivity(Blank, f)
        BY <2>1 DEF checkExclusivity
    <2> QED BY <1>3, <2>2, NoTaskIsBlank, WrittenIsOneKind
<1>6. task' = ClearLucky([task EXCEPT ![t] = new], t, new.lucky)
    BY <1>1 DEF Save
<1> HIDE DEF new
<1>7. /\ task' \in [Tasks -> TaskRecords]
      /\ \A u \in Tasks : /\ ~task'[u].there => task'[u] = NoTask
                          /\ task'[u].flash # None => task'[u].ends # None
      /\ OneKind' /\ LuckyApart' /\ OthersStay(t) /\ task'[t] = new
    BY <1>2, <1>4, <1>5, <1>6, SavedRow
<1>8. photo' = photo
    BY <1>1
<1>9. TypeOK'
    BY <1>2, <1>7, <1>8 DEF SpecialsInv, TypeOK
<1>10. RowsAreWhole'
    BY <1>7, <1>8 DEF SpecialsInv, RowsAreWhole
<1>11. ASSUME NEW p \in Photos
       PROVE  Explained(p)'
    <2>1. Explained(p)
        BY DEF SpecialsInv, AllExplained
    <2>2. CASE photo[p].stage = "none"
        BY <1>8, <2>2 DEF Explained
    <2>3. CASE photo[p].stage # "none" /\ photo[p].of # t
        <3>1. photo[p].of \in Tasks
            BY <2>3 DEF SpecialsInv, RowsAreWhole
        <3>2. /\ task[photo[p].of] # NoTask => task'[photo[p].of] # NoTask
              /\ task'[photo[p].of].date = task[photo[p].of].date
              /\ task'[photo[p].of].bonus = task[photo[p].of].bonus
            BY <1>7, <2>3, <3>1 DEF OthersStay
        <3> QED BY <1>8, <2>1, <2>3, <3>2 DEF Explained
    <2>4. CASE photo[p].stage # "none" /\ photo[p].of = t
        \* Nobody has posted to a task that is not there, and an upload of one
        \* that was there has been overtaken.
        <3>1. photo[p].stage # "posted" /\ photo[p].overtaken
            BY <1>1, <2>1, <2>4 DEF Explained
        <3> QED BY <1>8, <3>1 DEF Explained
    <2> QED BY <2>2, <2>3, <2>4
<1> QED BY <1>7, <1>9, <1>10, <1>11 DEF SpecialsInv, AllExplained

(* An edit that leaves t as it is but for a column no photo depends on.    *)
LEMMA SmallEditKeeps ==
    ASSUME SpecialsInv, NEW t \in Tasks, task[t] # NoTask, SameClock, edits' \in Nat,
           NEW new \in TaskRecords, new.there, OnlyOne(new),
           new.lucky \in {None, task[t].lucky},
           new.date = task[t].date, new.bonus = task[t].bonus,
           new.flash = task[t].flash, new.ends = task[t].ends,
           task' = [task EXCEPT ![t] = new], Overtake(t)
    PROVE  SpecialsInv'
<1>1. task \in [Tasks -> TaskRecords]
    BY DEF SpecialsInv, TypeOK
<1>2. /\ task'[t] = new
      /\ \A u \in Tasks : u # t => task'[u] = task[u]
      /\ task' \in [Tasks -> TaskRecords]
    BY <1>1
<1>3. OthersStay(t)
    BY <1>2 DEF OthersStay
<1>4. task'[t] # NoTask
    BY <1>2, NoTaskIsBlank
<1>5. /\ photo' \in [Photos -> PhotoRecords]
      /\ \A p \in Photos : photo'[p].stage # "none" => photo'[p].of \in Tasks
      /\ AllExplained'
    <2>1. task'[t].date = task[t].date /\ task'[t].bonus = task[t].bonus
        BY <1>2
    <2> QED BY <1>3, <1>4, <2>1, OvertakenPhotos
<1>6. TypeOK'
    BY <1>2, <1>5 DEF SpecialsInv, TypeOK, SameClock
<1>7. RowsAreWhole'
    <2>1. ASSUME NEW u \in Tasks
          PROVE  /\ ~task'[u].there => task'[u] = NoTask
                 /\ task'[u].flash # None => task'[u].ends # None
        <3>1. CASE u = t
            BY <1>2, <3>1 DEF SpecialsInv, RowsAreWhole
        <3>2. CASE u # t
            BY <1>2, <3>2 DEF SpecialsInv, RowsAreWhole
        <3> QED BY <3>1, <3>2
    <2> QED BY <1>5, <2>1 DEF RowsAreWhole
<1>8. OneKind'
    <2>1. ASSUME NEW u \in Tasks  PROVE OnlyOne(task[u])'
        <3>1. OnlyOne(task'[u])
            <4>1. CASE u = t
                BY <1>2, <4>1
            <4>2. CASE u # t
                BY <1>2, <4>2 DEF SpecialsInv, OneKind
            <4> QED BY <4>1, <4>2
        <3>2. today' = today /\ now' = now
            BY DEF SameClock, today
        <3> QED BY <3>1, <3>2 DEF OnlyOne, IsDaily, IsFlash, IsLucky
    <2> QED BY <2>1 DEF OneKind
<1>9. LuckyApart'
    <2>1. \A u \in Tasks : task'[u].lucky \in {None, task[u].lucky}
        BY <1>2
    <2> QED BY <2>1 DEF SpecialsInv, LuckyApart
<1> QED BY <1>5, <1>6, <1>7, <1>8, <1>9 DEF SpecialsInv

(* An edit: what is accepted, or the lucky day it cancels when it is not.  *)
LEMMA EditKeeps ==
    ASSUME SpecialsInv, NEW t \in Tasks, EditTask(t)
    PROVE  SpecialsInv'
<1>1. PICK f \in Forms : /\ task[t] # NoTask
                         /\ Request
                         /\ \/ Accepts(t, task[t], f) /\ Save(t, task[t], f)
                            \/ CancelsLucky(t, task[t], f) /\ task' = [task EXCEPT ![t].lucky = None]
                         /\ Overtake(t)
    BY DEF EditTask
<1>2. SameClock /\ edits' \in Nat /\ zone' = zone /\ now' = now
    BY <1>1 DEF Request, SameClock, SpecialsInv, TypeOK
<1>3. TypeOK /\ task[t] \in TaskRecords /\ (task[t].flash # None => task[t].ends # None) /\ OnlyOne(task[t])
    BY DEF SpecialsInv, TypeOK, RowsAreWhole, OneKind
<1>4. task[t].there
    BY <1>1 DEF SpecialsInv, RowsAreWhole
<1>5. CASE Accepts(t, task[t], f) /\ Save(t, task[t], f)
    <2> DEFINE new == Written(t, task[t], f)
    <2>1. resolveFlashWrite(task[t], f).ok /\ checkExclusivity(task[t], f)
        BY <1>5 DEF Accepts
    <2>2. new \in TaskRecords /\ new.there /\ (new.flash # None => new.ends # None)
        BY <1>3, <2>1, WrittenIsWhole
    <2>3. OnlyOne(new)
        BY <1>3, <2>1, WrittenIsOneKind
    <2>4. task' = ClearLucky([task EXCEPT ![t] = new], t, new.lucky)
        BY <1>5 DEF Save
    <2>5. Posted(t) # {} => new.date = task[t].date /\ new.bonus = task[t].bonus
        BY <1>5 DEF Accepts, resolveSpecialPairWrite, locks, Written
    <2> HIDE DEF new
    <2>6. /\ task' \in [Tasks -> TaskRecords]
          /\ \A u \in Tasks : /\ ~task'[u].there => task'[u] = NoTask
                              /\ task'[u].flash # None => task'[u].ends # None
          /\ OneKind' /\ LuckyApart' /\ OthersStay(t) /\ task'[t] = new
        BY <1>2, <2>2, <2>3, <2>4, SavedRow
    <2>7. task'[t] # NoTask
        BY <2>2, <2>6, NoTaskIsBlank
    <2>8. /\ photo' \in [Photos -> PhotoRecords]
          /\ \A p \in Photos : photo'[p].stage # "none" => photo'[p].of \in Tasks
          /\ AllExplained'
        BY <1>1, <2>5, <2>6, <2>7, OvertakenPhotos
    <2>9. TypeOK'
        BY <1>2, <2>6, <2>8 DEF SpecialsInv, TypeOK
    <2>10. RowsAreWhole'
        BY <2>6, <2>8 DEF RowsAreWhole
    <2> QED BY <2>6, <2>8, <2>9, <2>10 DEF SpecialsInv
<1>6. CASE task' = [task EXCEPT ![t].lucky = None]
    <2>1. PICK new : new = [task[t] EXCEPT !.lucky = None]
        OBVIOUS
    <2>2. /\ new \in TaskRecords /\ new.lucky = None /\ new.there = task[t].there
          /\ new.date = task[t].date /\ new.bonus = task[t].bonus
          /\ new.flash = task[t].flash /\ new.ends = task[t].ends
          /\ OnlyOne(new)
        BY <1>3, <2>1, ClearedLucky
    <2>3. new.there
        BY <1>4, <2>2
    <2>4. task' = [task EXCEPT ![t] = new]
        BY <1>6, <2>1
    <2> QED BY <1>1, <1>2, <2>2, <2>3, <2>4, SmallEditKeeps
<1> QED BY <1>1, <1>5, <1>6

(* Hiding and showing.                                                     *)
LEMMA ToggleKeeps ==
    ASSUME SpecialsInv, NEW t \in Tasks, ToggleActive(t)
    PROVE  SpecialsInv'
<1>1. /\ task[t] # NoTask /\ SameClock /\ edits' \in Nat
      /\ task' = [task EXCEPT ![t].live = ~@] /\ Overtake(t)
    BY DEF ToggleActive, Request, SameClock, SpecialsInv, TypeOK
<1>2. task[t] \in TaskRecords /\ task[t].there /\ OnlyOne(task[t])
    BY <1>1 DEF SpecialsInv, TypeOK, RowsAreWhole, OneKind
<1>3. PICK new : new = [task[t] EXCEPT !.live = ~task[t].live]
    OBVIOUS
<1>4. /\ new \in TaskRecords /\ new.lucky = task[t].lucky /\ new.there = task[t].there
      /\ new.date = task[t].date /\ new.bonus = task[t].bonus
      /\ new.flash = task[t].flash /\ new.ends = task[t].ends
    BY <1>2, <1>3 DEF TaskRecords
<1>5. OnlyOne(new)
    BY <1>2, <1>4 DEF OnlyOne, IsDaily, IsFlash, IsLucky
<1>6. new.there
    BY <1>2, <1>4
<1>7. task' = [task EXCEPT ![t] = new]
    BY <1>1, <1>3
<1> QED BY <1>1, <1>4, <1>5, <1>6, <1>7, SmallEditKeeps

(* A task that goes takes its posted photos along, and overtakes the rest. *)
LEMMA DeleteKeeps ==
    ASSUME SpecialsInv, NEW t \in Tasks, DeleteTask(t)
    PROVE  SpecialsInv'
<1>1. /\ SameClock /\ edits' \in Nat
      /\ task' = [task EXCEPT ![t] = NoTask]
      /\ photo' = [p \in Photos |-> IF photo[p].of = t /\ photo[p].stage = "posted"
                                    THEN NoPhoto
                                    ELSE IF photo[p].of = t
                                    THEN [photo[p] EXCEPT !.overtaken = TRUE] ELSE photo[p]]
    BY DEF DeleteTask, Request, SameClock, SpecialsInv, TypeOK
<1>2. task \in [Tasks -> TaskRecords] /\ photo \in [Photos -> PhotoRecords]
    BY DEF SpecialsInv, TypeOK
<1>3. /\ task'[t] = NoTask
      /\ \A u \in Tasks : u # t => task'[u] = task[u]
      /\ task' \in [Tasks -> TaskRecords]
    BY <1>1, <1>2, NoTaskIsBlank
<1>4. NoPhoto \in PhotoRecords /\ NoPhoto.stage = "none"
    BY NoneIsNoDay DEF NoPhoto, PhotoRecords
<1>5. ASSUME NEW p \in Photos
      PROVE  /\ photo'[p] \in PhotoRecords
             /\ \/ photo'[p].stage = "none"
                \/ /\ photo'[p].stage # "posted" /\ photo'[p].overtaken
                   /\ photo'[p].of = photo[p].of /\ photo'[p].stage = photo[p].stage
                \/ photo[p].of # t /\ photo'[p] = photo[p]
    <2>1. photo[p] \in PhotoRecords
        BY <1>2
    <2>2. CASE photo[p].of = t /\ photo[p].stage = "posted"
        BY <1>1, <1>4, <2>2
    <2>3. CASE photo[p].of = t /\ photo[p].stage # "posted"
        <3>1. photo'[p] = [photo[p] EXCEPT !.overtaken = TRUE]
            BY <1>1, <2>3
        <3> QED BY <2>1, <2>3, <3>1 DEF PhotoRecords
    <2>4. CASE photo[p].of # t
        BY <1>1, <2>1, <2>4
    <2> QED BY <2>2, <2>3, <2>4
<1>6. TypeOK'
    <2>1. photo' \in [Photos -> PhotoRecords]
        BY <1>1, <1>5
    <2> QED BY <1>1, <1>3, <2>1 DEF SpecialsInv, TypeOK, SameClock
<1>7. RowsAreWhole'
    <2>1. ASSUME NEW u \in Tasks
          PROVE  /\ ~task'[u].there => task'[u] = NoTask
                 /\ task'[u].flash # None => task'[u].ends # None
        <3>1. CASE u = t
            BY <1>3, <3>1, NoTaskIsBlank
        <3>2. CASE u # t
            BY <1>3, <3>2 DEF SpecialsInv, RowsAreWhole
        <3> QED BY <3>1, <3>2
    <2>2. ASSUME NEW p \in Photos, photo'[p].stage # "none"
          PROVE  photo'[p].of \in Tasks
        BY <1>5, <2>2 DEF SpecialsInv, RowsAreWhole
    <2> QED BY <2>1, <2>2 DEF RowsAreWhole
<1>8. OneKind'
    <2>1. ASSUME NEW u \in Tasks  PROVE OnlyOne(task[u])'
        <3>1. OnlyOne(task'[u])
            <4>1. CASE u = t
                BY <1>3, <4>1, NoTaskIsBlank
            <4>2. CASE u # t
                BY <1>3, <4>2 DEF SpecialsInv, OneKind
            <4> QED BY <4>1, <4>2
        <3>2. today' = today /\ now' = now
            BY <1>1 DEF SameClock, today
        <3> QED BY <3>1, <3>2 DEF OnlyOne, IsDaily, IsFlash, IsLucky
    <2> QED BY <2>1 DEF OneKind
<1>9. LuckyApart'
    <2>1. \A u \in Tasks : task'[u].lucky \in {None, task[u].lucky}
        BY <1>3, NoTaskIsBlank
    <2> QED BY <2>1 DEF SpecialsInv, LuckyApart
<1>10. ASSUME NEW p \in Photos
       PROVE  Explained(p)'
    <2>1. Explained(p)
        BY DEF SpecialsInv, AllExplained
    <2>2. CASE photo'[p].stage = "none"
        BY <2>2 DEF Explained
    <2>3. CASE photo'[p].stage # "posted" /\ photo'[p].overtaken
        BY <2>3 DEF Explained
    <2>4. CASE photo[p].stage # "none" /\ photo[p].of # t /\ photo'[p] = photo[p]
        <3>1. photo[p].of \in Tasks
            BY <2>4 DEF SpecialsInv, RowsAreWhole
        <3>2. task'[photo[p].of] = task[photo[p].of]
            BY <1>3, <2>4, <3>1
        <3> QED BY <2>1, <2>4, <3>2 DEF Explained
    <2> QED BY <1>5, <2>2, <2>3, <2>4
<1> QED BY <1>6, <1>7, <1>8, <1>9, <1>10 DEF SpecialsInv, AllExplained

(* A step that writes one photo only, of a task that explains it.          *)
LEMMA OnePhotoKeeps ==
    ASSUME SpecialsInv, NEW p \in Photos, NEW new \in PhotoRecords,
           zone' = zone, now' = now, task' = task, edits' = edits,
           photo' = [photo EXCEPT ![p] = new],
           new.stage # "none" =>
             /\ new.of \in Tasks
             /\ new.stage = "posted" => task[new.of] # NoTask
             /\ ~new.overtaken =>
                   /\ task[new.of] # NoTask
                   /\ new.reason = "daily" =>
                         task[new.of].date = new.day /\ task[new.of].bonus = new.amount
    PROVE  SpecialsInv'
<1>1. /\ photo'[p] = new
      /\ \A q \in Photos : q # p => photo'[q] = photo[q]
      /\ photo' \in [Photos -> PhotoRecords]
    BY DEF SpecialsInv, TypeOK
<1>2. TypeOK'
    BY <1>1 DEF SpecialsInv, TypeOK
<1>3. RowsAreWhole'
    <2>1. ASSUME NEW q \in Photos, photo'[q].stage # "none"
          PROVE  photo'[q].of \in Tasks
        <3>1. CASE q = p
            BY <1>1, <2>1, <3>1
        <3>2. CASE q # p
            BY <1>1, <2>1, <3>2 DEF SpecialsInv, RowsAreWhole
        <3> QED BY <3>1, <3>2
    <2> QED BY <2>1 DEF SpecialsInv, RowsAreWhole
<1>4. OneKind' /\ LuckyApart'
    <2>1. today' = today
        BY DEF today
    <2> QED BY <2>1 DEF SpecialsInv, OneKind, LuckyApart, OnlyOne, IsDaily, IsFlash, IsLucky
<1>5. ASSUME NEW q \in Photos
      PROVE  Explained(q)'
    <2>1. CASE q = p
        BY <1>1, <2>1 DEF Explained
    <2>2. CASE q # p
        <3>1. Explained(q)
            BY DEF SpecialsInv, AllExplained
        <3> QED BY <1>1, <2>2, <3>1 DEF Explained
    <2> QED BY <2>1, <2>2
<1> QED BY <1>2, <1>3, <1>4, <1>5 DEF SpecialsInv, AllExplained

(* An upload takes down what the task pays as it is.                       *)
LEMMA BeginKeeps ==
    ASSUME SpecialsInv, NEW p \in Photos, NEW t \in Tasks, BeginUpload(p, t)
    PROVE  SpecialsInv'
<1>1. /\ photo[p].stage = "none" /\ task[t] # NoTask
      /\ zone' = zone /\ now' = now /\ task' = task /\ edits' = edits
    BY DEF BeginUpload
<1>2. PICK pays : pays = bonusForTask(task[t])
    OBVIOUS
<1>3. PICK new : /\ new = [stage |-> "began", of |-> t, reason |-> pays.reason,
                           amount |-> pays.amount, day |-> today, overtaken |-> FALSE]
                 /\ photo' = [photo EXCEPT ![p] = new]
    BY <1>2 DEF BeginUpload
<1>4. /\ task[t] \in TaskRecords /\ photo \in [Photos -> PhotoRecords]
      /\ task[t].flash # None => task[t].ends # None
      /\ OnlyOne(task[t]) /\ TypeOK
    BY DEF SpecialsInv, TypeOK, RowsAreWhole, OneKind
<1>5. /\ pays.reason \in {"none", "daily", "flash", "lucky"}
      /\ pays.amount \in Nat \cup {None}
      /\ pays.reason = "daily" => task[t].date = today /\ task[t].bonus = pays.amount
    <2>1. task[t].bonus \in Nat \cup {None}
        BY <1>4 DEF TaskRecords
    <2>2. CASE whatSpecial(task[t]) = "daily" /\ isOnDay(task[t])
        BY <1>2, <2>1, <2>2 DEF bonusForTask, isOnDay
    <2>3. CASE ~(whatSpecial(task[t]) = "daily" /\ isOnDay(task[t]))
        <3>1. pays \in {[reason |-> "flash", amount |-> 1], [reason |-> "lucky", amount |-> 1],
                        [reason |-> "none", amount |-> 0]}
            BY <1>2, <2>3 DEF bonusForTask
        <3> QED BY <3>1
    <2> QED BY <2>2, <2>3
<1>6. new \in PhotoRecords
    BY <1>3, <1>4, <1>5, TodayIsInt DEF PhotoRecords
<1>7. /\ new.of = t /\ new.stage = "began" /\ new.reason = pays.reason
      /\ new.day = today /\ new.amount = pays.amount
    BY <1>3
<1>8. new.reason = "daily" => task[new.of].date = new.day /\ task[new.of].bonus = new.amount
    BY <1>5, <1>7
<1>9. photo' = [photo EXCEPT ![p] = new]
    BY <1>3
<1> QED BY <1>1, <1>6, <1>7, <1>8, <1>9, OnePhotoKeeps

(* The row of a photo is written if the task is still there.               *)
LEMMA FinishKeeps ==
    ASSUME SpecialsInv, NEW p \in Photos, FinishUpload(p)
    PROVE  SpecialsInv'
<1>1. /\ photo[p].stage = "began"
      /\ zone' = zone /\ now' = now /\ task' = task /\ edits' = edits
    BY DEF FinishUpload
<1>2. PICK new : /\ new = IF task[photo[p].of] = NoTask THEN NoPhoto
                          ELSE [photo[p] EXCEPT !.stage = "posted"]
                 /\ photo' = [photo EXCEPT ![p] = new]
    BY DEF FinishUpload
<1>3. photo \in [Photos -> PhotoRecords] /\ photo[p] \in PhotoRecords /\ photo[p].of \in Tasks
    BY <1>1 DEF SpecialsInv, TypeOK, RowsAreWhole
<1>4. CASE task[photo[p].of] = NoTask
    <2>1. new = NoPhoto
        BY <1>2, <1>4
    <2>2. new \in PhotoRecords /\ new.stage = "none"
        BY <2>1, NoneIsNoDay DEF NoPhoto, PhotoRecords
    <2> QED BY <1>1, <1>2, <1>3, <2>2, OnePhotoKeeps
<1>5. CASE task[photo[p].of] # NoTask
    <2>1. new = [photo[p] EXCEPT !.stage = "posted"]
        BY <1>2, <1>5
    <2>2. /\ new \in PhotoRecords /\ new.stage = "posted" /\ new.of = photo[p].of
          /\ new.reason = photo[p].reason /\ new.day = photo[p].day
          /\ new.amount = photo[p].amount /\ new.overtaken = photo[p].overtaken
        BY <1>3, <2>1 DEF PhotoRecords
    <2>3. Explained(p)
        BY DEF SpecialsInv, AllExplained
    <2>4. ~new.overtaken /\ new.reason = "daily" =>
             task[new.of].date = new.day /\ task[new.of].bonus = new.amount
        BY <1>1, <2>2, <2>3 DEF Explained
    <2> QED BY <1>1, <1>2, <1>3, <1>5, <2>2, <2>4, OnePhotoKeeps
<1> QED BY <1>4, <1>5

-----------------------------------------------------------------------------
(* The theorems.                                                           *)

(* Every step keeps it.                                                    *)
LEMMA StepHolds == SpecialsInv /\ [Next]_vars => SpecialsInv'
<1> SUFFICES ASSUME SpecialsInv, [Next]_vars
             PROVE  SpecialsInv'
    OBVIOUS
<1>1. CASE Tick /\ zone \in PlayedZones
    BY <1>1, TickKeeps
<1>2. ASSUME NEW t \in Tasks, CreateTask(t)  PROVE SpecialsInv'
    BY <1>2, CreateKeeps
<1>3. ASSUME NEW t \in Tasks, EditTask(t)  PROVE SpecialsInv'
    BY <1>3, EditKeeps
<1>4. ASSUME NEW t \in Tasks, ToggleActive(t)  PROVE SpecialsInv'
    BY <1>4, ToggleKeeps
<1>5. ASSUME NEW t \in Tasks, DeleteTask(t)  PROVE SpecialsInv'
    BY <1>5, DeleteKeeps
<1>6. ASSUME NEW p \in Photos, NEW t \in Tasks, BeginUpload(p, t)  PROVE SpecialsInv'
    BY <1>6, BeginKeeps
<1>7. ASSUME NEW p \in Photos, FinishUpload(p)  PROVE SpecialsInv'
    BY <1>7, FinishKeeps
<1>8. CASE UNCHANGED vars
    <2>1. zone' = zone /\ now' = now /\ task' = task /\ photo' = photo /\ edits' = edits
        BY <1>8 DEF vars
    <2>2. today' = today
        BY <2>1 DEF today
    <2> QED BY <2>1, <2>2 DEF SpecialsInv, TypeOK, RowsAreWhole, OneKind, LuckyApart,
            AllExplained, Explained, OnlyOne, IsDaily, IsFlash, IsLucky
<1> QED BY <1>1, <1>2, <1>3, <1>4, <1>5, <1>6, <1>7, <1>8 DEF Next

(* Every reachable state satisfies the inductive invariant: rows are whole *)
(* and of one kind of special at most, lucky days are apart, and what      *)
(* every photo banked, or is about to, is what its task says               *)
(* (routes/admin/task-form.js, services/submissions.js).                   *)
THEOREM SpecialsInvariant == Spec => []SpecialsInv
<1>1. Init => SpecialsInv
    <2> SUFFICES ASSUME Init  PROVE SpecialsInv
        OBVIOUS
    <2> QED BY NoTasksHold, SpecialsAssumption DEF Init
<1> QED BY <1>1, StepHolds, PTL DEF Spec

(* The three conjuncts, in every state of the invariant.                   *)
LEMMA KindsStayApart == SpecialsInv => SpecialsAreExclusive
<1> SUFFICES ASSUME SpecialsInv  PROVE SpecialsAreExclusive
    OBVIOUS
<1>1. ASSUME NEW t \in Tasks  PROVE Cardinality(SpokenFor(task[t])) <= 1
    BY OneKindIsOne DEF SpecialsInv, TypeOK, RowsAreWhole, OneKind
<1>2. \A t, u \in Tasks : task[t].lucky # None /\ task[t].lucky = task[u].lucky => t = u
    BY DEF SpecialsInv, LuckyApart
<1> QED BY <1>1, <1>2 DEF SpecialsAreExclusive

LEMMA BonusIsExplained == SpecialsInv => BankedBonusIsExplained
BY DEF SpecialsInv, AllExplained, Explained, BankedBonusIsExplained

LEMMA InstantIsRight == SpecialsInv => LocalInstantIsRight
<1> SUFFICES ASSUME SpecialsInv,
                    NEW day \in Days, NEW h \in 0 .. TicksPerDay - 1,
                    NEW w, w = day * TicksPerDay + h,
                    NEW u, u = eventLocalInstant(zone, day, h)
             PROVE  /\ \A v \in Instants : wallClock(zone, v) = w => wallClock(zone, u) = w
                    /\ wallClock(zone, u) # w => wallClock(zone, u) \in w .. w + (zone.after - zone.before)
                    /\ h = 0 /\ OpensOnce(zone, day) =>
                          \A v \in Instants : v < u <=> eventLocalDate(zone, v) < day
    BY DEF LocalInstantIsRight
<1>1. zone \in ZoneRecords /\ day \in Int /\ h \in Int
    BY SpecialsAssumption, ClockAssumption DEF SpecialsInv, TypeOK, ZoneRecords, Days
<1>2. \A v \in Instants : v \in Int
    BY DEF Instants
<1>3. h = 0 => u = dayOpensAt(zone, day)
    BY DEF dayOpensAt
<1>4. /\ \A v \in Int : wallClock(zone, v) = w => wallClock(zone, u) = w
      /\ wallClock(zone, u) # w => wallClock(zone, u) \in w .. w + (zone.after - zone.before)
    BY <1>1, InstantShowsTheTime
<1>5. h = 0 /\ OpensOnce(zone, day) =>
         \A v \in Int : v < u <=> eventLocalDate(zone, v) < day
    <2>1. SUFFICES ASSUME h = 0, OpensOnce(zone, day), NEW v \in Int
                   PROVE  v < u <=> eventLocalDate(zone, v) < day
        OBVIOUS
    <2>2. u \in Int /\ (v >= u <=> eventLocalDate(zone, v) >= day)
        BY <1>1, <1>3, <2>1, DayOpensOnce
    <2>3. eventLocalDate(zone, v) \in Int
        BY <1>1, WallClockIsInt
    <2> QED BY <1>1, <2>2, <2>3
<1> QED BY <1>2, <1>4, <1>5

(* In any zone whose days go on, with any tasks, photos, requests and      *)
(* days: no edit, interleaving or passing of time makes a task two         *)
(* specials at once or gives a day two lucky tasks; a banked one-day bonus *)
(* is what its task says; and the instant of a wall time shows it          *)
(* (routes/admin/tasks.js, services/submissions.js, event-days.js).        *)
THEOREM SpecialsAlwaysKeepTheirWord == Spec => []SpecialsKeepTheirWord
<1>1. SpecialsInv => SpecialsKeepTheirWord
    BY KindsStayApart, BonusIsExplained, InstantIsRight DEF SpecialsKeepTheirWord
<1> QED BY <1>1, SpecialsInvariant, PTL

(* The same, of the run that plays Specials next to the other parts, where  *)
(* it rests on its last instant.                                           *)
THEOREM TasksKeepSpecials == TasksSpec => []SpecialsKeepTheirWord
<1>1. TasksInit => SpecialsInv
    <2> SUFFICES ASSUME TasksInit  PROVE SpecialsInv
        OBVIOUS
    <2>1. zone \in Zones /\ now \in Nat /\ edits = 0
        BY SpecialsAssumption DEF TasksInit, Init, Quiet
    <2>2. task = [t \in Tasks |-> NoTask] /\ photo = [p \in Photos |-> NoPhoto]
        BY DEF TasksInit, Init, Quiet
    <2> QED BY <2>1, <2>2, NoTasksHold
<1>2. [TasksNext]_<<part, vars, boardVars, dialogVars, listVars, orderVars, deskVars>> => [Next]_vars
    BY DEF TasksNext
<1>3. SpecialsInv => SpecialsKeepTheirWord
    BY KindsStayApart, BonusIsExplained, InstantIsRight DEF SpecialsKeepTheirWord
<1>4. SpecialsInv /\ [TasksNext]_<<part, vars, boardVars, dialogVars, listVars, orderVars, deskVars>> => SpecialsInv'
    BY <1>2, StepHolds
<1> QED BY <1>1, <1>3, <1>4, PTL DEF TasksSpec

-----------------------------------------------------------------------------
\* Numbering the members of a set of places, first to last, reaches every number.
LEMMA PlacesAreTaken ==
    ASSUME NEW m \in Nat, NEW kept \in SUBSET (1 .. m),
           NEW place, place = [i \in kept |-> Cardinality({j \in kept : j <= i})]
    PROVE  /\ IsFiniteSet(kept) /\ Cardinality(kept) \in Nat
           /\ \A i \in kept : place[i] \in 1 .. Cardinality(kept)
           /\ \A i, j \in kept : i < j => place[i] < place[j]
           /\ \A n \in 1 .. Cardinality(kept) : \E i \in kept : place[i] = n
<1> DEFINE upto(i) == {j \in kept : j <= i}
<1>1. IsFiniteSet(kept) /\ Cardinality(kept) \in Nat
  <2>1. IsFiniteSet(1 .. m)
    BY FS_Interval
  <2> QED  BY <2>1, FS_Subset, FS_CardinalityType
<1>2. ASSUME NEW i \in kept
      PROVE  /\ IsFiniteSet(upto(i)) /\ Cardinality(upto(i)) \in Nat /\ Cardinality(upto(i)) >= 1
             /\ Cardinality(upto(i)) <= Cardinality(kept)
  <2>1. IsFiniteSet(upto(i)) /\ Cardinality(upto(i)) <= Cardinality(kept)
    BY <1>1, FS_Subset
  <2>2. i \in upto(i)
    OBVIOUS
  <2>3. Cardinality(upto(i)) \in Nat /\ Cardinality(upto(i)) # 0
    BY <2>1, <2>2, FS_CardinalityType, FS_EmptySet
  <2> QED  BY <2>1, <2>3
<1>3. \A i \in kept : place[i] \in 1 .. Cardinality(kept)
  BY <1>1, <1>2
<1>4. ASSUME NEW i \in kept, NEW j \in kept, i < j PROVE place[i] < place[j]
  <2>1. upto(i) \subseteq upto(j) /\ j \in upto(j) /\ j \notin upto(i)
    <3>1. \A k \in kept : k \in Int
      OBVIOUS
    <3>2. \A k \in kept : k <= i => k <= j
      BY <1>4, <3>1
    <3>3. j <= j /\ ~(j <= i)
      BY <1>4, <3>1
    <3> QED  BY <3>2, <3>3
  <2>2. Cardinality(upto(i)) < Cardinality(upto(j))
    <3>1. upto(i) \subseteq upto(j) \ {j} /\ Cardinality(upto(j) \ {j}) = Cardinality(upto(j)) - 1
      BY <1>2, <2>1, FS_RemoveElement
    <3>2. IsFiniteSet(upto(j) \ {j})
      BY <1>2, FS_Subset
    <3>3. Cardinality(upto(i)) <= Cardinality(upto(j) \ {j})
      BY <3>1, <3>2, FS_Subset
    <3> QED  BY <1>2, <3>1, <3>3
  <2> QED  BY <2>2
<1>5. place \in Bijection(kept, 1 .. Cardinality(kept))
  <2>1. place \in [kept -> 1 .. Cardinality(kept)]
    BY <1>3
  <2>2. \A i, j \in kept : place[i] = place[j] => i = j
    <3> SUFFICES ASSUME NEW i \in kept, NEW j \in kept, place[i] = place[j] PROVE i = j
      OBVIOUS
    <3>1. place[i] \in Nat /\ place[j] \in Nat /\ i \in Nat /\ j \in Nat
      BY <1>1, <1>3
    <3> QED  BY <1>4, <3>1
  <2>3. place \in Injection(kept, 1 .. Cardinality(kept))
    BY <2>1, <2>2 DEF Injection, IsInjective
  <2>4. IsFiniteSet(1 .. Cardinality(kept)) /\ Cardinality(1 .. Cardinality(kept)) = Cardinality(kept)
    BY <1>1, FS_Interval
  <2>5. place \in Surjection(kept, 1 .. Cardinality(kept))
    BY <1>1, <2>3, <2>4, FS_Injection
  <2> QED  BY <2>3, <2>5 DEF Bijection
<1>6. \A n \in 1 .. Cardinality(kept) : \E i \in kept : place[i] = n
  BY <1>5 DEF Bijection, Surjection
<1> QED  BY <1>1, <1>3, <1>4, <1>6

-----------------------------------------------------------------------------
(* The host's dashboard (HostDesk).  A list that has the rows of a set and *)
(* each of them once.                                                      *)

Lists(s, S) ==
    /\ s \in Seq(S)
    /\ \A i, j \in 1 .. Len(s) : s[i] = s[j] => i = j
    /\ \A r \in S : \E i \in 1 .. Len(s) : s[i] = r

Only(cond, id) == IF cond THEN {Desk!Row(id, 0)} ELSE {}

LEMMA ListsOne == ASSUME NEW cond, NEW id PROVE Lists(Desk!One(cond, id), Only(cond, id))
<1>1. CASE cond
  <2>1. Desk!One(cond, id) = <<Desk!Row(id, 0)>> /\ Only(cond, id) = {Desk!Row(id, 0)}
    BY <1>1 DEF Desk!One, Only, Desk!NoDay
  <2> QED  BY <2>1 DEF Lists
<1>2. CASE ~cond
  <2>1. Desk!One(cond, id) = <<>> /\ Only(cond, id) = {}
    BY <1>2 DEF Desk!One, Only
  <2> QED  BY <2>1 DEF Lists
<1> QED  BY <1>1, <1>2

LEMMA DeskCardinality == \A S : Desk!Cardinality(S) = Cardinality(S)
  BY DEF Desk!Cardinality, Cardinality

LEMMA ListsEach ==
    ASSUME NEW N \in Nat, NEW S \in SUBSET (1 .. N), NEW id
    PROVE  Lists(Desk!Each(id, S), {Desk!Row(id, x) : x \in S})
<1> DEFINE place == [x \in S |-> Cardinality({y \in S : y <= x})]
           at(n) == CHOOSE x \in S : place[x] = n
           rowsOf == Desk!Each(id, S)
           all == {Desk!Row(id, x) : x \in S}
<1>1. /\ Cardinality(S) \in Nat
      /\ \A x \in S : place[x] \in 1 .. Cardinality(S)
      /\ \A x, y \in S : x < y => place[x] < place[y]
      /\ \A n \in 1 .. Cardinality(S) : \E x \in S : place[x] = n
  BY PlacesAreTaken
<1>2. rowsOf = [n \in 1 .. Cardinality(S) |-> Desk!Row(id, at(n))]
  <2> DEFINE upto(x) == {y \in S : y <= x}
             there == [x \in S |-> Desk!Cardinality(upto(x))]
  <2>1. there = place
    <3>1. \A x \in S : Desk!Cardinality(upto(x)) = Cardinality(upto(x))
      BY DeskCardinality
    <3> HIDE DEF upto
    <3>2. there = [x \in S |-> Cardinality(upto(x))]
      BY <3>1
    <3> QED  BY <3>2 DEF upto
  <2>2. rowsOf = [n \in 1 .. Desk!Cardinality(S) |-> Desk!Row(id, CHOOSE x \in S : there[x] = n)]
    BY DEF Desk!Each
  <2>3. Desk!Cardinality(S) = Cardinality(S)
    BY DeskCardinality
  <2> HIDE DEF there, place, rowsOf
  <2> QED  BY <2>1, <2>2, <2>3
<1>3. \A n \in 1 .. Cardinality(S) : at(n) \in S /\ place[at(n)] = n
  <2> HIDE DEF place
  <2> QED  BY <1>1
<1>4. ASSUME NEW x \in S PROVE place[x] \in 1 .. Cardinality(S) /\ at(place[x]) = x
  <2>1. place[x] \in 1 .. Cardinality(S)
    BY <1>1
  <2>2. at(place[x]) \in S /\ place[at(place[x])] = place[x]
    BY <1>3, <2>1
  <2>3. \A y \in S : y \in Int
    OBVIOUS
  <2>4. at(place[x]) = x
    <3> DEFINE other == at(place[x])
    <3>1. other \in S /\ place[other] = place[x] /\ other \in Int /\ x \in Int
      BY <2>2, <2>3
    <3> HIDE DEF other, place
    <3>2. ~(other < x) /\ ~(x < other)
      BY <1>1, <3>1, <2>1
    <3>3. other = x
      BY <3>1, <3>2
    <3> QED  BY <3>3 DEF other
  <2> QED  BY <2>1, <2>4
<1>5. \A x, y : Desk!Row(id, x) = Desk!Row(id, y) => x = y
  <2>1. \A x : Desk!Row(id, x).task = x
    BY DEF Desk!Row
  <2> QED  BY <2>1
<1>6. \A x \in S : Desk!Row(id, x) \in all
  OBVIOUS
<1>7. \A r \in all : \E x \in S : r = Desk!Row(id, x)
  OBVIOUS
<1> HIDE DEF place, at, all
<1>8. rowsOf \in Seq(all) /\ Len(rowsOf) = Cardinality(S) /\ \A n \in 1 .. Cardinality(S) : rowsOf[n] = Desk!Row(id, at(n))
  <2>1. \A n \in 1 .. Cardinality(S) : Desk!Row(id, at(n)) \in all
    BY <1>3, <1>6
  <2> HIDE DEF rowsOf
  <2> QED  BY <1>1, <1>2, <2>1
<1> HIDE DEF rowsOf
<1>9. ASSUME NEW r \in all PROVE \E i \in 1 .. Len(rowsOf) : rowsOf[i] = r
  <2>1. PICK x \in S : r = Desk!Row(id, x)
    BY <1>7
  <2> QED  BY <1>4, <1>8, <2>1
<1>10. ASSUME NEW i \in 1 .. Len(rowsOf), NEW j \in 1 .. Len(rowsOf), rowsOf[i] = rowsOf[j] PROVE i = j
  <2>1. at(i) = at(j)
    BY <1>5, <1>8, <1>10
  <2> QED  BY <1>3, <1>8, <2>1
<1>11. Lists(rowsOf, all)
  BY <1>8, <1>9, <1>10 DEF Lists
<1> QED  BY <1>11 DEF rowsOf, all

LEMMA ListsJoin ==
    ASSUME NEW s, NEW S, NEW t, NEW T, Lists(s, S), Lists(t, T), S \cap T = {}
    PROVE  Lists(s \o t, S \cup T)
<1>1. s \in Seq(S) /\ t \in Seq(T) /\ s \in Seq(S \cup T) /\ t \in Seq(S \cup T) /\ Len(s) \in Nat /\ Len(t) \in Nat
  BY DEF Lists
<1>2. /\ \A i \in 1 .. Len(s) : s[i] \in S
      /\ \A i \in 1 .. Len(t) : t[i] \in T
  BY <1>1
<1>3. /\ s \o t \in Seq(S \cup T) /\ Len(s \o t) = Len(s) + Len(t)
      /\ \A i \in 1 .. Len(s) + Len(t) : (s \o t)[i] = IF i <= Len(s) THEN s[i] ELSE t[i - Len(s)]
  BY <1>1
<1>4. ASSUME NEW i \in 1 .. Len(s \o t), NEW j \in 1 .. Len(s \o t), (s \o t)[i] = (s \o t)[j] PROVE i = j
  <2>1. CASE i <= Len(s) /\ j <= Len(s)
    <3>1. i \in 1 .. Len(s) /\ j \in 1 .. Len(s) /\ s[i] = s[j]
      BY <1>1, <1>3, <1>4, <2>1
    <3> QED  BY <3>1 DEF Lists
  <2>2. CASE i > Len(s) /\ j > Len(s)
    <3>1. i - Len(s) \in 1 .. Len(t) /\ j - Len(s) \in 1 .. Len(t) /\ t[i - Len(s)] = t[j - Len(s)]
      BY <1>1, <1>3, <1>4, <2>2
    <3>2. i - Len(s) = j - Len(s)
      BY <3>1 DEF Lists
    <3> QED  BY <1>1, <1>3, <3>2
  <2>3. CASE i <= Len(s) /\ j > Len(s)
    <3>1. i \in 1 .. Len(s) /\ j - Len(s) \in 1 .. Len(t) /\ s[i] = t[j - Len(s)]
      BY <1>1, <1>3, <1>4, <2>3
    <3> QED  BY <1>2, <3>1
  <2>4. CASE i > Len(s) /\ j <= Len(s)
    <3>1. j \in 1 .. Len(s) /\ i - Len(s) \in 1 .. Len(t) /\ s[j] = t[i - Len(s)]
      BY <1>1, <1>3, <1>4, <2>4
    <3> QED  BY <1>2, <3>1
  <2> QED  BY <1>1, <1>3, <2>1, <2>2, <2>3, <2>4
<1>5. ASSUME NEW r \in S \cup T PROVE \E i \in 1 .. Len(s \o t) : (s \o t)[i] = r
  <2>1. CASE r \in S
    <3>1. PICK i \in 1 .. Len(s) : s[i] = r
      BY <2>1 DEF Lists
    <3>2. i \in 1 .. Len(s \o t) /\ (s \o t)[i] = r
      BY <1>1, <1>3, <3>1
    <3> QED  BY <3>2
  <2>2. CASE r \in T
    <3>1. PICK i \in 1 .. Len(t) : t[i] = r
      BY <2>2 DEF Lists
    <3>2. i + Len(s) \in 1 .. Len(s \o t) /\ (s \o t)[i + Len(s)] = r
      BY <1>1, <1>3, <3>1
    <3> QED  BY <3>2
  <2> QED  BY <2>1, <2>2
<1> QED  BY <1>3, <1>4, <1>5 DEF Lists

LEMMA ListsElements ==
    ASSUME NEW s, NEW S, Lists(s, S)
    PROVE  /\ Desk!Elements(s) = S /\ Len(s) \in Nat /\ (Len(s) = 0 <=> S = {}) /\ (s = <<>> <=> S = {})
           /\ \A i, j \in DOMAIN s : s[i] = s[j] => i = j
<1>1. s \in Seq(S) /\ DOMAIN s = 1 .. Len(s) /\ Len(s) \in Nat
  BY DEF Lists
<1>2. Desk!Elements(s) = S
  BY <1>1 DEF Lists, Desk!Elements
<1>3. Len(s) = 0 <=> S = {}
  BY <1>1 DEF Lists
<1> QED  BY <1>1, <1>2, <1>3 DEF Lists

\* What the rows of the dashboard are rows of.
Ranked0 == {x \in 1 .. Ranked : x \notin off /\ Desk!isDoneCollecting(x) /\ collected[x] = "shown" /\ x \notin awarded}
RankSet == {Desk!Row("rank-award", x) : x \in Ranked0}
ManualSet(value) == {Desk!Row("manual", x) : x \in {x \in 1 .. Items : checked[x] = value}}
DailySet(state) ==
    LET todays == Desk!hasChallengeOn(eventDay)
        tomorrows == Desk!hasChallengeOn(eventDay + 1)
        due == IF state = "open" THEN ~todays ELSE todays
        next == IF state = "open" THEN todays /\ ~tomorrows ELSE todays /\ tomorrows
    IN  Only(Desk!configSet /\ due, "daily-today") \cup Only(Desk!configSet /\ next, "daily-tomorrow")
OpenSet ==
    Only(~Desk!configSet, "config") \cup DailySet("open") \cup Only(~scheduled, "flash") \cup RankSet
        \cup Only(\E t \in 1 .. Ranked : collected[t] = "again", "resubmitted")
DoneSet ==
    DailySet("done") \cup Only(scheduled, "flash") \cup Only(1 .. Ranked # off, "tasks-live") \cup ManualSet(TRUE)

\* The rows of a set are of these kinds.
Of(S, I) == \A r \in S : r.id \in I

LEMMA OfOnly == ASSUME NEW cond, NEW id PROVE Of(Only(cond, id), {id}) /\ (Only(cond, id) = {} <=> ~cond)
<1>1. \A t : Desk!Row(id, t).id = id
  BY DEF Desk!Row
<1>2. CASE cond
  BY <1>1, <1>2 DEF Only, Of
<1>3. CASE ~cond
  BY <1>3 DEF Only, Of
<1> QED  BY <1>2, <1>3

LEMMA OfEach == ASSUME NEW S, NEW id PROVE Of({Desk!Row(id, x) : x \in S}, {id})
<1>1. \A t : Desk!Row(id, t).id = id
  BY DEF Desk!Row
<1> QED  BY <1>1 DEF Of

LEMMA OfUnion ==
    ASSUME NEW S, NEW T, NEW I, NEW J, Of(S, I), Of(T, J) PROVE Of(S \cup T, I \cup J)
  BY DEF Of

LEMMA OfApart ==
    ASSUME NEW S, NEW T, NEW I, NEW J, Of(S, I), Of(T, J), I \cap J = {} PROVE S \cap T = {}
  BY DEF Of

\* Lists of rows of different kinds, one after the other.
LEMMA ListsApart ==
    ASSUME NEW s, NEW S, NEW t, NEW T, NEW I, NEW J, Lists(s, S), Lists(t, T), Of(S, I), Of(T, J), I \cap J = {}
    PROVE  Lists(s \o t, S \cup T) /\ Of(S \cup T, I \cup J)
  BY OfUnion, OfApart, ListsJoin

LEMMA DailyLists ==
    ASSUME NEW state \in {"open", "done"}
    PROVE  Lists(Desk!dailyRows(state), DailySet(state)) /\ Of(DailySet(state), {"daily-today", "daily-tomorrow"})
<1> DEFINE todays == Desk!hasChallengeOn(eventDay)
           tomorrows == Desk!hasChallengeOn(eventDay + 1)
           due == IF state = "open" THEN ~todays ELSE todays
           next == IF state = "open" THEN todays /\ ~tomorrows ELSE todays /\ tomorrows
<1> HIDE DEF todays, tomorrows
<1>1. /\ Lists(Desk!One(due, "daily-today"), Only(due, "daily-today")) /\ Of(Only(due, "daily-today"), {"daily-today"})
      /\ Lists(Desk!One(next, "daily-tomorrow"), Only(next, "daily-tomorrow"))
      /\ Of(Only(next, "daily-tomorrow"), {"daily-tomorrow"})
  BY ListsOne, OfOnly
<1>2. /\ Lists(Desk!One(due, "daily-today") \o Desk!One(next, "daily-tomorrow"),
               Only(due, "daily-today") \cup Only(next, "daily-tomorrow"))
      /\ Of(Only(due, "daily-today") \cup Only(next, "daily-tomorrow"), {"daily-today"} \cup {"daily-tomorrow"})
  <2>1. {"daily-today"} \cap {"daily-tomorrow"} = {}
    OBVIOUS
  <2> HIDE DEF due, next
  <2> QED  BY <1>1, <2>1, ListsApart
<1>3. {"daily-today"} \cup {"daily-tomorrow"} = {"daily-today", "daily-tomorrow"}
  OBVIOUS
<1>4. CASE Desk!configSet
  <2>1. Desk!dailyRows(state) = Desk!One(due, "daily-today") \o Desk!One(next, "daily-tomorrow")
    <3>1. CASE state = "open"
      BY <1>4, <3>1 DEF Desk!dailyRows, todays, tomorrows
    <3>2. CASE state = "done"
      BY <1>4, <3>2 DEF Desk!dailyRows, todays, tomorrows
    <3> QED  BY <3>1, <3>2
  <2>2. DailySet(state) = Only(due, "daily-today") \cup Only(next, "daily-tomorrow")
    BY <1>4 DEF DailySet, todays, tomorrows, Only
  <2> HIDE DEF due, next
  <2> QED  BY <1>2, <1>3, <2>1, <2>2
<1>5. CASE ~Desk!configSet
  <2>1. Desk!dailyRows(state) = <<>>
    BY <1>5 DEF Desk!dailyRows
  <2>2. DailySet(state) = {}
    BY <1>5 DEF DailySet, Only
  <2> QED  BY <2>1, <2>2 DEF Lists, Of
<1> QED  BY <1>4, <1>5

LEMMA RankLists ==
    ASSUME Ranked \in Nat PROVE Lists(Desk!rankRows, RankSet) /\ Of(RankSet, {"rank-award"})
<1>1. Desk!rankRows = Desk!Each("rank-award", Ranked0)
  <2> DEFINE due == {t \in (1 .. Ranked) \ off : Desk!isDoneCollecting(t) /\ collected[t] = "shown" /\ t \notin awarded}
  <2>1. due = Ranked0
    BY DEF Ranked0
  <2>2. Desk!rankRows = Desk!Each("rank-award", due)
    BY DEF Desk!rankRows
  <2> HIDE DEF due
  <2> QED  BY <2>1, <2>2
<1>2. Ranked0 \in SUBSET (1 .. Ranked)
  BY DEF Ranked0
<1>3. RankSet = {Desk!Row("rank-award", x) : x \in Ranked0}
  BY DEF RankSet
<1> QED  BY <1>1, <1>2, <1>3, ListsEach, OfEach

LEMMA ManualLists ==
    ASSUME Items \in Nat, NEW value
    PROVE  Lists(Desk!Manual(value), ManualSet(value)) /\ Of(ManualSet(value), {"manual"})
<1> DEFINE mine == {x \in 1 .. Items : checked[x] = value}
<1>1. Desk!Manual(value) = Desk!Each("manual", mine) /\ ManualSet(value) = {Desk!Row("manual", x) : x \in mine}
  BY DEF Desk!Manual, ManualSet
<1>2. mine \in SUBSET (1 .. Items)
  OBVIOUS
<1> HIDE DEF mine
<1> QED  BY <1>1, <1>2, ListsEach, OfEach

OpenKinds == {"config", "daily-today", "daily-tomorrow", "flash", "rank-award", "resubmitted"}

LEMMA OpenLists ==
    ASSUME Ranked \in Nat PROVE Lists(Desk!openRows, OpenSet) /\ Of(OpenSet, OpenKinds)
<1> DEFINE again == \E t \in 1 .. Ranked : collected[t] = "again"
           a == Desk!One(~Desk!configSet, "config")
           b == Desk!dailyRows("open")
           c == Desk!One(~scheduled, "flash")
           d == Desk!rankRows
           e == Desk!One(again, "resubmitted")
           A == Only(~Desk!configSet, "config")
           B == DailySet("open")
           C == Only(~scheduled, "flash")
           D == RankSet
           E == Only(again, "resubmitted")
<1>1. /\ Lists(a, A) /\ Of(A, {"config"})
      /\ Lists(b, B) /\ Of(B, {"daily-today", "daily-tomorrow"})
      /\ Lists(c, C) /\ Of(C, {"flash"})
      /\ Lists(d, D) /\ Of(D, {"rank-award"})
      /\ Lists(e, E) /\ Of(E, {"resubmitted"})
  BY ListsOne, OfOnly, DailyLists, RankLists
<1>2. Desk!openRows = a \o b \o c \o d \o e /\ OpenSet = A \cup B \cup C \cup D \cup E
  BY DEF Desk!openRows, OpenSet
<1> HIDE DEF a, b, c, d, e, A, B, C, D, E
<1>3. Lists(a \o b, A \cup B) /\ Of(A \cup B, {"config"} \cup {"daily-today", "daily-tomorrow"})
  <2>1. {"config"} \cap {"daily-today", "daily-tomorrow"} = {}
    OBVIOUS
  <2> QED  BY <1>1, <2>1, ListsApart
<1>4. /\ Lists(a \o b \o c, A \cup B \cup C)
      /\ Of(A \cup B \cup C, {"config", "daily-today", "daily-tomorrow", "flash"})
  <2>1. ({"config"} \cup {"daily-today", "daily-tomorrow"}) \cap {"flash"} = {}
    OBVIOUS
  <2>2. ({"config"} \cup {"daily-today", "daily-tomorrow"}) \cup {"flash"} = {"config", "daily-today", "daily-tomorrow", "flash"}
    OBVIOUS
  <2>3. /\ Lists(a \o b \o c, A \cup B \cup C)
        /\ Of(A \cup B \cup C, ({"config"} \cup {"daily-today", "daily-tomorrow"}) \cup {"flash"})
    BY <1>1, <1>3, <2>1, ListsApart
  <2> QED  BY <2>2, <2>3
<1>5. /\ Lists(a \o b \o c \o d, A \cup B \cup C \cup D)
      /\ Of(A \cup B \cup C \cup D, {"config", "daily-today", "daily-tomorrow", "flash"} \cup {"rank-award"})
  <2>1. {"config", "daily-today", "daily-tomorrow", "flash"} \cap {"rank-award"} = {}
    OBVIOUS
  <2> QED  BY <1>1, <1>4, <2>1, ListsApart
<1>6. /\ Lists(a \o b \o c \o d \o e, A \cup B \cup C \cup D \cup E)
      /\ Of(A \cup B \cup C \cup D \cup E,
            ({"config", "daily-today", "daily-tomorrow", "flash"} \cup {"rank-award"}) \cup {"resubmitted"})
  <2>1. ({"config", "daily-today", "daily-tomorrow", "flash"} \cup {"rank-award"}) \cap {"resubmitted"} = {}
    OBVIOUS
  <2> QED  BY <1>1, <1>5, <2>1, ListsApart
<1>7. ({"config", "daily-today", "daily-tomorrow", "flash"} \cup {"rank-award"}) \cup {"resubmitted"} = OpenKinds
  BY DEF OpenKinds
<1> QED  BY <1>2, <1>6, <1>7

DoneKinds == {"daily-today", "daily-tomorrow", "flash", "tasks-live", "manual"}

LEMMA DoneLists ==
    ASSUME Items \in Nat PROVE Lists(Desk!doneRows, DoneSet) /\ Of(DoneSet, DoneKinds)
<1> DEFINE a == Desk!dailyRows("done")
           b == Desk!One(scheduled, "flash")
           c == Desk!One(1 .. Ranked # off, "tasks-live")
           d == Desk!Manual(TRUE)
           A == DailySet("done")
           B == Only(scheduled, "flash")
           C == Only(1 .. Ranked # off, "tasks-live")
           D == ManualSet(TRUE)
<1>1. /\ Lists(a, A) /\ Of(A, {"daily-today", "daily-tomorrow"})
      /\ Lists(b, B) /\ Of(B, {"flash"})
      /\ Lists(c, C) /\ Of(C, {"tasks-live"})
      /\ Lists(d, D) /\ Of(D, {"manual"})
  BY ListsOne, OfOnly, DailyLists, ManualLists
<1>2. Desk!doneRows = a \o b \o c \o d /\ DoneSet = A \cup B \cup C \cup D
  BY DEF Desk!doneRows, DoneSet
<1> HIDE DEF a, b, c, d, A, B, C, D
<1>3. Lists(a \o b, A \cup B) /\ Of(A \cup B, {"daily-today", "daily-tomorrow"} \cup {"flash"})
  <2>1. {"daily-today", "daily-tomorrow"} \cap {"flash"} = {}
    OBVIOUS
  <2> QED  BY <1>1, <2>1, ListsApart
<1>4. /\ Lists(a \o b \o c, A \cup B \cup C)
      /\ Of(A \cup B \cup C, ({"daily-today", "daily-tomorrow"} \cup {"flash"}) \cup {"tasks-live"})
  <2>1. ({"daily-today", "daily-tomorrow"} \cup {"flash"}) \cap {"tasks-live"} = {}
    OBVIOUS
  <2> QED  BY <1>1, <1>3, <2>1, ListsApart
<1>5. /\ Lists(a \o b \o c \o d, A \cup B \cup C \cup D)
      /\ Of(A \cup B \cup C \cup D, (({"daily-today", "daily-tomorrow"} \cup {"flash"}) \cup {"tasks-live"}) \cup {"manual"})
  <2>1. (({"daily-today", "daily-tomorrow"} \cup {"flash"}) \cup {"tasks-live"}) \cap {"manual"} = {}
    OBVIOUS
  <2> QED  BY <1>1, <1>4, <2>1, ListsApart
<1>6. (({"daily-today", "daily-tomorrow"} \cup {"flash"}) \cup {"tasks-live"}) \cup {"manual"} = DoneKinds
  BY DEF DoneKinds
<1> QED  BY <1>2, <1>5, <1>6

\* A row says what is open or what is done, never both.
LEMMA OpenOrDone == (OpenSet \cup ManualSet(FALSE)) \cap DoneSet = {}
<1>1. \A id, x : Desk!Row(id, x).id = id /\ Desk!Row(id, x).task = x
  BY DEF Desk!Row
<1>2. \A cond, id : \A r \in Only(cond, id) : cond /\ r.id = id
  BY <1>1 DEF Only
<1>3. \A r \in RankSet : r.id = "rank-award"
  BY <1>1 DEF RankSet
<1>4. \A value : \A r \in ManualSet(value) : r.id = "manual" /\ checked[r.task] = value
  BY <1>1 DEF ManualSet
<1> DEFINE todays == Desk!hasChallengeOn(eventDay)
           tomorrows == Desk!hasChallengeOn(eventDay + 1)
<1>5. ASSUME NEW r \in DailySet("open")
      PROVE  (r.id = "daily-today" /\ ~todays) \/ (r.id = "daily-tomorrow" /\ todays /\ ~tomorrows)
  BY <1>2 DEF DailySet
<1>6. ASSUME NEW r \in DailySet("done")
      PROVE  (r.id = "daily-today" /\ todays) \/ (r.id = "daily-tomorrow" /\ todays /\ tomorrows)
  BY <1>2 DEF DailySet
<1> HIDE DEF todays, tomorrows
<1>7. ASSUME NEW r \in OpenSet \cup ManualSet(FALSE)
      PROVE  \/ r.id \in {"config", "rank-award", "resubmitted"}
             \/ r.id = "flash" /\ ~scheduled
             \/ r.id = "manual" /\ checked[r.task] = FALSE
             \/ r.id = "daily-today" /\ ~todays
             \/ r.id = "daily-tomorrow" /\ todays /\ ~tomorrows
  <2>1. CASE r \in Only(~Desk!configSet, "config") \/ r \in Only(\E t \in 1 .. Ranked : collected[t] = "again", "resubmitted")
    BY <1>2, <2>1
  <2>2. CASE r \in DailySet("open")
    BY <1>5, <2>2
  <2>3. CASE r \in Only(~scheduled, "flash")
    BY <1>2, <2>3
  <2>4. CASE r \in RankSet
    BY <1>3, <2>4
  <2>5. CASE r \in ManualSet(FALSE)
    BY <1>4, <2>5
  <2> QED  BY <2>1, <2>2, <2>3, <2>4, <2>5 DEF OpenSet
<1>8. ASSUME NEW r \in DoneSet
      PROVE  \/ r.id = "flash" /\ scheduled
             \/ r.id = "tasks-live"
             \/ r.id = "manual" /\ checked[r.task] = TRUE
             \/ r.id = "daily-today" /\ todays
             \/ r.id = "daily-tomorrow" /\ todays /\ tomorrows
  <2>1. CASE r \in DailySet("done")
    BY <1>6, <2>1
  <2>2. CASE r \in Only(scheduled, "flash") \/ r \in Only(1 .. Ranked # off, "tasks-live")
    BY <1>2, <2>2
  <2>3. CASE r \in ManualSet(TRUE)
    BY <1>4, <2>3
  <2> QED  BY <2>1, <2>2, <2>3 DEF DoneSet
<1> QED  BY <1>7, <1>8

Free == OpenSet = {} /\ ManualSet(FALSE) = {} /\ ~bugs

\* What the whole list is.
LEMMA BuildLists ==
    ASSUME Ranked \in Nat, Items \in Nat
    PROVE  Lists(Desk!buildRows, Only(bugs, "bugs") \cup OpenSet \cup ManualSet(FALSE) \cup Only(Free, "tip") \cup DoneSet)
<1> DEFINE a == Desk!pinned
           b == Desk!openRows
           c == Desk!Manual(FALSE)
           d == Desk!tipRows
           e == Desk!doneRows
           A == Only(bugs, "bugs")
           B == OpenSet
           C == ManualSet(FALSE)
           D == Only(Free, "tip")
           E == DoneSet
<1>1. /\ Lists(a, A) /\ Of(A, {"bugs"})
      /\ Lists(b, B) /\ Of(B, OpenKinds)
      /\ Lists(c, C) /\ Of(C, {"manual"})
      /\ Lists(e, E) /\ Of(E, DoneKinds)
  BY ListsOne, OfOnly, OpenLists, ManualLists, DoneLists DEF Desk!pinned
<1>2. /\ Len(a) \in Nat /\ (Len(a) = 0 <=> A = {}) /\ (a = <<>> <=> A = {}) /\ (A = {} <=> ~bugs)
      /\ Len(b) \in Nat /\ (Len(b) = 0 <=> B = {}) /\ (b = <<>> <=> B = {})
      /\ Len(c) \in Nat /\ (Len(c) = 0 <=> C = {}) /\ (c = <<>> <=> C = {})
  BY <1>1, ListsElements, OfOnly
<1>3. Lists(d, D) /\ Of(D, {"tip"})
  <2>1. Desk!tipRows = Desk!One(b = <<>> /\ c = <<>> /\ a = <<>>, "tip")
    BY DEF Desk!tipRows
  <2>2. (b = <<>> /\ c = <<>> /\ a = <<>>) <=> Free
    BY <1>2 DEF Free
  <2>3. d = Desk!One(Free, "tip")
    BY <2>1, <2>2 DEF Desk!One
  <2> QED  BY <2>3, ListsOne, OfOnly
<1>4. Desk!buildRows = a \o b \o c \o d \o e
  BY DEF Desk!buildRows
<1>6. (B \cup C) \cap E = {}
  BY OpenOrDone
<1> HIDE DEF a, b, c, d, e, A, B, C, D, E
<1>8. Lists(a \o b, A \cup B) /\ Of(A \cup B, {"bugs"} \cup OpenKinds)
  <2>1. {"bugs"} \cap OpenKinds = {}
    BY DEF OpenKinds
  <2> QED  BY <1>1, <2>1, ListsApart
<1>9. Lists(a \o b \o c, A \cup B \cup C) /\ Of(A \cup B \cup C, ({"bugs"} \cup OpenKinds) \cup {"manual"})
  <2>1. ({"bugs"} \cup OpenKinds) \cap {"manual"} = {}
    BY DEF OpenKinds
  <2> QED  BY <1>1, <1>8, <2>1, ListsApart
<1>10. Lists(a \o b \o c \o d, A \cup B \cup C \cup D)
  <2>1. (({"bugs"} \cup OpenKinds) \cup {"manual"}) \cap {"tip"} = {}
    BY DEF OpenKinds
  <2> QED  BY <1>3, <1>9, <2>1, ListsApart
<1>11. (A \cup B \cup C \cup D) \cap E = {}
  <2>1. A \cap E = {} /\ D \cap E = {}
    <3>1. {"bugs"} \cap DoneKinds = {} /\ {"tip"} \cap DoneKinds = {}
      BY DEF DoneKinds
    <3> QED  BY <1>1, <1>3, <3>1, OfApart
  <2> QED  BY <1>6, <2>1
<1>12. Lists(a \o b \o c \o d \o e, A \cup B \cup C \cup D \cup E)
  BY <1>1, <1>10, <1>11, ListsJoin
<1> QED  BY <1>4, <1>12 DEF A, B, C, D, E

-----------------------------------------------------------------------------
(* The invariant of the desk.  The types, what the night leaves due, and    *)
(* the clauses about the configuration, which are inductive as they stand.  *)

Configuration == [zone : Int, start : Int, end : Int, ceremony : Int, thresholds : {"absent", "ordered", "unordered"}]

DeskTypes ==
    /\ eventDay \in Int
    /\ settings \in Configuration
    /\ special_date \in [1 .. Ranked -> Int]
    /\ checked \in [1 .. Items -> BOOLEAN] /\ rendered \in [1 .. Items -> BOOLEAN]

DueStays == Desk!RankRows(before) \subseteq OpenSet

DeskInv == DeskTypes /\ DueStays /\ checked = wanted /\ Desk!ConfigHoldsTogether

\* No row is left open exactly when the host is free.
LEMMA FreeIsFree ==
    ASSUME Ranked \in Nat, Items \in Nat, DeskInv PROVE Desk!HostIsFree <=> Free
<1> DEFINE todays == Desk!hasChallengeOn(eventDay)
           tomorrows == Desk!hasChallengeOn(eventDay + 1)
           again == \E t \in 1 .. Ranked : collected[t] = "again"
           ticked == \A m \in 1 .. Items : wanted[m]
<1>1. DailySet("open") = Only(Desk!configSet /\ ~todays, "daily-today")
                             \cup Only(Desk!configSet /\ todays /\ ~tomorrows, "daily-tomorrow")
  BY DEF DailySet
<1>2. RankSet = {} <=> Ranked0 = {}
  BY DEF RankSet
<1>3. ManualSet(FALSE) = {} <=> ticked
  <2>1. checked = wanted /\ checked \in [1 .. Items -> BOOLEAN]
    BY DEF DeskInv, DeskTypes
  <2>2. ManualSet(FALSE) = {} <=> \A m \in 1 .. Items : checked[m] # FALSE
    BY DEF ManualSet
  <2>3. \A m \in 1 .. Items : checked[m] # FALSE <=> checked[m] = TRUE
    BY <2>1
  <2> QED  BY <2>1, <2>2, <2>3
<1>4. Desk!HostIsFree <=>
          /\ Desk!configSet /\ todays /\ tomorrows /\ scheduled /\ ~bugs /\ ~again /\ ticked
          /\ \A t \in 1 .. Ranked : collected[t] = "shown" /\ Desk!LastDay(t) < eventDay => t \in off \cup awarded
  <2>1. (\A day \in {eventDay, eventDay + 1} : \E t \in 1 .. Ranked : special_date[t] = day) <=> todays /\ tomorrows
    BY DEF Desk!hasChallengeOn
  <2>2. Desk!configSet <=> settings.zone # Desk!NoDay /\ settings.start # Desk!NoDay /\ settings.end # Desk!NoDay
    BY DEF Desk!configSet
  <2> HIDE DEF todays, tomorrows
  <2> QED  BY <2>1, <2>2, Zenon DEF Desk!HostIsFree
<1>5. ASSUME Desk!configSet, NEW t \in 1 .. Ranked
      PROVE  Desk!isDoneCollecting(t) <=> Desk!LastDay(t) < eventDay
  <2>1. settings.end # 0
    BY <1>5 DEF Desk!configSet, Desk!NoDay
  <2> QED  BY <2>1 DEF Desk!isDoneCollecting, Desk!eventOver, Desk!LastDay, Desk!NoDay
<1>6. ASSUME Desk!configSet
      PROVE  Ranked0 = {} <=> \A t \in 1 .. Ranked : collected[t] = "shown" /\ Desk!LastDay(t) < eventDay
                                                         => t \in off \cup awarded
  BY <1>5, <1>6 DEF Ranked0
<1> HIDE DEF todays, tomorrows, again, ticked
<1>7. OpenSet = {} <=> /\ Desk!configSet /\ todays /\ tomorrows /\ scheduled /\ ~again /\ Ranked0 = {}
  <2>1. OpenSet = {} <=> /\ Only(~Desk!configSet, "config") = {} /\ DailySet("open") = {}
                         /\ Only(~scheduled, "flash") = {} /\ RankSet = {} /\ Only(again, "resubmitted") = {}
    BY DEF OpenSet, again
  <2>2. /\ Only(~Desk!configSet, "config") = {} <=> Desk!configSet
        /\ Only(~scheduled, "flash") = {} <=> ~~scheduled
        /\ Only(again, "resubmitted") = {} <=> ~again
        /\ Only(Desk!configSet /\ ~todays, "daily-today") = {} <=> ~(Desk!configSet /\ ~todays)
        /\ Only(Desk!configSet /\ todays /\ ~tomorrows, "daily-tomorrow") = {} <=> ~(Desk!configSet /\ todays /\ ~tomorrows)
    <3>1. Only(~Desk!configSet, "config") = {} <=> ~~Desk!configSet
      BY OfOnly
    <3> QED  BY <3>1, OfOnly
  <2>3. DailySet("open") = {} <=> ~(Desk!configSet /\ ~todays) /\ ~(Desk!configSet /\ todays /\ ~tomorrows)
    BY <1>1, <2>2
  <2> QED  BY <1>2, <2>1, <2>2, <2>3
<1> QED  BY <1>3, <1>4, <1>6, <1>7 DEF Free

LEMMA DeskInvTells ==
    ASSUME Ranked \in Nat, Items \in Nat, DeskInv PROVE Desk!DeskKeepsItsWord
<1>1. Desk!HostIsFree <=> \E r \in Desk!Elements(Desk!buildRows) : r.id = "tip"
  <2>1. Desk!Elements(Desk!buildRows) = Only(bugs, "bugs") \cup OpenSet \cup ManualSet(FALSE) \cup Only(Free, "tip") \cup DoneSet
    BY BuildLists, ListsElements
  <2>2. Of(Only(bugs, "bugs"), {"bugs"}) /\ Of(OpenSet, OpenKinds) /\ Of(ManualSet(FALSE), {"manual"})
        /\ Of(Only(Free, "tip"), {"tip"}) /\ (Only(Free, "tip") = {} <=> ~Free) /\ Of(DoneSet, DoneKinds)
    BY OfOnly, OpenLists, ManualLists, DoneLists
  <2>3. \A r \in Only(bugs, "bugs") \cup OpenSet \cup ManualSet(FALSE) \cup DoneSet : r.id # "tip"
    BY <2>2 DEF Of, OpenKinds, DoneKinds
  <2>4. Desk!HostIsFree <=> Free
    BY FreeIsFree
  <2> HIDE DEF Free
  <2>5. CASE Free
    <3>1. PICK r \in Only(Free, "tip") : TRUE
      BY <2>2, <2>5
    <3>2. r.id = "tip" /\ r \in Desk!Elements(Desk!buildRows)
      BY <2>1, <2>2 DEF Of
    <3> QED  BY <2>4, <2>5, <3>2
  <2>6. CASE ~Free
    <3>1. Only(Free, "tip") = {}
      BY <2>2, <2>6
    <3>2. \A r \in Desk!Elements(Desk!buildRows) : r.id # "tip"
      BY <2>1, <2>3, <3>1
    <3> QED  BY <2>4, <2>6, <3>2
  <2> QED  BY <2>5, <2>6
<1>2. Desk!RankRows(before) \subseteq Desk!Elements(Desk!openRows)
  <2>1. Desk!Elements(Desk!openRows) = OpenSet
    BY OpenLists, ListsElements
  <2> QED  BY <2>1 DEF DeskInv, DueStays
<1>3. Desk!ConfigHoldsTogether
  BY DEF DeskInv
<1>4. Desk!ListLeadsOn
  BY <1>1, <1>2 DEF Desk!ListLeadsOn
<1> QED  BY <1>3, <1>4 DEF Desk!DeskKeepsItsWord

LEMMA DeskInitInv == ASSUME DeskAssumption, Desk!DeskInit PROVE DeskInv
<1>1. \A f \in DeskForms : /\ f.zone \in Nat /\ f.start \in Nat /\ f.end \in Nat /\ f.ceremony \in Nat
                           /\ f.thresholds \in {"absent", "ordered", "unordered"}
  BY DEF DeskAssumption
<1>2. /\ eventDay = 1 /\ special_date \in [1 .. Ranked -> Int] /\ checked \in [1 .. Items -> BOOLEAN]
      /\ rendered = checked /\ wanted = checked /\ saved = settings /\ torn = FALSE /\ before = {}
  <2>1. PICK ready \in BOOLEAN : /\ special_date = [t \in 1 .. Ranked |-> IF ready THEN t ELSE 0]
                                 /\ checked = [m \in 1 .. Items |-> ready]
    BY DEF Desk!DeskInit, Desk!NoDay
  <2>2. special_date \in [1 .. Ranked -> Int] /\ checked \in [1 .. Items -> BOOLEAN]
    BY <2>1
  <2> QED  BY <2>2 DEF Desk!DeskInit
<1>3. settings = Desk!Unset \/ \E f \in DeskForms : Desk!InOrder(f) /\ settings = Desk!Stored(f)
  BY DEF Desk!DeskInit
<1>4. settings \in Configuration /\ Desk!ConfigHoldsTogether
  <2>1. CASE settings = Desk!Unset
    <3>1. settings = [zone |-> 0, start |-> 0, end |-> 0, ceremony |-> 0, thresholds |-> "ordered"]
      BY <2>1 DEF Desk!Unset, Desk!NoDay
    <3> QED  BY <3>1 DEF Configuration, Desk!ConfigHoldsTogether, Desk!configSet, Desk!NoDay
  <2>2. CASE \E f \in DeskForms : Desk!InOrder(f) /\ settings = Desk!Stored(f)
    <3>1. PICK f \in DeskForms : Desk!InOrder(f) /\ settings = Desk!Stored(f)
      BY <2>2
    <3>2. settings = [zone |-> f.zone, start |-> f.start, end |-> f.end, ceremony |-> f.ceremony, thresholds |-> "ordered"]
      BY <3>1 DEF Desk!Stored
    <3>3. settings \in Configuration
      BY <1>1, <3>2 DEF Configuration
    <3>4. settings.start <= settings.end
          /\ (settings.ceremony # 0 => settings.start <= settings.ceremony /\ settings.ceremony <= settings.end)
      BY <3>1, <3>2 DEF Desk!InOrder, Desk!NoDay
    <3>5. settings.thresholds = "ordered"
      BY <3>2
    <3> QED  BY <1>2, <3>3, <3>4, <3>5 DEF Desk!ConfigHoldsTogether, Desk!NoDay
  <2> QED  BY <1>3, <2>1, <2>2
<1>5. DueStays
  BY <1>2 DEF DueStays, Desk!RankRows
<1>6. DeskTypes
  BY <1>2, <1>4 DEF DeskTypes
<1> QED  BY <1>2, <1>4, <1>5, <1>6 DEF DeskInv

\* What is due at the end of a day is due on the next one.
LEMMA NightKeeps ==
    ASSUME DeskInv, Ranked \in Nat, Desk!Midnight, Desk!Elements(Desk!openRows) = OpenSet PROVE DueStays'
<1>1. /\ eventDay' = eventDay + 1 /\ before' = OpenSet /\ eventDay \in Int
      /\ special_date \in [1 .. Ranked -> Int] /\ settings.end \in Int
      /\ UNCHANGED <<settings, special_date, off, collected, awarded>>
  BY DEF Desk!Midnight, DeskInv, DeskTypes, Configuration
<1>2. ASSUME NEW x \in 1 .. Ranked, Desk!isDoneCollecting(x) PROVE Desk!isDoneCollecting(x)'
  <2>1. special_date[x] \in Int
    BY <1>1
  <2>2. CASE special_date[x] # 0
    BY <1>1, <1>2, <2>1, <2>2 DEF Desk!isDoneCollecting, Desk!NoDay
  <2>3. CASE special_date[x] = 0
    BY <1>1, <1>2, <2>1, <2>3 DEF Desk!isDoneCollecting, Desk!NoDay, Desk!eventOver
  <2> QED  BY <2>2, <2>3
<1>3. Ranked0 \subseteq Ranked0'
  <2> SUFFICES ASSUME NEW x \in Ranked0 PROVE x \in Ranked0'
    OBVIOUS
  <2>1. x \in 1 .. Ranked /\ x \notin off /\ collected[x] = "shown" /\ x \notin awarded /\ Desk!isDoneCollecting(x)
    BY DEF Ranked0
  <2>2. Desk!isDoneCollecting(x)'
    BY <1>2, <2>1
  <2> QED  BY <1>1, <2>1, <2>2 DEF Ranked0
<1>4. RankSet \subseteq RankSet'
  <2>1. RankSet' = {Desk!Row("rank-award", x) : x \in Ranked0'}
    BY DEF RankSet, Desk!Row
  <2>2. RankSet = {Desk!Row("rank-award", x) : x \in Ranked0}
    BY DEF RankSet
  <2> QED  BY <1>3, <2>1, <2>2
<1>5. Desk!RankRows(before') \subseteq RankSet
  <2> SUFFICES ASSUME NEW r \in OpenSet, r.id = "rank-award" PROVE r \in RankSet
    BY <1>1 DEF Desk!RankRows
  <2>1. /\ Of(Only(~Desk!configSet, "config"), {"config"}) /\ Of(DailySet("open"), {"daily-today", "daily-tomorrow"})
        /\ Of(Only(~scheduled, "flash"), {"flash"})
        /\ Of(Only(\E t \in 1 .. Ranked : collected[t] = "again", "resubmitted"), {"resubmitted"})
    BY OfOnly, DailyLists
  <2> QED  BY <2>1 DEF Of, OpenSet
<1>6. RankSet' \subseteq OpenSet'
  BY DEF OpenSet
<1> QED  BY <1>1, <1>4, <1>5, <1>6 DEF DueStays, Desk!RankRows

\* A step that leaves the configuration and what the hosts ticked alone.
LEMMA DeskSame ==
    ASSUME DeskInv, UNCHANGED <<settings, saved, torn, checked, rendered, wanted>>
    PROVE  /\ settings' \in Configuration /\ checked' = wanted' /\ Desk!ConfigHoldsTogether'
           /\ checked' \in [1 .. Items -> BOOLEAN] /\ rendered' \in [1 .. Items -> BOOLEAN]
<1>1. Desk!ConfigHoldsTogether'
  BY DEF DeskInv, Desk!ConfigHoldsTogether, Desk!configSet
<1> QED  BY <1>1 DEF DeskInv, DeskTypes

\* A step that is not the night says nothing of the rankings.
LEMMA OtherDeed == ASSUME before' = {} PROVE DueStays'
  BY DEF DueStays, Desk!RankRows

\* A save of the configuration, cut short or not.
LEMMA ConfigureKeeps ==
    ASSUME DeskAssumption, DeskInv, NEW form \in DeskForms, NEW n \in 0 .. 5, Desk!Configure(form, n)
    PROVE  DeskInv'
<1>1. /\ form.zone \in Int /\ form.start \in Int /\ form.end \in Int /\ form.ceremony \in Int
      /\ form.thresholds \in {"absent", "ordered", "unordered"}
  BY DEF DeskAssumption
<1>2. /\ settings' = IF Desk!Accepts(form) THEN Desk!Written(form, n) ELSE settings
      /\ saved' = IF Desk!Accepts(form) THEN form ELSE saved
      /\ torn' = IF Desk!Accepts(form) THEN n < 5 ELSE torn
      /\ UNCHANGED <<eventDay, special_date, checked, rendered, wanted>> /\ before' = {}
  BY DEF Desk!Configure, Desk!Deed
<1>3. DueStays'
  BY <1>2, OtherDeed
<1>4. settings' \in Configuration /\ Desk!ConfigHoldsTogether'
  <2>1. CASE ~Desk!Accepts(form)
    BY <1>2, <2>1 DEF DeskInv, DeskTypes, Desk!ConfigHoldsTogether, Desk!configSet
  <2>2. CASE Desk!Accepts(form)
    <3>1. /\ form.start <= form.end
          /\ form.ceremony # 0 => form.start <= form.ceremony /\ form.ceremony <= form.end
          /\ form.thresholds \in {"absent", "ordered"}
      BY <2>2 DEF Desk!Accepts, Desk!InOrder, Desk!NoDay
    <3>2. settings' =
              [zone |-> IF n >= 1 THEN form.zone ELSE settings.zone,
               start |-> IF n >= 2 THEN form.start ELSE settings.start,
               end |-> IF n >= 3 THEN form.end ELSE settings.end,
               ceremony |-> IF n >= 4 /\ form.ceremony # 0 THEN form.ceremony ELSE settings.ceremony,
               thresholds |-> IF n >= 5 /\ form.thresholds # "absent" THEN form.thresholds ELSE settings.thresholds]
      BY <1>2, <2>2 DEF Desk!Written, Desk!NoDay
    <3>3. settings \in Configuration /\ settings.thresholds = "ordered"
      BY DEF DeskInv, DeskTypes, Desk!ConfigHoldsTogether
    <3>4. /\ settings.zone \in Int /\ settings.start \in Int /\ settings.end \in Int /\ settings.ceremony \in Int
          /\ settings.thresholds \in {"absent", "ordered", "unordered"}
      BY <3>3 DEF Configuration
    <3>5. settings' \in Configuration
      BY <1>1, <3>2, <3>4 DEF Configuration
    <3>6. settings'.thresholds = "ordered"
      BY <3>1, <3>2, <3>3
    <3>7. ASSUME ~torn'
          PROVE  /\ settings'.start <= settings'.end
                 /\ saved'.ceremony # 0 => settings'.start <= settings'.ceremony /\ settings'.ceremony <= settings'.end
      <4>1. n = 5
        <5>1. torn' = (n < 5)
          BY <1>2, <2>2
        <5>2. ~(n < 5)
          BY <3>7, <5>1, Zenon
        <5> QED  BY <5>2
      <4>2. settings'.start = form.start /\ settings'.end = form.end /\ saved' = form
            /\ (form.ceremony # 0 => settings'.ceremony = form.ceremony)
        BY <1>2, <2>2, <3>2, <4>1
      <4> QED  BY <3>1, <4>2
    <3> QED  BY <3>5, <3>6, <3>7 DEF Desk!ConfigHoldsTogether, Desk!NoDay
  <2> QED  BY <2>1, <2>2
<1>5. DeskTypes'
  BY <1>2, <1>4 DEF DeskInv, DeskTypes
<1> QED  BY <1>2, <1>3, <1>4, <1>5 DEF DeskInv

LEMMA DeskStepKeeps ==
    ASSUME DeskAssumption, DeskInv, Desk!DeskNext PROVE DeskInv'
<1>1. Ranked \in Nat /\ Items \in Nat /\ MaxDay \in Nat
  BY DEF DeskAssumption
<1>2. Desk!Elements(Desk!openRows) = OpenSet
  BY <1>1, OpenLists, ListsElements
<1>3. CASE Desk!Midnight
  <2>1. UNCHANGED <<settings, saved, torn, special_date, checked, rendered, wanted>> /\ eventDay' = eventDay + 1
    BY <1>3 DEF Desk!Midnight
  <2>2. DueStays'
    BY <1>1, <1>2, <1>3, NightKeeps
  <2>3. DeskTypes'
    BY <2>1, DeskSame DEF DeskInv, DeskTypes
  <2> QED  BY <2>1, <2>2, <2>3, DeskSame DEF DeskInv
<1>4. CASE Desk!Load
  <2>1. UNCHANGED <<eventDay, settings, saved, torn, special_date, checked, wanted>> /\ rendered' = checked /\ before' = {}
    BY <1>4 DEF Desk!Load
  <2>2. DueStays'
    BY <2>1, OtherDeed
  <2>3. Desk!ConfigHoldsTogether' /\ DeskTypes'
    BY <2>1 DEF DeskInv, DeskTypes, Desk!ConfigHoldsTogether, Desk!configSet
  <2> QED  BY <2>1, <2>2, <2>3 DEF DeskInv
<1>5. ASSUME NEW form \in DeskForms, NEW n \in 0 .. 5, Desk!Configure(form, n) PROVE DeskInv'
  BY <1>5, ConfigureKeeps
<1>6. ASSUME NEW t \in 1 .. Ranked, NEW day \in 0 .. MaxDay, Desk!Schedule(t, day) PROVE DeskInv'
  <2>1. /\ UNCHANGED <<eventDay, settings, saved, torn, checked, rendered, wanted>>
        /\ special_date' = [special_date EXCEPT ![t] = day] /\ before' = {}
    BY <1>6 DEF Desk!Schedule, Desk!Deed
  <2>2. special_date' \in [1 .. Ranked -> Int]
    BY <1>1, <2>1 DEF DeskInv, DeskTypes
  <2>3. DeskTypes'
    BY <2>1, <2>2, DeskSame DEF DeskInv, DeskTypes
  <2> QED  BY <2>1, <2>3, DeskSame, OtherDeed DEF DeskInv
<1>7. ASSUME UNCHANGED <<eventDay, settings, saved, torn, special_date, checked, rendered, wanted>>,
             before' = {}
      PROVE  DeskInv'
  <2>1. DeskTypes'
    BY <1>7, DeskSame DEF DeskInv, DeskTypes
  <2> QED  BY <1>7, <2>1, DeskSame, OtherDeed DEF DeskInv
<1>8. ASSUME NEW t \in 1 .. Ranked, Desk!Photograph(t) \/ \E named \in BOOLEAN : Desk!Release(t, named)
      PROVE  DeskInv'
  BY <1>7, <1>8 DEF Desk!Photograph, Desk!Release, Desk!Deed
<1>9. ASSUME Desk!Flash \/ \E t \in 1 .. Ranked : Desk!Board(t) PROVE DeskInv'
  BY <1>7, <1>9 DEF Desk!Flash, Desk!Board, Desk!Deed
<1>10. ASSUME NEW open \in BOOLEAN, Desk!Bug(open) PROVE DeskInv'
  BY <1>7, <1>10 DEF Desk!Bug, Desk!Deed
<1>11. ASSUME NEW m \in 1 .. Items, Desk!Toggle(m) PROVE DeskInv'
  <2>1. /\ UNCHANGED <<eventDay, settings, special_date, off, scheduled, collected, awarded, rendered, saved, torn>>
        /\ checked' = [checked EXCEPT ![m] = ~rendered[m]] /\ wanted' = [wanted EXCEPT ![m] = ~rendered[m]]
        /\ before' = {}
    BY <1>11 DEF Desk!Toggle, Desk!Deed
  <2>2. checked' = wanted'
    BY <2>1 DEF DeskInv
  <2>3. rendered[m] \in BOOLEAN
    BY DEF DeskInv, DeskTypes
  <2>4. checked' \in [1 .. Items -> BOOLEAN]
    BY <2>1, <2>3 DEF DeskInv, DeskTypes
  <2>5. Desk!ConfigHoldsTogether' /\ DeskTypes'
    BY <2>1, <2>4 DEF DeskInv, DeskTypes, Desk!ConfigHoldsTogether, Desk!configSet
  <2> QED  BY <2>1, <2>2, <2>5, OtherDeed DEF DeskInv
<1> QED  BY <1>3, <1>4, <1>5, <1>6, <1>8, <1>9, <1>10, <1>11 DEF Desk!DeskNext, Desk!NoDay

LEMMA DeskStutterKeeps == ASSUME DeskInv, UNCHANGED deskVars PROVE DeskInv'
<1>1. /\ UNCHANGED <<eventDay, settings, special_date, off, scheduled, collected, awarded, checked, rendered, wanted>>
      /\ UNCHANGED <<saved, torn, before>>
  BY DEF deskVars
<1>2. Desk!configSet' = Desk!configSet
  BY <1>1 DEF Desk!configSet
<1>3. DailySet("open")' = DailySet("open")
  BY <1>1, <1>2 DEF DailySet, Only, Desk!hasChallengeOn, Desk!Row
<1>4. RankSet' = RankSet
  <2>1. Ranked0' = Ranked0
    BY <1>1 DEF Ranked0, Desk!isDoneCollecting, Desk!eventOver
  <2> QED  BY <2>1 DEF RankSet, Desk!Row
<1>5. OpenSet' = OpenSet
  BY <1>1, <1>2, <1>3, <1>4 DEF OpenSet, Only, Desk!Row
<1>6. DueStays'
  BY <1>1, <1>5 DEF DeskInv, DueStays, Desk!RankRows
<1>7. DeskTypes' /\ checked' = wanted'
  BY <1>1 DEF DeskInv, DeskTypes
<1>8. Desk!ConfigHoldsTogether'
  BY <1>1, <1>2 DEF DeskInv, Desk!ConfigHoldsTogether
<1> QED  BY <1>6, <1>7, <1>8 DEF DeskInv

(* The checklist leads on and comes to an end, and the configuration holds  *)
(* together (services/host-checklist.js, routes/admin/config.js).           *)
THEOREM DeskAlwaysKeepsItsWord == TasksSpec => []DeskKeepsItsWord
<1> DEFINE IInv == part = "desk" => DeskInv
<1>1. TasksInit => IInv
  BY DeskInitInv, DeskAssumption DEF TasksInit
<1>2. IInv /\ [TasksNext]_<<part, vars, boardVars, dialogVars, listVars, orderVars, deskVars>> => IInv'
  <2> SUFFICES ASSUME IInv, [TasksNext]_<<part, vars, boardVars, dialogVars, listVars, orderVars, deskVars>>, part' = "desk"
               PROVE  DeskInv'
    OBVIOUS
  <2>1. part = "desk" /\ DeskInv
    BY DEF TasksNext
  <2>2. CASE UNCHANGED <<part, vars, boardVars, dialogVars, listVars, orderVars, deskVars>>
    BY <2>1, <2>2, DeskStutterKeeps
  <2>3. CASE TasksNext
    <3>1. Desk!DeskNext
      BY <2>1, <2>3 DEF TasksNext
    <3> QED  BY <2>1, <3>1, DeskStepKeeps, DeskAssumption
  <2> QED  BY <2>2, <2>3
<1>3. IInv => DeskKeepsItsWord
  BY DeskInvTells, DeskAssumption DEF DeskKeepsItsWord, DeskAssumption
<1> QED  BY <1>1, <1>2, <1>3, PTL DEF TasksSpec

=============================================================================
