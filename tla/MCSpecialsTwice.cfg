\* Two tasks, one photo, an event of two days (instants 4 to 11 in UTC) and
\* three requests of the host: the wall times the clocks show twice.
SPECIFICATION TasksSpec
CONSTANTS
    t1 = t1
    t2 = t2
    p1 = p1
    Tasks <- MCTasks
    Photos <- MCPhotos
    TicksPerDay = 4
    EventDays <- MCEventDays
    FormDays <- MCFormDays
    Bonuses <- MCBonuses
    MinBonus = 1
    MaxBonus = 2
    Minutes <- MCMinutes
    Zones <- MCZones
    PlayedZones <- MCPlayedZones
    Horizon = 12
    MaxEdits = 3
    Ranked = 3
    Items = 1
    DeskForms <- MCDeskForms
    MaxDay = 3
    MaxDeeds = 3
INVARIANT
    AmbiguousIsFirst
CHECK_DEADLOCK FALSE
