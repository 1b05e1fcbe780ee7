----------------------------- MODULE Databases -----------------------------
(* The databases a start of the app may find: empty; and with every table  *)
(* at its first or its last version but for one, which is at any version.  *)
EXTENDS Integers, Sequences, FiniteSets

Indexes == {"photo_index", "thumb_index", "guest_index", "task_id_index", "contact_index",
            "resolved_index", "status_index"}

\* The versions of a table, oldest first, as sets of columns.
Versions ==
    LET grow(base, steps) == [i \in 1 .. Len(steps) + 1 |-> base \cup UNION {steps[j] : j \in 1 .. i - 1}]
        flash == {"flash_start_at", "flash_minutes", "flash_bonus"}
    IN  [tasks |-> <<{"is_active"}>> \o grow({"special_mode"},
             <<{"special_date"}, flash, {"lucky_date", "lucky_bonus"}, {"live_since"}, {"worth_3_to_5"}>>),
         submissions |-> grow({"photo_index", "thumb_index"},
             <<{"photo_bonus"}, {"task_id_null"}, {"bonus_amount", "bonus_reason"}, {"resubmitted"},
               {"taken_down_by"}, {"guest_index"}>>),
         badges |-> grow({}, <<{"metric"}, {"task_id", "task_id_index"}>>),
         guest_badges |-> grow({}, <<{"points", "note", "submission_id"}, {"cascade"}, {"celebrated_at"}, {"rank"}>>),
         guests |-> grow({"avatar_point_awarded"}, <<{"pinned"}, {"contact", "contact_type", "pin", "contact_index"}>>)
             \o grow({"pinned", "contact", "contact_type", "pin", "contact_index"},
                     <<{"recap_checked_at"}, {"is_couple"}, {"blocked"}>>),
         bug_reports |-> <<{"resolved_index"}, {"status", "status_index"}, {"status", "status_index", "guest_id_null"}>>,
         settings |-> <<{}>>]

Oldest == [t \in DOMAIN Versions |-> 1]
Latest == [t \in DOMAIN Versions |-> Len(Versions[t])]
Mixed == {[base EXCEPT ![t] = v] : base \in {Oldest, Latest}, t \in DOMAIN Versions, v \in 1 .. 8}
Known == {v \in Mixed : \A t \in DOMAIN Versions : v[t] <= Len(Versions[t])}

Database(v, full) ==
    LET shape == UNION {Versions[t][v[t]] : t \in DOMAIN Versions}
    IN  [tables |-> DOMAIN Versions \cup {"badge_winners"}, shape |-> shape, values |-> shape \ Indexes,
         children |-> {"submissions", "badges", "guest_badges"},
         task |-> [active |-> ~full, worth |-> IF "worth_3_to_5" \in shape THEN 4 ELSE 1,
                   mode |-> IF full THEN "hidden" ELSE "none"],
         photo |-> [down |-> full, by |-> IF full /\ "taken_down_by" \in shape THEN "guest" ELSE "nobody"],
         guest |-> [points |-> IF full THEN 1 ELSE 0, flagged |-> TRUE, checked |-> FALSE],
         badge |-> [bloom |-> 0, sweep |-> IF full THEN 1 ELSE 3, celebrated |-> FALSE],
         codes |-> {"BLOOM"} \cup (IF full THEN {"MOSTLIKED", "CROWDFAV"} ELSE {}),
         held |-> IF full THEN {"BLOOM", "COMPLETIONIST", "MOSTLIKED"} ELSE {},
         bloom |-> [threshold |-> IF full THEN 2 ELSE 5, described |-> 5],
         bug |-> [resolved |-> full, status |-> "open"], selfLike |-> full, crown |-> full]

Empty ==
    [Database(Oldest, FALSE) EXCEPT !.tables = {}, !.shape = {}, !.values = {}, !.codes = {},
        !.task.worth = 3, !.task.mode = "none"]

Databases == {Database(v, full) : v \in Known, full \in BOOLEAN} \cup {Empty}
=============================================================================
