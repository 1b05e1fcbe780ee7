---------------------------- MODULE BadgesProofs ----------------------------
(***************************************************************************)
(* What Badges promises, for every set of guests, ranking and milestone.   *)
(*                                                                         *)
(* CelebratedOnce is not inductive: a crown that comes back is written as  *)
(* celebrated on the word of its stored announcement alone.  CrownRemembers*)
(* says why that word is good.  All of it is about one guest's rows, so    *)
(* the argument is about a Holding and the effects the recounts have on it.*)
(*                                                                         *)
(* And what the page of a ranking promises beside the server's ranking     *)
(* (RankPage), and the host's wall of photos (Wall), as MCHost runs them.  *)
(***************************************************************************)
EXTENDS MCHost, TLAPS, FiniteSetTheorems, SequenceTheorems

\* The announcement of a crown is stored exactly while its celebration is owed
\* or after it was spent.
CrownRemembers ==
    \A g \in Guests : granted[g]["crown"] > 0 <=> row[g]["crown"] = "owed" \/ "crown" \in spent[g]

BadgesInv == TypeOK /\ BadgesKeepTheirWord /\ CrownRemembers

-----------------------------------------------------------------------------
(* One guest: rows and events, and the celebrations spent.                 *)

Whole(h) == h \in [rows : [Badges -> Statuses], events : [Badges -> 0 .. Many]]

Sound(h, celebrated) ==
    /\ Whole(h)
    /\ \A b \in Badges : h.rows[b] = "owed" => h.events[b] > 0
    /\ \A b \in Badges : h.rows[b] = "celebrated" => b \in celebrated
    /\ h.events["crown"] <= 1
    /\ h.rows["crown"] = "owed" => "crown" \notin celebrated
    /\ h.events["crown"] > 0 <=> h.rows["crown"] = "owed" \/ "crown" \in celebrated

\* The ranked task's badge and its announcement are left as they were.
SameTrophy(h, k) ==
    k.rows["trophy"] = h.rows["trophy"] /\ k.events["trophy"] = h.events["trophy"]

LEMMA RecordedEvent ==
    ASSUME NEW events \in [Badges -> 0 .. Many], NEW b \in Badges
    PROVE  /\ recordEvent(events, b) \in [Badges -> 0 .. Many]
           /\ recordEvent(events, b)[b] > 0
           /\ events[b] = 0 => recordEvent(events, b)[b] = 1
           /\ \A c \in Badges \ {b} : recordEvent(events, b)[c] = events[c]
  BY DEF recordEvent, Many

LEMMA MetricIsSound ==
    ASSUME NEW h, NEW celebrated, Sound(h, celebrated),
           NEW b \in {"milestone", "sweep"}, NEW qualifies
    PROVE  Sound(Metric(h, b, qualifies), celebrated) /\ SameTrophy(h, Metric(h, b, qualifies))
  BY RecordedEvent DEF Sound, Whole, SameTrophy, Metric, Badges, Statuses

LEMMA TransferableIsSound ==
    ASSUME NEW h, NEW celebrated, Sound(h, celebrated), NEW places
    PROVE  Sound(Transferable(h, places), celebrated) /\ SameTrophy(h, Transferable(h, places))
<1>1. CASE places /\ h.rows["crown"] = "none"
  BY <1>1, RecordedEvent
     DEF Sound, Whole, SameTrophy, Transferable, grantBadgeAnnouncingOnce, Badges, Statuses
<1>2. CASE ~places /\ h.rows["crown"] # "none"
  BY <1>2 DEF Sound, Whole, SameTrophy, Transferable, revokeBadgeRetractingUnannounced, Badges, Statuses, Many
<1>3. CASE ~(places /\ h.rows["crown"] = "none") /\ ~(~places /\ h.rows["crown"] # "none")
  BY <1>3 DEF SameTrophy, Transferable
<1> QED  BY <1>1, <1>2, <1>3

LEMMA FirstIsIn ==
    ASSUME NEW S \in SUBSET Badges, S # {}
    PROVE  First(S) \in S
<1> DEFINE at(b) == BADGE_TYPE_RANK[b]
           Least(b) == \A c \in S : at(b) <= at(c)
<1>1. /\ at("milestone") = 0 /\ at("sweep") = 1 /\ at("crown") = 2 /\ at("trophy") = 3
      /\ at("special") = 4
  BY DEF BADGE_TYPE_RANK
<1>2. \A c \in S : c \in {"milestone", "sweep", "crown", "trophy", "special"}
  BY DEF Badges
<1> HIDE DEF at
<1>3. ASSUME "milestone" \in S PROVE \E b \in S : Least(b)
  <2>1. Least("milestone")
    BY <1>1, <1>2, <1>3
  <2> QED  BY <2>1, <1>3
<1>4. ASSUME "sweep" \in S /\ "milestone" \notin S PROVE \E b \in S : Least(b)
  <2>1. Least("sweep")
    BY <1>1, <1>2, <1>4
  <2> QED  BY <2>1, <1>4
<1>5. ASSUME "crown" \in S /\ "milestone" \notin S /\ "sweep" \notin S PROVE \E b \in S : Least(b)
  <2>1. Least("crown")
    BY <1>1, <1>2, <1>5
  <2> QED  BY <2>1, <1>5
<1>6. ASSUME "trophy" \in S /\ "milestone" \notin S /\ "sweep" \notin S /\ "crown" \notin S
      PROVE  \E b \in S : Least(b)
  <2>1. Least("trophy")
    BY <1>1, <1>2, <1>6
  <2> QED  BY <2>1, <1>6
<1>7. ASSUME "special" \in S /\ "milestone" \notin S /\ "sweep" \notin S /\ "crown" \notin S /\ "trophy" \notin S
      PROVE  \E b \in S : Least(b)
  <2>1. Least("special")
    BY <1>1, <1>2, <1>7
  <2> QED  BY <2>1, <1>7
<1> HIDE DEF Least
<1>8. \E b \in S : Least(b)
  BY <1>2, <1>3, <1>4, <1>5, <1>6, <1>7
<1> QED  BY <1>8 DEF First, Least, at

-----------------------------------------------------------------------------
(* The inductive invariant.                                                *)

LEMMA InvIsPerGuest ==
    BadgesInv <=> /\ TypeOK /\ StandingsAreTheRelease
                  /\ \A g \in Guests : Sound(Holding(g), spent[g])
<1>1. ASSUME NEW g \in Guests
      PROVE  Holding(g).rows = row[g] /\ Holding(g).events = granted[g]
  BY DEF Holding
<1>2. TypeOK => \A g \in Guests : Whole(Holding(g))
  BY DEF TypeOK, Whole, Holding
<1> QED
  BY <1>1, <1>2 DEF BadgesInv, BadgesKeepTheirWord, OwedIsAnnounced, CelebratedOnce, CrownRemembers, Sound

\* Everything but the rows, the events and the celebrations.
OtherTypes ==
    /\ rank \in [Guests -> 0 .. MaxRanked]
    /\ threshold \in Thresholds /\ done \in [Guests -> 0 .. MaxDone]
    /\ covers \subseteq Guests /\ placers \subseteq Guests
    /\ photo \in [Guests -> {"none", "shown", "hidden"}]
    /\ page \in [Guests -> [at : {"closed", "sent", "open"}, queue : SUBSET Badges]]
    /\ posts \in [Guests -> SUBSET Badges]
    /\ released \in Rankings /\ requests \in 0 .. MaxRequests

LEMMA InvFromGuests ==
    ASSUME OtherTypes', spent' \in [Guests -> SUBSET Badges], StandingsAreTheRelease',
           row' \in [Guests -> [Badges -> Statuses]],
           granted' \in [Guests -> [Badges -> 0 .. Many]],
           \A g \in Guests : Sound([rows |-> row'[g], events |-> granted'[g]], spent'[g])
    PROVE  BadgesInv'
<1>1. TypeOK'
  BY DEF TypeOK, OtherTypes
<1>2. \A g \in Guests : [rows |-> row'[g], events |-> granted'[g]].rows = row'[g]
                       /\ [rows |-> row'[g], events |-> granted'[g]].events = granted'[g]
  OBVIOUS
<1> QED
  BY <1>1, <1>2 DEF BadgesInv, BadgesKeepTheirWord, OwedIsAnnounced, CelebratedOnce, CrownRemembers, Sound

\* A step that replaces each guest's holding by a sound one.
LEMMA InvAfter ==
    ASSUME BadgesInv, NEW h, DOMAIN h = Guests, After(h), spent' = spent, OtherTypes',
           StandingsAreTheRelease',
           \A g \in Guests : Sound([rows |-> h[g].rows, events |-> h[g].events], spent[g])
    PROVE  BadgesInv'
<1>1. /\ row' = [g \in Guests |-> h[g].rows] /\ granted' = [g \in Guests |-> h[g].events]
      /\ spent \in [Guests -> SUBSET Badges]
  BY DEF After, BadgesInv, TypeOK
<1>2. \A g \in Guests : /\ h[g].rows \in [Badges -> Statuses]
                       /\ h[g].events \in [Badges -> 0 .. Many]
  BY DEF Sound, Whole
<1>3. /\ row' \in [Guests -> [Badges -> Statuses]]
      /\ granted' \in [Guests -> [Badges -> 0 .. Many]]
  BY <1>1, <1>2
<1>4. \A g \in Guests : row'[g] = h[g].rows /\ granted'[g] = h[g].events
  BY <1>1
<1> QED  BY <1>1, <1>3, <1>4, InvFromGuests

LEMMA SoundFields ==
    ASSUME NEW h, NEW celebrated, Sound(h, celebrated)
    PROVE  Sound([rows |-> h.rows, events |-> h.events], celebrated)
  BY DEF Sound, Whole

\* The recounts leave the ranking and its badge alone.
LEMMA InvAfterRecount ==
    ASSUME BadgesInv, NEW h, DOMAIN h = Guests, After(h), spent' = spent, OtherTypes',
           rank' = rank, released' = released,
           \A g \in Guests : Sound(h[g], spent[g]) /\ SameTrophy(Holding(g), h[g])
    PROVE  BadgesInv'
<1>1. \A g \in Guests : Sound([rows |-> h[g].rows, events |-> h[g].events], spent[g])
  BY SoundFields
<1>2. \A g \in Guests : row'[g]["trophy"] = row[g]["trophy"]
  BY DEF After, SameTrophy, Holding
<1>3. StandingsAreTheRelease'
  BY <1>2 DEF StandingsAreTheRelease, BadgesInv, BadgesKeepTheirWord
<1> QED  BY <1>1, <1>3, InvAfter

LEMMA SameTrophyTwice ==
    ASSUME NEW h, NEW k, NEW l, SameTrophy(h, k), SameTrophy(k, l)
    PROVE  SameTrophy(h, l)
  BY DEF SameTrophy

LEMMA LikesChangeInv == BadgesInv /\ LikesChange => BadgesInv'
<1> SUFFICES ASSUME BadgesInv, LikesChange PROVE BadgesInv'
  OBVIOUS
<1>1. PICK P \in SUBSET Guests :
        /\ Request /\ placers' = P
        /\ After([g \in Guests |-> Transferable(Holding(g), g \in P)])
        /\ UNCHANGED <<rank, threshold, done, covers, photo, page, posts, spent, released>>
  BY DEF LikesChange
<1> DEFINE h == [g \in Guests |-> Transferable(Holding(g), g \in P)]
<1>2. \A g \in Guests : Sound(h[g], spent[g]) /\ SameTrophy(Holding(g), h[g])
  BY InvIsPerGuest, TransferableIsSound
<1>3. OtherTypes'
  BY <1>1, BadgesAssumption DEF OtherTypes, BadgesInv, TypeOK, Request, BadgesAssumption
<1>4. DOMAIN h = Guests
  OBVIOUS
<1> HIDE DEF h
<1> QED  BY <1>1, <1>2, <1>3, <1>4, InvAfterRecount DEF h

LEMMA TaskChangeInv == BadgesInv /\ TaskChange => BadgesInv'
<1> SUFFICES ASSUME BadgesInv, TaskChange PROVE BadgesInv'
  OBVIOUS
<1>1. PICK C \in SUBSET Guests, P \in SUBSET Guests, N \in [Guests -> 0 .. MaxDone] :
        /\ Request /\ covers' = C /\ placers' = P /\ done' = N
        /\ After([g \in Guests |->
                Transferable(Metric(Metric(Holding(g), "milestone", N[g] >= threshold),
                                    "sweep", g \in C), g \in P)])
        /\ UNCHANGED <<rank, threshold, photo, page, posts, spent, released>>
  BY DEF TaskChange
<1> DEFINE k(g) == Metric(Holding(g), "milestone", N[g] >= threshold)
           l(g) == Metric(k(g), "sweep", g \in C)
           h == [g \in Guests |-> Transferable(l(g), g \in P)]
<1>2. ASSUME NEW g \in Guests PROVE Sound(h[g], spent[g]) /\ SameTrophy(Holding(g), h[g])
  <2>1. Sound(k(g), spent[g]) /\ SameTrophy(Holding(g), k(g))
    BY InvIsPerGuest, MetricIsSound
  <2> HIDE DEF k
  <2>2. Sound(l(g), spent[g]) /\ SameTrophy(k(g), l(g))
    BY <2>1, MetricIsSound
  <2> HIDE DEF l
  <2>3. Sound(h[g], spent[g]) /\ SameTrophy(l(g), h[g])
    BY <2>2, TransferableIsSound
  <2> QED  BY <2>1, <2>2, <2>3, SameTrophyTwice
<1>3. OtherTypes'
  BY <1>1, BadgesAssumption DEF OtherTypes, BadgesInv, TypeOK, Request, BadgesAssumption
<1>4. DOMAIN h = Guests
  OBVIOUS
<1>5. After(h)
  BY <1>1
<1> HIDE DEF h
<1> QED  BY <1>1, <1>2, <1>3, <1>4, <1>5, InvAfterRecount

LEMMA SetThresholdsInv == BadgesInv /\ setAutoBadgeThresholds => BadgesInv'
<1> SUFFICES ASSUME BadgesInv, setAutoBadgeThresholds PROVE BadgesInv'
  OBVIOUS
<1>1. PICK n \in Thresholds :
        /\ Request /\ threshold' = n
        /\ After([g \in Guests |->
                Transferable(Metric(Holding(g), "milestone", done[g] >= n), g \in placers)])
        /\ UNCHANGED <<rank, done, covers, placers, photo, page, posts, spent, released>>
  BY DEF setAutoBadgeThresholds
<1> DEFINE k(g) == Metric(Holding(g), "milestone", done[g] >= n)
           h == [g \in Guests |-> Transferable(k(g), g \in placers)]
<1>2. ASSUME NEW g \in Guests PROVE Sound(h[g], spent[g]) /\ SameTrophy(Holding(g), h[g])
  <2>1. Sound(k(g), spent[g]) /\ SameTrophy(Holding(g), k(g))
    BY InvIsPerGuest, MetricIsSound
  <2> HIDE DEF k
  <2>2. Sound(h[g], spent[g]) /\ SameTrophy(k(g), h[g])
    BY <2>1, TransferableIsSound
  <2> QED  BY <2>1, <2>2, SameTrophyTwice
<1>3. OtherTypes'
  BY <1>1, BadgesAssumption DEF OtherTypes, BadgesInv, TypeOK, Request, BadgesAssumption
<1>4. DOMAIN h = Guests
  OBVIOUS
<1>5. After(h)
  BY <1>1
<1> HIDE DEF h
<1> QED  BY <1>1, <1>2, <1>3, <1>4, <1>5, InvAfterRecount

LEMMA SubmissionChangeInv ==
    ASSUME BadgesInv, NEW o \in Guests, SubmissionChange(o)
    PROVE  BadgesInv'
<1>1. PICK n \in 0 .. MaxDone, sweeps \in BOOLEAN, P \in SUBSET Guests, p \in {"none", "shown", "hidden"} :
        LET cascaded == p = "none" /\ rank[o] > 0
            base == [rows   |-> IF cascaded THEN [row[o] EXCEPT !["trophy"] = "none"] ELSE row[o],
                     events |-> granted[o]]
            own == Metric(Metric(base, "milestone", n >= threshold), "sweep", sweeps)
        IN  /\ Request
            /\ photo' = [photo EXCEPT ![o] = p]
            /\ done' = [done EXCEPT ![o] = n]
            /\ covers' = IF sweeps THEN covers \cup {o} ELSE covers \ {o}
            /\ placers' = P
            /\ rank' = IF cascaded THEN [rank EXCEPT ![o] = 0] ELSE rank
            /\ After([h \in Guests |-> Transferable(IF h = o THEN own ELSE Holding(h), h \in P)])
            /\ UNCHANGED <<threshold, page, posts, spent, released>>
  BY DEF SubmissionChange
<1> DEFINE cascaded == p = "none" /\ rank[o] > 0
           base == [rows   |-> IF cascaded THEN [row[o] EXCEPT !["trophy"] = "none"] ELSE row[o],
                    events |-> granted[o]]
           half == Metric(base, "milestone", n >= threshold)
           own  == Metric(half, "sweep", sweeps)
           h    == [g \in Guests |-> Transferable(IF g = o THEN own ELSE Holding(g), g \in P)]
<1>2. \A g \in Guests : Sound(Holding(g), spent[g])
  BY InvIsPerGuest
<1>3. Sound(base, spent[o]) /\ (cascaded \/ SameTrophy(Holding(o), base))
  <2>1. Sound([rows |-> row[o], events |-> granted[o]], spent[o])
    BY <1>2 DEF Holding
  <2>2. CASE cascaded
    BY <2>1, <2>2 DEF Sound, Whole, Badges, Statuses
  <2>3. CASE ~cascaded
    BY <2>1, <2>3 DEF SameTrophy, Holding
  <2> QED  BY <2>2, <2>3
<1> HIDE DEF base
<1>4. Sound(half, spent[o]) /\ SameTrophy(base, half)
  BY <1>3, MetricIsSound
<1> HIDE DEF half
<1>5. Sound(own, spent[o]) /\ SameTrophy(half, own)
  BY <1>4, MetricIsSound
<1> HIDE DEF own
<1>6. ASSUME NEW g \in Guests
      PROVE  Sound(h[g], spent[g]) /\ (SameTrophy(Holding(g), h[g]) \/ (g = o /\ cascaded))
  <2>1. CASE g = o
    <3>1. Sound(h[g], spent[g]) /\ SameTrophy(own, h[g])
      BY <1>5, <2>1, TransferableIsSound
    <3> QED  BY <1>3, <1>4, <1>5, <2>1, <3>1, SameTrophyTwice
  <2>2. CASE g # o
    BY <1>2, <2>2, TransferableIsSound
  <2> QED  BY <2>1, <2>2
<1>7. After(h)
  BY <1>1 DEF own, half, base
<1>8. /\ rank' = IF cascaded THEN [rank EXCEPT ![o] = 0] ELSE rank
      /\ UNCHANGED <<threshold, page, posts, spent, released>>
  BY <1>1
<1>9. OtherTypes'
  BY <1>1, <1>8, BadgesAssumption DEF OtherTypes, BadgesInv, TypeOK, Request, BadgesAssumption
<1>10. DOMAIN h = Guests
  OBVIOUS
<1>11. rank \in [Guests -> 0 .. MaxRanked] /\ StandingsAreTheRelease
  BY DEF BadgesInv, TypeOK, BadgesKeepTheirWord
<1> HIDE DEF h, cascaded
<1>12. StandingsAreTheRelease'
  <2> SUFFICES ASSUME NEW g \in Guests, rank'[g] > 0
               PROVE  /\ rank'[g] \in DOMAIN released' /\ released'[rank'[g]] = g
                      /\ row'[g]["trophy"] # "none"
    BY DEF StandingsAreTheRelease
  <2>1. rank'[g] = rank[g] /\ ~(g = o /\ cascaded)
    BY <1>8, <1>11
  <2>2. row'[g]["trophy"] = row[g]["trophy"]
    BY <1>6, <1>7, <2>1 DEF After, SameTrophy, Holding
  <2> QED  BY <1>8, <1>11, <2>1, <2>2 DEF StandingsAreTheRelease
<1>13. \A g \in Guests : Sound([rows |-> h[g].rows, events |-> h[g].events], spent[g])
  BY <1>6, SoundFields
<1> QED  BY <1>7, <1>8, <1>9, <1>10, <1>12, <1>13, InvAfter

\* A step that changes the rows or events of one guest, and nothing else that
\* the invariant is about.
LEMMA InvAfterOne ==
    ASSUME BadgesInv, NEW o \in Guests, NEW theirs, NEW events, NEW celebrated \in SUBSET Badges,
           Sound([rows |-> theirs, events |-> events], celebrated),
           row' = [row EXCEPT ![o] = theirs], granted' = [granted EXCEPT ![o] = events],
           spent' = [spent EXCEPT ![o] = celebrated],
           OtherTypes', StandingsAreTheRelease'
    PROVE  BadgesInv'
<1>1. /\ row \in [Guests -> [Badges -> Statuses]] /\ granted \in [Guests -> [Badges -> 0 .. Many]]
      /\ spent \in [Guests -> SUBSET Badges]
  BY DEF BadgesInv, TypeOK
<1>2. theirs \in [Badges -> Statuses] /\ events \in [Badges -> 0 .. Many]
  BY DEF Sound, Whole
<1>3. /\ row' \in [Guests -> [Badges -> Statuses]] /\ granted' \in [Guests -> [Badges -> 0 .. Many]]
      /\ spent' \in [Guests -> SUBSET Badges]
  BY <1>1, <1>2
<1>4. ASSUME NEW g \in Guests PROVE Sound([rows |-> row'[g], events |-> granted'[g]], spent'[g])
  <2>1. CASE g = o
    BY <1>1, <2>1
  <2>2. CASE g # o
    <3>1. row'[g] = row[g] /\ granted'[g] = granted[g] /\ spent'[g] = spent[g]
      BY <1>1, <2>2
    <3>2. Sound(Holding(g), spent[g])
      BY InvIsPerGuest
    <3> QED  BY <3>1, <3>2 DEF Holding
  <2> QED  BY <2>1, <2>2
<1> QED  BY <1>3, <1>4, InvFromGuests

LEMMA AwardInv ==
    ASSUME BadgesInv, NEW o \in Guests, NEW b \in {"special", "trophy"}, awardSpecialBadge(o, b)
    PROVE  BadgesInv'
<1>1. Sound([rows |-> row[o], events |-> granted[o]], spent[o]) /\ spent[o] \in SUBSET Badges
  BY InvIsPerGuest DEF Holding, BadgesInv, TypeOK
<1> DEFINE theirs == [row[o] EXCEPT ![b] = "owed"]
           events == recordEvent(granted[o], b)
<1>2. row' = [row EXCEPT ![o] = theirs] /\ granted' = [granted EXCEPT ![o] = events]
  BY DEF awardSpecialBadge, BadgesInv, TypeOK
<1>3. spent' = [spent EXCEPT ![o] = spent[o]] /\ rank' = rank /\ released' = released
  BY DEF awardSpecialBadge, BadgesInv, TypeOK
<1>4. Sound([rows |-> theirs, events |-> events], spent[o])
  <2>1. b \in Badges /\ b # "crown"
    BY DEF Badges
  <2>2. granted[o] \in [Badges -> 0 .. Many] /\ row[o] \in [Badges -> Statuses]
    BY <1>1 DEF Sound, Whole
  <2>3. events \in [Badges -> 0 .. Many] /\ events[b] > 0 /\ \A c \in Badges \ {b} : events[c] = granted[o][c]
    BY <2>1, <2>2, RecordedEvent
  <2> HIDE DEF events
  <2> QED  BY <1>1, <2>1, <2>2, <2>3 DEF Sound, Whole, Badges, Statuses
<1>5. OtherTypes'
  BY BadgesAssumption
     DEF awardSpecialBadge, OtherTypes, BadgesInv, TypeOK, Request, inputs, BadgesAssumption
<1>6. StandingsAreTheRelease'
  <2>1. \A g \in Guests : row'[g]["trophy"] = row[g]["trophy"] \/ row'[g]["trophy"] = "owed"
    BY <1>2 DEF BadgesInv, TypeOK, Badges
  <2> QED  BY <1>3, <2>1 DEF StandingsAreTheRelease, BadgesInv, BadgesKeepTheirWord
<1> HIDE DEF theirs, events
<1> QED  BY <1>1, <1>2, <1>3, <1>4, <1>5, <1>6, InvAfterOne

LEMMA RemoveInv ==
    ASSUME BadgesInv, NEW o \in Guests, NEW b \in {"special", "trophy"}, removeSpecialBadge(o, b)
    PROVE  BadgesInv'
<1>1. Sound([rows |-> row[o], events |-> granted[o]], spent[o]) /\ spent[o] \in SUBSET Badges
  BY InvIsPerGuest DEF Holding, BadgesInv, TypeOK
<1> DEFINE theirs == [row[o] EXCEPT ![b] = "none"]
<1>2. row' = [row EXCEPT ![o] = theirs] /\ granted' = [granted EXCEPT ![o] = granted[o]]
  BY DEF removeSpecialBadge, BadgesInv, TypeOK
<1>3. /\ spent' = [spent EXCEPT ![o] = spent[o]] /\ released' = released
      /\ rank' = IF b = "trophy" THEN [rank EXCEPT ![o] = 0] ELSE rank
  BY DEF removeSpecialBadge, BadgesInv, TypeOK
<1>4. Sound([rows |-> theirs, events |-> granted[o]], spent[o])
  BY <1>1 DEF Sound, Whole, Badges, Statuses
<1>5. OtherTypes'
  BY BadgesAssumption
     DEF removeSpecialBadge, OtherTypes, BadgesInv, TypeOK, Request, inputs, BadgesAssumption
<1>6. StandingsAreTheRelease'
  <2>1. rank \in [Guests -> 0 .. MaxRanked]
    BY DEF BadgesInv, TypeOK
  <2>2. \A g \in Guests : rank'[g] > 0 => rank'[g] = rank[g] /\ row'[g]["trophy"] = row[g]["trophy"]
    BY <1>2, <1>3, <2>1 DEF BadgesInv, TypeOK, Badges
  <2> QED  BY <1>3, <2>2 DEF StandingsAreTheRelease, BadgesInv, BadgesKeepTheirWord
<1> HIDE DEF theirs
<1> QED  BY <1>1, <1>2, <1>3, <1>4, <1>5, <1>6, InvAfterOne

\* A ranking names each of its guests at one place.
LEMMA FoldIsTheRanking ==
    ASSUME NEW winners \in Rankings, NEW g \in Guests
    PROVE  /\ foldRankedPlacements(winners)[g] \in 0 .. MaxRanked
           /\ foldRankedPlacements(winners)[g] > 0 =>
                 /\ foldRankedPlacements(winners)[g] \in DOMAIN winners
                 /\ winners[foldRankedPlacements(winners)[g]] = g
<1>1. PICK n \in 0 .. MaxRanked : winners \in [1 .. n -> Guests]
  BY DEF Rankings
<1>2. DOMAIN winners = 1 .. n /\ n \in Nat /\ n <= MaxRanked /\ MaxRanked \in Nat
  BY <1>1, BadgesAssumption DEF BadgesAssumption
<1> DEFINE Has == \E k \in DOMAIN winners : winners[k] = g
           it  == CHOOSE k \in DOMAIN winners : winners[k] = g
<1>3. foldRankedPlacements(winners)[g] = IF Has THEN it ELSE 0
  BY DEF foldRankedPlacements
<1>4. CASE Has
  <2>1. it \in DOMAIN winners /\ winners[it] = g
    BY <1>4
  <2> HIDE DEF it
  <2> QED  BY <1>2, <1>3, <1>4, <2>1
<1>5. CASE ~Has
  BY <1>2, <1>3, <1>5
<1> QED  BY <1>4, <1>5

LEMMA RankIsSound ==
    ASSUME NEW h, NEW celebrated, Sound(h, celebrated), NEW old \in Nat, NEW new \in Nat,
           old > 0 => h.rows["trophy"] # "none"
    PROVE  /\ Sound([rows |-> Rank(h, old, new).rows, events |-> Rank(h, old, new).events], celebrated)
           /\ Rank(h, old, new).rank = new
           /\ new > 0 => Rank(h, old, new).rows["trophy"] # "none"
<1>1. "trophy" \in Badges /\ h.events \in [Badges -> 0 .. Many] /\ h.rows \in [Badges -> Statuses]
  BY DEF Badges, Sound, Whole
<1> DEFINE more == recordEvent(h.events, "trophy")
<1>2. /\ more \in [Badges -> 0 .. Many] /\ more["trophy"] > 0
      /\ \A c \in Badges \ {"trophy"} : more[c] = h.events[c]
  BY <1>1, RecordedEvent
<1> HIDE DEF more
<1>3. CASE new > 0 /\ h.rows["trophy"] = "none"
  <2>1. Rank(h, old, new) = [rows |-> [h.rows EXCEPT !["trophy"] = "owed"], rank |-> new, events |-> more]
    BY <1>3 DEF Rank, more
  <2> QED  BY <1>1, <1>2, <1>3, <2>1 DEF Sound, Whole, Badges, Statuses
<1>4. CASE new > 0 /\ h.rows["trophy"] # "none"
  <2>1. Rank(h, old, new) = [rows |-> h.rows, rank |-> new, events |-> IF old = 0 THEN more ELSE h.events]
    BY <1>4 DEF Rank, more
  <2> QED  BY <1>1, <1>2, <1>4, <2>1 DEF Sound, Whole, Badges, Statuses
<1>5. CASE new = 0
  <2>1. Rank(h, old, new) =
          [rows |-> IF old > 0 THEN [h.rows EXCEPT !["trophy"] = "none"] ELSE h.rows,
           rank |-> 0, events |-> h.events]
    BY <1>5 DEF Rank
  <2> QED  BY <1>1, <1>5, <2>1 DEF Sound, Whole, Badges, Statuses
<1> QED  BY <1>3, <1>4, <1>5

LEMMA ReleaseInv == BadgesInv /\ releaseRanking => BadgesInv'
<1> SUFFICES ASSUME BadgesInv, releaseRanking PROVE BadgesInv'
  OBVIOUS
<1>1. PICK winners \in Rankings :
        /\ Request
        /\ LET place == foldRankedPlacements(winners)
               new == [g \in Guests |-> Rank(Holding(g), rank[g], place[g])]
           IN  After(new) /\ rank' = [g \in Guests |-> new[g].rank]
        /\ released' = winners
        /\ UNCHANGED <<inputs, page, posts, spent>>
  BY DEF releaseRanking
<1> DEFINE place == foldRankedPlacements(winners)
           new   == [g \in Guests |-> Rank(Holding(g), rank[g], place[g])]
<1>2. ASSUME NEW g \in Guests
      PROVE  /\ place[g] \in 0 .. MaxRanked
             /\ place[g] > 0 => place[g] \in DOMAIN winners /\ winners[place[g]] = g
  BY FoldIsTheRanking
<1>3. MaxRanked \in Nat
  BY BadgesAssumption DEF BadgesAssumption
<1> HIDE DEF place
<1>4. ASSUME NEW g \in Guests
      PROVE  /\ Sound([rows |-> new[g].rows, events |-> new[g].events], spent[g])
             /\ new[g].rank = place[g]
             /\ place[g] > 0 => new[g].rows["trophy"] # "none"
  <2>1. Sound(Holding(g), spent[g]) /\ rank[g] \in Nat /\ place[g] \in Nat
    BY <1>2, <1>3, InvIsPerGuest DEF TypeOK
  <2>2. rank[g] > 0 => Holding(g).rows["trophy"] # "none"
    BY DEF Holding, BadgesInv, BadgesKeepTheirWord, StandingsAreTheRelease
  <2> QED  BY <2>1, <2>2, RankIsSound
<1>5. After(new) /\ rank' = [g \in Guests |-> new[g].rank] /\ released' = winners /\ spent' = spent
  BY <1>1 DEF place
<1>6. DOMAIN new = Guests
  OBVIOUS
<1> HIDE DEF new
<1>7. rank' = [g \in Guests |-> place[g]]
  BY <1>4, <1>5
<1>8. OtherTypes'
  <2>1. rank' \in [Guests -> 0 .. MaxRanked]
    BY <1>2, <1>7
  <2> QED  BY <1>1, <2>1, BadgesAssumption
             DEF OtherTypes, BadgesInv, TypeOK, Request, inputs, BadgesAssumption
<1>9. StandingsAreTheRelease'
  <2>1. \A g \in Guests : row'[g]["trophy"] = new[g].rows["trophy"]
    BY <1>5 DEF After
  <2> QED  BY <1>2, <1>4, <1>5, <1>7, <2>1 DEF StandingsAreTheRelease
<1> QED  BY <1>4, <1>5, <1>6, <1>8, <1>9, InvAfter

\* A stamp: an owed badge of one guest is celebrated.
LEMMA StampInv ==
    ASSUME BadgesInv, NEW o \in Guests, NEW b \in Owed(o),
           row' = [row EXCEPT ![o][b] = "celebrated"], spent' = [spent EXCEPT ![o] = @ \cup {b}],
           granted' = granted, rank' = rank, released' = released, OtherTypes'
    PROVE  BadgesInv'
<1>1. b \in Badges /\ row[o][b] = "owed" /\ granted[o][b] > 0
  BY DEF Owed
<1>2. Sound([rows |-> row[o], events |-> granted[o]], spent[o]) /\ spent[o] \in SUBSET Badges
  BY InvIsPerGuest DEF Holding, BadgesInv, TypeOK
<1> DEFINE theirs == [row[o] EXCEPT ![b] = "celebrated"]
           celebrated == spent[o] \cup {b}
<1>3. Sound([rows |-> theirs, events |-> granted[o]], celebrated)
  BY <1>1, <1>2 DEF Sound, Whole, Badges, Statuses
<1>4. /\ row' = [row EXCEPT ![o] = theirs] /\ granted' = [granted EXCEPT ![o] = granted[o]]
      /\ spent' = [spent EXCEPT ![o] = celebrated]
  BY DEF BadgesInv, TypeOK
<1>5. StandingsAreTheRelease'
  <2>1. \A g \in Guests : row'[g]["trophy"] = row[g]["trophy"] \/ row'[g]["trophy"] = "celebrated"
    BY <1>1 DEF BadgesInv, TypeOK, Badges
  <2> QED  BY <2>1 DEF StandingsAreTheRelease, BadgesInv, BadgesKeepTheirWord
<1>6. celebrated \in SUBSET Badges
  BY <1>1, <1>2
<1> HIDE DEF theirs, celebrated
<1> QED  BY <1>3, <1>4, <1>5, <1>6, InvAfterOne

LEMMA BrowserInv ==
    ASSUME BadgesInv, UNCHANGED <<row, granted, rank, spent, released>>, OtherTypes'
    PROVE  BadgesInv'
<1>1. /\ row' \in [Guests -> [Badges -> Statuses]] /\ granted' \in [Guests -> [Badges -> 0 .. Many]]
      /\ spent' \in [Guests -> SUBSET Badges]
  BY DEF BadgesInv, TypeOK
<1>2. StandingsAreTheRelease'
  BY DEF BadgesInv, BadgesKeepTheirWord, StandingsAreTheRelease
<1>3. \A g \in Guests : Sound([rows |-> row[g], events |-> granted[g]], spent[g])
  BY InvIsPerGuest DEF Holding
<1> QED  BY <1>1, <1>2, <1>3, InvFromGuests

LEMMA PageInv ==
    ASSUME BadgesInv, NEW g \in Guests,
           RenderPage(g) \/ PageArrives(g) \/ Continue(g) \/ Dismiss(g)
    PROVE  BadgesInv'
<1> DEFINE Pages == [at : {"closed", "sent", "open"}, queue : SUBSET Badges]
<1>1. /\ page \in [Guests -> Pages] /\ posts \in [Guests -> SUBSET Badges] /\ OtherTypes
      /\ NoPage \in Pages
  BY DEF BadgesInv, TypeOK, OtherTypes, NoPage
<1>2. Owed(g) \in SUBSET Badges
  BY DEF Owed
<1>3. CASE RenderPage(g)
  <2>1. [at |-> "sent", queue |-> Owed(g) \ {First(Owed(g))}] \in Pages
    BY <1>2
  <2>2. page' \in [Guests -> Pages]
    BY <1>1, <1>3, <2>1 DEF RenderPage
  <2>3. OtherTypes'
    BY <1>1, <1>3, <2>2 DEF RenderPage, OtherTypes, inputs
  <2>4. CASE Owed(g) = {}
    BY <1>3, <2>3, <2>4, BrowserInv DEF RenderPage
  <2>5. CASE Owed(g) # {}
    <3>1. First(Owed(g)) \in Owed(g)
      BY <1>2, <2>5, FirstIsIn
    <3> QED  BY <1>3, <2>3, <2>5, <3>1, StampInv DEF RenderPage
  <2> QED  BY <2>4, <2>5
<1>4. CASE PageArrives(g)
  <2>1. page' \in [Guests -> Pages]
    BY <1>1, <1>4 DEF PageArrives
  <2> QED  BY <1>1, <1>4, <2>1, BrowserInv DEF PageArrives, OtherTypes, inputs
<1>5. CASE Continue(g)
  <2>1. page' \in [Guests -> Pages]
    BY <1>1, <1>5 DEF Continue
  <2>2. page[g].queue \in SUBSET Badges
    BY <1>1
  <2>3. posts' \in [Guests -> SUBSET Badges]
    <3>1. CASE page[g].queue = {}
      BY <1>1, <1>5, <3>1 DEF Continue
    <3>2. CASE page[g].queue # {}
      <4>1. First(page[g].queue) \in Badges
        BY <2>2, <3>2, FirstIsIn
      <4> QED  BY <1>1, <1>5, <3>2, <4>1 DEF Continue
    <3> QED  BY <3>1, <3>2
  <2> QED  BY <1>1, <1>5, <2>1, <2>3, BrowserInv DEF Continue, OtherTypes, inputs
<1>6. CASE Dismiss(g)
  <2>1. page' \in [Guests -> Pages]
    BY <1>1, <1>6 DEF Dismiss
  <2> QED  BY <1>1, <1>6, <2>1, BrowserInv DEF Dismiss, OtherTypes, inputs
<1> QED  BY <1>3, <1>4, <1>5, <1>6

LEMMA PostInv ==
    ASSUME BadgesInv, NEW g \in Guests, NEW b \in Badges, CelebratedPost(g, b) \/ LosePost(g, b)
    PROVE  BadgesInv'
<1>1. OtherTypes
  BY DEF BadgesInv, TypeOK, OtherTypes
<1>2. posts' \in [Guests -> SUBSET Badges]
  <2>1. posts' = [posts EXCEPT ![g] = @ \ {b}]
    BY DEF CelebratedPost, LosePost
  <2>2. posts \in [Guests -> SUBSET Badges]
    BY DEF BadgesInv, TypeOK
  <2> QED  BY <2>1, <2>2
<1>3. OtherTypes'
  BY <1>1, <1>2 DEF CelebratedPost, LosePost, OtherTypes, inputs
<1>4. CASE CelebratedPost(g, b) /\ b \in Owed(g)
  BY <1>3, <1>4, StampInv DEF CelebratedPost, markBadgeCelebrated
<1>5. CASE CelebratedPost(g, b) /\ b \notin Owed(g)
  BY <1>3, <1>5, BrowserInv DEF CelebratedPost, markBadgeCelebrated
<1>6. CASE LosePost(g, b)
  BY <1>3, <1>6, BrowserInv DEF LosePost
<1> QED  BY <1>4, <1>5, <1>6

-----------------------------------------------------------------------------
\* Tables, pages and posts hold what they can hold, and the three promises and
\* the crown's memory hold together.
THEOREM BadgesInvariant == Spec => []BadgesInv
<1>1. Init => BadgesInv
  <2> SUFFICES ASSUME Init PROVE BadgesInv
    OBVIOUS
  <2>1. <<>> \in Rankings
    <3>1. 0 \in 0 .. MaxRanked
      BY BadgesAssumption DEF BadgesAssumption
    <3>2. <<>> \in [1 .. 0 -> Guests] /\ \A j, k \in 1 .. 0 : <<>>[j] = <<>>[k] => j = k
      OBVIOUS
    <3> QED  BY <3>1, <3>2 DEF Rankings
  <2>2. /\ row \in [Guests -> [Badges -> Statuses]] /\ granted \in [Guests -> [Badges -> 0 .. Many]]
        /\ page \in [Guests -> [at : {"closed", "sent", "open"}, queue : SUBSET Badges]]
    BY DEF Init, Statuses, NoPage, Many
  <2>3. TypeOK
    BY <2>1, <2>2, BadgesAssumption DEF Init, TypeOK, BadgesAssumption
  <2>4. \A g \in Guests : /\ \A b \in Badges : row[g][b] = "none" /\ granted[g][b] = 0
                         /\ spent[g] = {} /\ rank[g] = 0
    BY DEF Init
  <2>5. "crown" \in Badges
    BY DEF Badges
  <2> QED
    BY <2>3, <2>4, <2>5 DEF BadgesInv, BadgesKeepTheirWord, OwedIsAnnounced, CelebratedOnce,
                            StandingsAreTheRelease, CrownRemembers
<1>2. BadgesInv /\ [Next]_vars => BadgesInv'
  <2> SUFFICES ASSUME BadgesInv, [Next]_vars PROVE BadgesInv'
    OBVIOUS
  <2>1. Readers \subseteq Guests
    BY BadgesAssumption DEF BadgesAssumption
  <2>2. CASE UNCHANGED vars
    <3>1. OtherTypes'
      BY <2>2 DEF BadgesInv, TypeOK, OtherTypes, vars
    <3> QED  BY <2>2, <3>1, BrowserInv DEF vars
  <2> QED
    BY <2>1, <2>2, LikesChangeInv, TaskChangeInv, SetThresholdsInv, ReleaseInv, SubmissionChangeInv,
       AwardInv, RemoveInv, PageInv, PostInv DEF Next
<1> QED  BY <1>1, <1>2, PTL DEF Spec

\* Nobody owes a celebration no page or recap will ever show, celebrates a crown
\* twice or not at all, or keeps a rank of a release before the last.
THEOREM BadgesKeepTheirWordAlways == Spec => []BadgesKeepTheirWord
<1>1. BadgesInv => BadgesKeepTheirWord
  BY DEF BadgesInv
<1> QED  BY <1>1, BadgesInvariant, PTL

\* A guest ranked before and after a step has the announcement and the spent
\* celebration of before it: a re-release tells only those who are new to it.
THEOREM ReleasesKeepCelebrations == Spec => ReleaseKeepsCelebration
<1> DEFINE Kept(g) ==
        rank[g] > 0 /\ rank'[g] > 0 =>
            /\ granted'[g]["trophy"] = granted[g]["trophy"]
            /\ row[g]["trophy"] = "celebrated" => row'[g]["trophy"] = "celebrated"
<1>1. BadgesInv /\ [Next]_vars => [\A g \in Guests : Kept(g)]_vars
  <2> SUFFICES ASSUME BadgesInv, Next, NEW g \in Guests, rank[g] > 0, rank'[g] > 0
               PROVE  /\ granted'[g]["trophy"] = granted[g]["trophy"]
                      /\ row[g]["trophy"] = "celebrated" => row'[g]["trophy"] = "celebrated"
    OBVIOUS
  <2>1. /\ row \in [Guests -> [Badges -> Statuses]] /\ granted \in [Guests -> [Badges -> 0 .. Many]]
        /\ rank \in [Guests -> 0 .. MaxRanked] /\ row[g]["trophy"] # "none"
        /\ Sound(Holding(g), spent[g]) /\ "trophy" \in Badges
    BY InvIsPerGuest DEF TypeOK, StandingsAreTheRelease, Badges
  <2>2. ASSUME NEW h, After(h), SameTrophy(Holding(g), h[g])
        PROVE  row'[g]["trophy"] = row[g]["trophy"] /\ granted'[g]["trophy"] = granted[g]["trophy"]
    BY <2>2 DEF After, SameTrophy, Holding
  <2>3. CASE LikesChange
    <3>1. PICK P \in SUBSET Guests : After([o \in Guests |-> Transferable(Holding(o), o \in P)])
      BY <2>3 DEF LikesChange
    <3> DEFINE h == [o \in Guests |-> Transferable(Holding(o), o \in P)]
    <3>2. SameTrophy(Holding(g), h[g])
      BY <2>1, TransferableIsSound
    <3> HIDE DEF h
    <3> QED  BY <2>2, <3>1, <3>2 DEF h
  <2>4. ASSUME NEW h, NEW n, NEW sweeps, NEW places, Sound(h, spent[g])
        PROVE  SameTrophy(h, Transferable(Metric(Metric(h, "milestone", n), "sweep", sweeps), places))
    <3>1. Sound(Metric(h, "milestone", n), spent[g]) /\ SameTrophy(h, Metric(h, "milestone", n))
      BY <2>4, MetricIsSound
    <3> DEFINE k == Metric(h, "milestone", n)
    <3> HIDE DEF k
    <3>2. Sound(Metric(k, "sweep", sweeps), spent[g]) /\ SameTrophy(k, Metric(k, "sweep", sweeps))
      BY <3>1, MetricIsSound DEF k
    <3>3. SameTrophy(Metric(k, "sweep", sweeps), Transferable(Metric(k, "sweep", sweeps), places))
      BY <3>2, TransferableIsSound
    <3> QED  BY <3>1, <3>2, <3>3, SameTrophyTwice DEF k
  <2>5. CASE TaskChange
    <3>1. PICK C \in SUBSET Guests, P \in SUBSET Guests, N \in [Guests -> 0 .. MaxDone] :
            After([o \in Guests |->
                Transferable(Metric(Metric(Holding(o), "milestone", N[o] >= threshold),
                                    "sweep", o \in C), o \in P)])
      BY <2>5 DEF TaskChange
    <3> DEFINE h == [o \in Guests |->
                Transferable(Metric(Metric(Holding(o), "milestone", N[o] >= threshold),
                                    "sweep", o \in C), o \in P)]
    <3>2. SameTrophy(Holding(g), h[g])
      BY <2>1, <2>4
    <3> HIDE DEF h
    <3> QED  BY <2>2, <3>1, <3>2 DEF h
  <2>6. CASE setAutoBadgeThresholds
    <3>1. PICK n \in Thresholds :
            After([o \in Guests |->
                Transferable(Metric(Holding(o), "milestone", done[o] >= n), o \in placers)])
      BY <2>6 DEF setAutoBadgeThresholds
    <3> DEFINE k == Metric(Holding(g), "milestone", done[g] >= n)
               h == [o \in Guests |->
                        Transferable(Metric(Holding(o), "milestone", done[o] >= n), o \in placers)]
    <3>2. Sound(k, spent[g]) /\ SameTrophy(Holding(g), k)
      BY <2>1, MetricIsSound
    <3>3. h[g] = Transferable(k, g \in placers)
      OBVIOUS
    <3> HIDE DEF k
    <3>4. SameTrophy(Holding(g), h[g])
      BY <3>2, <3>3, TransferableIsSound, SameTrophyTwice
    <3> HIDE DEF h
    <3> QED  BY <2>2, <3>1, <3>4 DEF h
  <2>7. CASE releaseRanking
    <3>1. PICK winners \in Rankings :
            LET place == foldRankedPlacements(winners)
                new == [o \in Guests |-> Rank(Holding(o), rank[o], place[o])]
            IN  After(new) /\ rank' = [o \in Guests |-> new[o].rank]
      BY <2>7 DEF releaseRanking
    <3> DEFINE place == foldRankedPlacements(winners)
               new   == [o \in Guests |-> Rank(Holding(o), rank[o], place[o])]
    <3>2. /\ row'[g] = new[g].rows /\ granted'[g] = new[g].events /\ rank'[g] = new[g].rank
      BY <3>1 DEF After
    <3> HIDE DEF place
    <3>3. rank'[g] = place[g] /\ rank[g] \in Nat
      BY <2>1, <3>2, BadgesAssumption DEF Rank, BadgesAssumption
    <3>4. place[g] > 0 /\ rank[g] # 0 /\ Holding(g).rows["trophy"] # "none"
      BY <2>1, <3>3 DEF Holding
    <3>5. new[g].rows = Holding(g).rows /\ new[g].events = Holding(g).events
      BY <3>4 DEF Rank
    <3> QED  BY <3>2, <3>5 DEF Holding
  <2>8. ASSUME NEW o \in Guests, SubmissionChange(o)
        PROVE  /\ granted'[g]["trophy"] = granted[g]["trophy"]
               /\ row[g]["trophy"] = "celebrated" => row'[g]["trophy"] = "celebrated"
    <3>1. PICK n \in 0 .. MaxDone, sweeps \in BOOLEAN, P \in SUBSET Guests,
               p \in {"none", "shown", "hidden"} :
            LET cascaded == p = "none" /\ rank[o] > 0
                base == [rows   |-> IF cascaded THEN [row[o] EXCEPT !["trophy"] = "none"] ELSE row[o],
                         events |-> granted[o]]
                own == Metric(Metric(base, "milestone", n >= threshold), "sweep", sweeps)
            IN  /\ Request
                /\ photo' = [photo EXCEPT ![o] = p]
                /\ done' = [done EXCEPT ![o] = n]
                /\ covers' = IF sweeps THEN covers \cup {o} ELSE covers \ {o}
                /\ placers' = P
                /\ rank' = IF cascaded THEN [rank EXCEPT ![o] = 0] ELSE rank
                /\ After([h \in Guests |-> Transferable(IF h = o THEN own ELSE Holding(h), h \in P)])
                /\ UNCHANGED <<threshold, page, posts, spent, released>>
      BY <2>8 DEF SubmissionChange
    <3> DEFINE cascaded == p = "none" /\ rank[o] > 0
               base == [rows   |-> IF cascaded THEN [row[o] EXCEPT !["trophy"] = "none"] ELSE row[o],
                        events |-> granted[o]]
               own  == Metric(Metric(base, "milestone", n >= threshold), "sweep", sweeps)
               h    == [q \in Guests |-> Transferable(IF q = o THEN own ELSE Holding(q), q \in P)]
    <3>2. After(h) /\ (cascaded => rank' = [rank EXCEPT ![o] = 0])
      BY <3>1
    <3>3. CASE g # o
      <4>1. h[g] = Transferable(Holding(g), g \in P)
        BY <3>3
      <4>2. SameTrophy(Holding(g), h[g])
        BY <2>1, <4>1, TransferableIsSound
      <4> HIDE DEF h
      <4> QED  BY <2>2, <3>2, <4>2
    <3>4. CASE g = o
      <4>1. ~cascaded
        BY <2>1, <3>2, <3>4
      <4>2. base = Holding(g)
        BY <3>4, <4>1 DEF Holding
      <4> HIDE DEF base, cascaded
      <4>3. h[g] = Transferable(Metric(Metric(Holding(g), "milestone", n >= threshold), "sweep", sweeps),
                                g \in P)
        BY <3>4, <4>2
      <4>4. SameTrophy(Holding(g), h[g])
        BY <2>1, <2>4, <4>3
      <4> HIDE DEF h
      <4> QED  BY <2>2, <3>2, <4>4
    <3> QED  BY <3>3, <3>4
  <2>9. ASSUME NEW o \in Guests, NEW b \in {"special", "trophy"}, awardSpecialBadge(o, b)
        PROVE  granted'[g]["trophy"] = granted[g]["trophy"] /\ row'[g]["trophy"] = row[g]["trophy"]
    BY <2>1, <2>9 DEF awardSpecialBadge, recordEvent
  <2>10. ASSUME NEW o \in Guests, NEW b \in {"special", "trophy"}, removeSpecialBadge(o, b)
         PROVE  granted'[g]["trophy"] = granted[g]["trophy"] /\ row'[g]["trophy"] = row[g]["trophy"]
    BY <2>1, <2>10 DEF removeSpecialBadge
  <2>11. ASSUME NEW o \in Readers,
                \/ RenderPage(o) \/ PageArrives(o) \/ Continue(o) \/ Dismiss(o)
                \/ \E b \in Badges : CelebratedPost(o, b) \/ LosePost(o, b)
         PROVE  /\ granted'[g]["trophy"] = granted[g]["trophy"]
                /\ row[g]["trophy"] = "celebrated" => row'[g]["trophy"] = "celebrated"
    <3>1. granted' = granted
      BY <2>11 DEF RenderPage, PageArrives, Continue, Dismiss, CelebratedPost, LosePost
    <3>2. row' = row \/ \E b \in Badges : row' = [row EXCEPT ![o][b] = "celebrated"]
      <4>1. ASSUME RenderPage(o), Owed(o) # {} PROVE First(Owed(o)) \in Badges
        BY <4>1, FirstIsIn DEF Owed
      <4> QED  BY <2>11, <4>1 DEF RenderPage, PageArrives, Continue, Dismiss, CelebratedPost, LosePost
    <3> QED  BY <2>1, <3>1, <3>2
  <2> QED
    BY <2>3, <2>5, <2>6, <2>7, <2>8, <2>9, <2>10, <2>11 DEF Next
<1>2. Spec => [][\A g \in Guests : Kept(g)]_vars
  BY <1>1, BadgesInvariant, PTL DEF Spec
<1> QED  BY <1>2 DEF ReleaseKeepsCelebration

-----------------------------------------------------------------------------
(* The ranking on the host's page (RankPage, as MCHost runs it): what a    *)
(* list of photos keeps when it is filtered, cut and added to.             *)

\* Numbering the members of a set of places, first to last, reaches every number.
LEMMA PlacesAreTaken ==
    ASSUME NEW m \in Nat, NEW kept \in SUBSET (1 .. m),
           NEW place, place = [i \in kept |-> Cardinality({j \in kept : j <= i})]
    PROVE  /\ IsFiniteSet(kept) /\ Cardinality(kept) \in Nat
           /\ \A i \in kept : place[i] \in 1 .. Cardinality(kept)
           /\ \A i, j \in kept : i < j => place[i] < place[j]
           /\ \A n \in 1 .. Cardinality(kept) : \E i \in kept : place[i] = n
<1> DEFINE upto(i) == {j \in kept : j <= i}
<1>1. IsFiniteSet(kept) /\ Cardinality(kept) \in Nat
  <2>1. IsFiniteSet(1 .. m)
    BY FS_Interval
  <2> QED  BY <2>1, FS_Subset, FS_CardinalityType
<1>2. ASSUME NEW i \in kept
      PROVE  /\ IsFiniteSet(upto(i)) /\ Cardinality(upto(i)) \in Nat /\ Cardinality(upto(i)) >= 1
             /\ Cardinality(upto(i)) <= Cardinality(kept)
  <2>1. IsFiniteSet(upto(i)) /\ Cardinality(upto(i)) <= Cardinality(kept)
    BY <1>1, FS_Subset
  <2>2. i \in upto(i)
    OBVIOUS
  <2>3. Cardinality(upto(i)) \in Nat /\ Cardinality(upto(i)) # 0
    BY <2>1, <2>2, FS_CardinalityType, FS_EmptySet
  <2> QED  BY <2>1, <2>3
<1>3. \A i \in kept : place[i] \in 1 .. Cardinality(kept)
  BY <1>1, <1>2
<1>4. ASSUME NEW i \in kept, NEW j \in kept, i < j PROVE place[i] < place[j]
  <2>1. upto(i) \subseteq upto(j) /\ j \in upto(j) /\ j \notin upto(i)
    <3>1. \A k \in kept : k \in Int
      OBVIOUS
    <3>2. \A k \in kept : k <= i => k <= j
      BY <1>4, <3>1
    <3>3. j <= j /\ ~(j <= i)
      BY <1>4, <3>1
    <3> QED  BY <3>2, <3>3
  <2>2. Cardinality(upto(i)) < Cardinality(upto(j))
    <3>1. upto(i) \subseteq upto(j) \ {j} /\ Cardinality(upto(j) \ {j}) = Cardinality(upto(j)) - 1
      BY <1>2, <2>1, FS_RemoveElement
    <3>2. IsFiniteSet(upto(j) \ {j})
      BY <1>2, FS_Subset
    <3>3. Cardinality(upto(i)) <= Cardinality(upto(j) \ {j})
      BY <3>1, <3>2, FS_Subset
    <3> QED  BY <1>2, <3>1, <3>3
  <2> QED  BY <2>2
<1>5. place \in Bijection(kept, 1 .. Cardinality(kept))
  <2>1. place \in [kept -> 1 .. Cardinality(kept)]
    BY <1>3
  <2>2. \A i, j \in kept : place[i] = place[j] => i = j
    <3> SUFFICES ASSUME NEW i \in kept, NEW j \in kept, place[i] = place[j] PROVE i = j
      OBVIOUS
    <3>1. place[i] \in Nat /\ place[j] \in Nat /\ i \in Nat /\ j \in Nat
      BY <1>1, <1>3
    <3> QED  BY <1>4, <3>1
  <2>3. place \in Injection(kept, 1 .. Cardinality(kept))
    BY <2>1, <2>2 DEF Injection, IsInjective
  <2>4. IsFiniteSet(1 .. Cardinality(kept)) /\ Cardinality(1 .. Cardinality(kept)) = Cardinality(kept)
    BY <1>1, FS_Interval
  <2>5. place \in Surjection(kept, 1 .. Cardinality(kept))
    BY <1>1, <2>3, <2>4, FS_Injection
  <2> QED  BY <2>3, <2>5 DEF Bijection
<1>6. \A n \in 1 .. Cardinality(kept) : \E i \in kept : place[i] = n
  BY <1>5 DEF Bijection, Surjection
<1> QED  BY <1>1, <1>3, <1>4, <1>6

\* A set of places has a first one.
LEMMA LeastPlace ==
    ASSUME NEW S \in SUBSET Nat, S # {}
    PROVE  RankPage!Min(S) \in S /\ \A n \in S : RankPage!Min(S) <= n
<1> DEFINE upTo(k) == {n \in S : n <= k}
           T == {upTo(k) : k \in S}
<1>1. \A k \in S : upTo(k) \in FiniteSubsetsOf(Nat)
  <2>1. ASSUME NEW k \in S PROVE upTo(k) \in SUBSET Nat /\ IsFiniteSet(upTo(k))
    <3>1. k \in Nat /\ upTo(k) \in SUBSET Nat /\ \A n \in upTo(k) : n <= k
      OBVIOUS
    <3> QED  BY <3>1, FS_BoundedSetOfNaturals
  <2> QED  BY <2>1 DEF FiniteSubsetsOf
<1>2. T \subseteq FiniteSubsetsOf(Nat) /\ T # {}
  BY <1>1
<1>3. PICK x \in T : \A y \in T : <<y, x>> \notin StrictSubsetOrdering(Nat)
  <2> HIDE DEF T
  <2> QED  BY <1>2, FS_StrictSubsetOrderingWellFounded, WFMin
<1>4. PICK k \in S : x = upTo(k)
  OBVIOUS
<1>5. ASSUME NEW n \in S PROVE k <= n
  <2>1. SUFFICES ASSUME n < k PROVE FALSE
    OBVIOUS
  <2>2. k \in Nat /\ n \in Nat
    OBVIOUS
  <2>3. upTo(n) \subseteq upTo(k) /\ k \in upTo(k) /\ k \notin upTo(n)
    <3>1. ASSUME NEW m \in upTo(n) PROVE m \in upTo(k)
      <4>1. m \in S /\ m \in Nat /\ m <= n
        OBVIOUS
      <4>2. m <= k
        BY <2>1, <2>2, <4>1
      <4> QED  BY <4>1, <4>2
    <3>2. k <= k /\ ~(k <= n)
      BY <2>1, <2>2
    <3> QED  BY <3>1, <3>2
  <2>4. upTo(n) \in SUBSET Nat /\ upTo(k) \in SUBSET Nat
    OBVIOUS
  <2>5. upTo(n) # upTo(k)
    BY <2>3
  <2>6. <<upTo(n), upTo(k)>> \in StrictSubsetOrdering(Nat)
    <3> HIDE DEF upTo
    <3> QED  BY <2>3, <2>4, <2>5 DEF StrictSubsetOrdering
  <2>7. upTo(n) \in T
    OBVIOUS
  <2> QED  BY <1>3, <1>4, <2>6, <2>7
<1> QED  BY <1>5 DEF RankPage!Min

Once(list) == \A i, j \in 1 .. Len(list) : list[i] = list[j] => i = j

LEMMA HostCardinality == \A S : RankPage!Cardinality(S) = Cardinality(S)
  BY DEF RankPage!Cardinality, Cardinality

LEMMA DistinctIsOnce ==
    ASSUME NEW S, NEW list \in Seq(S)
    PROVE  RankPage!Distinct(list) <=> Once(list)
<1> DEFINE T == {list[i] : i \in 1 .. Len(list)}
<1>1. Len(list) \in Nat /\ DOMAIN list = 1 .. Len(list) /\ list \in [1 .. Len(list) -> S]
  OBVIOUS
<1>2. IsFiniteSet(1 .. Len(list)) /\ Cardinality(1 .. Len(list)) = Len(list)
  BY <1>1, FS_Interval
<1>3. RankPage!ToSet(list) = T
  BY <1>1 DEF RankPage!ToSet
<1>4. list \in Surjection(1 .. Len(list), T)
  BY <1>1 DEF Surjection
<1>5. Cardinality(T) = Len(list) <=> list \in Injection(1 .. Len(list), T)
  <2> HIDE DEF T
  <2> QED  BY <1>2, <1>4, FS_Surjection
<1>6. list \in Injection(1 .. Len(list), T) <=> Once(list)
  BY <1>1 DEF Injection, IsInjective, Once
<1> QED  BY <1>3, <1>5, <1>6, HostCardinality DEF RankPage!Distinct

LEMMA WithoutIsShorter ==
    ASSUME NEW S, NEW list \in Seq(S), NEW i \in 1 .. Len(list)
    PROVE  /\ RankPage!Without(list, i) \in Seq(S)
           /\ Len(RankPage!Without(list, i)) = Len(list) - 1
           /\ \A k \in 1 .. Len(list) - 1 : RankPage!Without(list, i)[k] = IF k < i THEN list[k] ELSE list[k + 1]
<1> DEFINE a == SubSeq(list, 1, i - 1)
           b == SubSeq(list, i + 1, Len(list))
<1>1. Len(list) \in Nat /\ i \in Nat /\ \A k \in 1 .. Len(list) : list[k] \in S
  OBVIOUS
<1>2. a \in Seq(S) /\ Len(a) = i - 1 /\ \A k \in 1 .. i - 1 : a[k] = list[k]
  <2>1. \A k \in 1 .. i - 1 : list[k] \in S
    BY <1>1
  <2>2. /\ a \in Seq(S) /\ Len(a) = IF 1 <= i - 1 THEN i - 1 - 1 + 1 ELSE 0
        /\ \A k \in 1 .. i - 1 - 1 + 1 : a[k] = list[1 + k - 1]
    BY <1>1, <2>1, SubSeqProperties
  <2> HIDE DEF a
  <2> QED  BY <1>1, <2>2
<1>3. b \in Seq(S) /\ Len(b) = Len(list) - i /\ \A k \in 1 .. Len(list) - i : b[k] = list[i + k]
  <2>1. \A k \in i + 1 .. Len(list) : list[k] \in S
    BY <1>1
  <2>2. /\ b \in Seq(S) /\ Len(b) = IF i + 1 <= Len(list) THEN Len(list) - (i + 1) + 1 ELSE 0
        /\ \A k \in 1 .. Len(list) - (i + 1) + 1 : b[k] = list[i + 1 + k - 1]
    BY <1>1, <2>1, SubSeqProperties
  <2> HIDE DEF b
  <2> QED  BY <1>1, <2>2
<1>4. RankPage!Without(list, i) = a \o b
  BY DEF RankPage!Without, RankPage!RemoveAt
<1> HIDE DEF a, b
<1>5. /\ a \o b \in Seq(S) /\ Len(a \o b) = Len(a) + Len(b)
      /\ \A k \in 1 .. Len(a) + Len(b) : (a \o b)[k] = IF k <= Len(a) THEN a[k] ELSE b[k - Len(a)]
  BY <1>2, <1>3, ConcatProperties
<1>6. ASSUME NEW k \in 1 .. Len(list) - 1 PROVE (a \o b)[k] = IF k < i THEN list[k] ELSE list[k + 1]
  <2>1. k \in 1 .. Len(a) + Len(b) /\ (k <= Len(a) <=> k < i)
    BY <1>1, <1>2, <1>3
  <2>2. CASE k < i
    BY <1>1, <1>2, <1>5, <2>1, <2>2
  <2>3. CASE ~(k < i)
    <3>1. k - Len(a) \in 1 .. Len(list) - i /\ i + (k - Len(a)) = k + 1
      BY <1>1, <1>2, <2>3
    <3> QED  BY <1>3, <1>5, <2>1, <2>3, <3>1
  <2> QED  BY <2>2, <2>3
<1> QED  BY <1>1, <1>2, <1>3, <1>4, <1>5, <1>6

LEMMA InsertIsLonger ==
    ASSUME NEW S, NEW list \in Seq(S), NEW i \in 1 .. Len(list) + 1, NEW e \in S
    PROVE  /\ RankPage!InsertAt(list, i, e) \in Seq(S)
           /\ Len(RankPage!InsertAt(list, i, e)) = Len(list) + 1
           /\ \A k \in 1 .. Len(list) + 1 :
                RankPage!InsertAt(list, i, e)[k] = IF k < i THEN list[k] ELSE IF k = i THEN e ELSE list[k - 1]
<1> DEFINE a == SubSeq(list, 1, i - 1)
           b == SubSeq(list, i, Len(list))
           c == a \o <<e>>
<1>1. Len(list) \in Nat /\ i \in Nat /\ \A k \in 1 .. Len(list) : list[k] \in S
  OBVIOUS
<1>2. a \in Seq(S) /\ Len(a) = i - 1 /\ \A k \in 1 .. i - 1 : a[k] = list[k]
  <2>1. \A k \in 1 .. i - 1 : list[k] \in S
    BY <1>1
  <2>2. /\ a \in Seq(S) /\ Len(a) = IF 1 <= i - 1 THEN i - 1 - 1 + 1 ELSE 0
        /\ \A k \in 1 .. i - 1 - 1 + 1 : a[k] = list[1 + k - 1]
    BY <1>1, <2>1, SubSeqProperties
  <2> HIDE DEF a
  <2> QED  BY <1>1, <2>2
<1>3. b \in Seq(S) /\ Len(b) = Len(list) - i + 1 /\ \A k \in 1 .. Len(list) - i + 1 : b[k] = list[i + k - 1]
  <2>1. \A k \in i .. Len(list) : list[k] \in S
    BY <1>1
  <2>2. /\ b \in Seq(S) /\ Len(b) = IF i <= Len(list) THEN Len(list) - i + 1 ELSE 0
        /\ \A k \in 1 .. Len(list) - i + 1 : b[k] = list[i + k - 1]
    BY <1>1, <2>1, SubSeqProperties
  <2> HIDE DEF b
  <2> QED  BY <1>1, <2>2
<1>4. RankPage!InsertAt(list, i, e) = c \o b
  BY DEF RankPage!InsertAt
<1>5. c \in Seq(S) /\ Len(c) = i /\ \A k \in 1 .. i : c[k] = IF k < i THEN list[k] ELSE e
  <2> HIDE DEF a
  <2>1. <<e>> \in Seq(S) /\ Len(<<e>>) = 1 /\ <<e>>[1] = e
    OBVIOUS
  <2>2. /\ c \in Seq(S) /\ Len(c) = Len(a) + 1
        /\ \A k \in 1 .. Len(a) + 1 : c[k] = IF k <= Len(a) THEN a[k] ELSE <<e>>[k - Len(a)]
    BY <1>2, <2>1, ConcatProperties
  <2>3. ASSUME NEW k \in 1 .. i PROVE c[k] = IF k < i THEN list[k] ELSE e
    <3>1. k \in 1 .. Len(a) + 1 /\ (k <= Len(a) <=> k < i) /\ (~(k < i) => k - Len(a) = 1)
      BY <1>1, <1>2
    <3> HIDE DEF c
    <3> QED  BY <1>1, <1>2, <2>1, <2>2, <3>1
  <2> HIDE DEF c
  <2> QED  BY <1>1, <1>2, <2>2, <2>3
<1> HIDE DEF a, b, c
<1>6. /\ c \o b \in Seq(S) /\ Len(c \o b) = Len(c) + Len(b)
      /\ \A k \in 1 .. Len(c) + Len(b) : (c \o b)[k] = IF k <= Len(c) THEN c[k] ELSE b[k - Len(c)]
  BY <1>3, <1>5, ConcatProperties
<1>7. ASSUME NEW k \in 1 .. Len(list) + 1
      PROVE  (c \o b)[k] = IF k < i THEN list[k] ELSE IF k = i THEN e ELSE list[k - 1]
  <2>1. k \in 1 .. Len(c) + Len(b) /\ (k <= Len(c) <=> k <= i)
    BY <1>1, <1>3, <1>5
  <2>2. CASE k <= i
    BY <1>1, <1>5, <1>6, <2>1, <2>2
  <2>3. CASE ~(k <= i)
    <3>1. k - Len(c) \in 1 .. Len(list) - i + 1 /\ i + (k - Len(c)) - 1 = k - 1
      BY <1>1, <1>5, <2>3
    <3>2. (c \o b)[k] = b[k - Len(c)]
      BY <1>6, <2>1, <2>3
    <3>3. b[k - Len(c)] = list[k - 1]
      BY <1>3, <3>1
    <3>4. ~(k < i) /\ k # i
      BY <1>1, <2>3
    <3> QED  BY <3>2, <3>3, <3>4
  <2> QED  BY <2>2, <2>3
<1> QED  BY <1>1, <1>3, <1>4, <1>5, <1>6, <1>7

\* What is filtered keeps its order.
LEMMA KeptIsPart ==
    ASSUME NEW S, NEW list \in Seq(S), NEW set
    PROVE  /\ RankPage!Kept(list, set) \in Seq(S)
           /\ Len(RankPage!Kept(list, set)) <= Len(list)
           /\ \A n \in 1 .. Len(RankPage!Kept(list, set)) : RankPage!Kept(list, set)[n] \in set
           /\ Once(list) => Once(RankPage!Kept(list, set))
<1> DEFINE kept == {i \in DOMAIN list : list[i] \in set}
           place == [i \in kept |-> Cardinality({j \in kept : j <= i})]
           at(n) == CHOOSE i \in kept : place[i] = n
           out == [n \in 1 .. Cardinality(kept) |-> list[at(n)]]
<1>1. Len(list) \in Nat /\ kept \in SUBSET (1 .. Len(list))
  OBVIOUS
<1>2. /\ IsFiniteSet(kept) /\ Cardinality(kept) \in Nat
      /\ \A i \in kept : place[i] \in 1 .. Cardinality(kept)
      /\ \A i, j \in kept : i < j => place[i] < place[j]
      /\ \A n \in 1 .. Cardinality(kept) : \E i \in kept : place[i] = n
  <2> HIDE DEF kept
  <2> QED  BY <1>1, PlacesAreTaken
<1>3. Cardinality(kept) <= Len(list)
  <2>1. IsFiniteSet(1 .. Len(list)) /\ Cardinality(1 .. Len(list)) = Len(list)
    BY <1>1, FS_Interval
  <2> HIDE DEF kept
  <2> QED  BY <1>1, <2>1, FS_Subset
<1>4. RankPage!Kept(list, set) = out
  <2> DEFINE there == [i \in kept |-> RankPage!Cardinality({j \in kept : j <= i})]
  <2>1. there = place
    <3> HIDE DEF kept
    <3> QED  BY HostCardinality
  <2>2. RankPage!Kept(list, set)
          = [n \in 1 .. RankPage!Cardinality(kept) |-> list[CHOOSE i \in kept : there[i] = n]]
    BY DEF RankPage!Kept, RankPage!filter
  <2>3. RankPage!Cardinality(kept) = Cardinality(kept)
    BY HostCardinality
  <2> HIDE DEF there, place, kept
  <2> QED  BY <2>1, <2>2, <2>3
<1>5. \A n \in 1 .. Cardinality(kept) : at(n) \in kept /\ place[at(n)] = n
  <2> HIDE DEF kept, place
  <2> QED  BY <1>2
<1>6. \A n \in 1 .. Cardinality(kept) : out[n] = list[at(n)] /\ out[n] \in S /\ out[n] \in set
  <2>1. \A i \in kept : list[i] \in S /\ list[i] \in set
    OBVIOUS
  <2> HIDE DEF kept, place, at
  <2> QED  BY <1>5, <2>1
<1>7. out \in Seq(S) /\ Len(out) = Cardinality(kept)
  <2>1. \A n \in 1 .. Cardinality(kept) : out[n] \in S
    BY <1>6
  <2> HIDE DEF kept, at
  <2>2. out = [n \in 1 .. Cardinality(kept) |-> out[n]]
    OBVIOUS
  <2> HIDE DEF out
  <2> QED  BY <1>2, <2>1, <2>2
<1>8. ASSUME Once(list) PROVE Once(out)
  <2> SUFFICES ASSUME NEW m \in 1 .. Cardinality(kept), NEW n \in 1 .. Cardinality(kept), out[m] = out[n]
               PROVE  m = n
    <3> HIDE DEF out, kept
    <3> QED  BY <1>7 DEF Once
  <2>1. at(m) \in 1 .. Len(list) /\ at(n) \in 1 .. Len(list) /\ list[at(m)] = list[at(n)]
    <3> HIDE DEF kept, at
    <3> QED  BY <1>1, <1>5, <1>6
  <2>2. at(m) = at(n)
    <3> HIDE DEF at
    <3> QED  BY <1>8, <2>1 DEF Once
  <2> HIDE DEF at, place, kept
  <2> QED  BY <1>5, <2>2
<1> HIDE DEF out, kept, at
<1> QED  BY <1>1, <1>2, <1>3, <1>4, <1>6, <1>7, <1>8

-----------------------------------------------------------------------------
(* The ranking on the host's page.                                         *)

\* A list that can be released: photos of a set, each once, not too many.
Fits(list, S) == list \in Seq(S) /\ Len(list) <= MaxRanked /\ Once(list)

RankPages ==
    [photos : SUBSET Entries, winners : Seq(Entries), released : BOOLEAN, picked : Seq(Entries),
     baseline : Seq(Entries), editing : BOOLEAN, list : Seq(Entries),
     drag : [id : Entries \cup {0}, at : Nat]]
RankPosts ==
    [list : Seq(Entries), at : {"sent", "released", "refused"}, apart : BOOLEAN, asShown : {TRUE}]

\* A page beside the photos that are seen, the photos that won and whether it is
\* old: its rows are its picks but during a drag, it shows what it loaded, and
\* as long as no row fell out of the list, the list under a drag can be released
\* and the row is in it.
HonestPage(p, seen, won, old, fumbled) ==
    /\ p \in RankPages
    /\ p.drag.id = 0 => p.drag.at = 0
    /\ p.drag.at \in 0 .. Len(p.list)
    /\ Fits(p.baseline, p.photos)
    /\ p.editing /\ p.drag.id = 0 => p.list = p.picked
    /\ ~p.editing => p.picked = p.baseline /\ p.list = p.winners
    /\ ~old => p.winners = won /\ p.photos = seen
    /\ ~fumbled =>
         /\ Fits(p.picked, p.photos)
         /\ p.editing => Fits(p.list, p.photos)
         /\ p.drag.id # 0 => p.editing /\ p.drag.at \in DOMAIN p.list /\ p.list[p.drag.at] = p.drag.id

\* A release posted from a page that is still fresh can be released.
PostsInv ==
    /\ releases \in Seq(RankPosts)
    /\ \A i \in DOMAIN releases :
         /\ releases[i].at = "refused" => releases[i].apart \/ fumbles > 0
         /\ releases[i].at = "sent" /\ ~stale /\ fumbles = 0 => Fits(releases[i].list, visible)

RankInv ==
    /\ visible \subseteq Entries /\ marker \in BOOLEAN /\ stale \in BOOLEAN /\ fumbles \in Nat
    /\ Fits(award, Entries)
    /\ HonestPage(editor, visible, award, stale, fumbles > 0)
    /\ PostsInv

\* A list without one of its photos, with one more, with one elsewhere.
LEMMA FitsWithout ==
    ASSUME NEW S, NEW list \in Seq(S), NEW i \in 1 .. Len(list), Fits(list, S)
    PROVE  /\ Fits(RankPage!Without(list, i), S) /\ Len(RankPage!Without(list, i)) = Len(list) - 1
           /\ \A k \in 1 .. Len(list) - 1 : RankPage!Without(list, i)[k] # list[i]
<1> DEFINE out == RankPage!Without(list, i)
<1>1. /\ out \in Seq(S) /\ Len(out) = Len(list) - 1 /\ Len(list) \in Nat /\ MaxRanked \in Nat
      /\ \A k \in 1 .. Len(list) - 1 : out[k] = IF k < i THEN list[k] ELSE list[k + 1]
  BY WithoutIsShorter, BadgesAssumption
<1> DEFINE from(k) == IF k < i THEN k ELSE k + 1
<1>2. ASSUME NEW k \in 1 .. Len(list) - 1 PROVE from(k) \in 1 .. Len(list) /\ from(k) # i /\ out[k] = list[from(k)]
  <2> HIDE DEF out
  <2> QED  BY <1>1
<1>3. Once(list) /\ Len(list) <= MaxRanked
  BY DEF Fits
<1>4. Once(out)
  <2> HIDE DEF out
  <2> SUFFICES ASSUME NEW k \in 1 .. Len(list) - 1, NEW n \in 1 .. Len(list) - 1, out[k] = out[n] PROVE k = n
    BY <1>1 DEF Once
  <2>1. from(k) = from(n)
    <3>1. list[from(k)] = list[from(n)] /\ from(k) \in 1 .. Len(list) /\ from(n) \in 1 .. Len(list)
      BY <1>2
    <3> HIDE DEF from
    <3> QED  BY <1>3, <3>1 DEF Once
  <2> QED  BY <2>1, <1>1
<1>5. ASSUME NEW k \in 1 .. Len(list) - 1, out[k] = list[i] PROVE FALSE
  <2>1. from(k) \in 1 .. Len(list) /\ from(k) # i /\ out[k] = list[from(k)]
    BY <1>2
  <2> HIDE DEF out, from
  <2>2. list[from(k)] = list[i]
    BY <1>5, <2>1
  <2> QED  BY <1>3, <2>1, <2>2 DEF Once
<1>6. Fits(out, S)
  <2> HIDE DEF out
  <2> QED  BY <1>1, <1>3, <1>4 DEF Fits
<1> HIDE DEF from
<1> QED  BY <1>1, <1>5, <1>6

LEMMA FitsInsert ==
    ASSUME NEW S, NEW list \in Seq(S), NEW i \in 1 .. Len(list) + 1, NEW e \in S,
           Once(list), Len(list) < MaxRanked, \A k \in 1 .. Len(list) : list[k] # e
    PROVE  /\ Fits(RankPage!InsertAt(list, i, e), S) /\ RankPage!InsertAt(list, i, e)[i] = e
           /\ Len(RankPage!InsertAt(list, i, e)) = Len(list) + 1
<1> DEFINE out == RankPage!InsertAt(list, i, e)
<1>1. /\ out \in Seq(S) /\ Len(out) = Len(list) + 1 /\ Len(list) \in Nat /\ MaxRanked \in Nat
      /\ \A k \in 1 .. Len(list) + 1 : out[k] = IF k < i THEN list[k] ELSE IF k = i THEN e ELSE list[k - 1]
  BY InsertIsLonger, BadgesAssumption
<1> HIDE DEF out
<1> DEFINE from(k) == IF k < i THEN k ELSE k - 1
<1>2. ASSUME NEW k \in 1 .. Len(list) + 1, k # i PROVE from(k) \in 1 .. Len(list) /\ out[k] = list[from(k)]
  BY <1>1, <1>2
<1>3. out[i] = e
  BY <1>1
<1>4. ASSUME NEW k \in 1 .. Len(list) + 1, NEW n \in 1 .. Len(list) + 1, out[k] = out[n] PROVE k = n
  <2>1. CASE k = i /\ n = i
    BY <2>1
  <2>2. CASE k = i /\ n # i
    <3> HIDE DEF from
    <3> QED  BY <1>2, <1>3, <1>4, <2>2
  <2>3. CASE k # i /\ n = i
    <3> HIDE DEF from
    <3> QED  BY <1>2, <1>3, <1>4, <2>3
  <2>4. CASE k # i /\ n # i
    <3>1. from(k) = from(n)
      <4> HIDE DEF from
      <4> QED  BY <1>2, <1>4, <2>4 DEF Once
    <3> QED  BY <1>1, <2>4, <3>1
  <2> QED  BY <2>1, <2>2, <2>3, <2>4
<1>5. Once(out)
  BY <1>1, <1>4 DEF Once
<1> QED  BY <1>1, <1>3, <1>5 DEF Fits, out

LEMMA FitsMoved ==
    ASSUME NEW S, NEW list \in Seq(S), NEW i \in 1 .. Len(list), Fits(list, S),
           NEW n \in 1 .. Len(RankPage!Without(list, i)) + 1
    PROVE  LET moved == RankPage!InsertAt(RankPage!Without(list, i), n, list[i])
           IN  Fits(moved, S) /\ moved[n] = list[i] /\ n \in DOMAIN moved
<1> DEFINE out == RankPage!Without(list, i)
<1>1. /\ Fits(out, S) /\ Len(out) = Len(list) - 1
      /\ \A k \in 1 .. Len(out) : out[k] # list[i]
  BY FitsWithout
<1>2. list[i] \in S /\ Len(list) <= MaxRanked /\ Len(list) \in Nat /\ MaxRanked \in Nat
  BY BadgesAssumption DEF Fits
<1> HIDE DEF out
<1>3. out \in Seq(S) /\ Once(out) /\ Len(out) < MaxRanked /\ n \in 1 .. Len(out) + 1
  BY <1>1, <1>2 DEF Fits, out
<1>4. /\ Fits(RankPage!InsertAt(out, n, list[i]), S) /\ RankPage!InsertAt(out, n, list[i])[n] = list[i]
      /\ Len(RankPage!InsertAt(out, n, list[i])) = Len(out) + 1
  BY <1>1, <1>2, <1>3, FitsInsert
<1>5. n \in DOMAIN RankPage!InsertAt(out, n, list[i])
  <2>1. RankPage!InsertAt(out, n, list[i]) \in Seq(S)
    BY <1>4 DEF Fits
  <2> QED  BY <1>3, <1>4, <2>1
<1> QED  BY <1>4, <1>5 DEF out

LEMMA FitsAppend ==
    ASSUME NEW S, NEW list \in Seq(S), NEW e \in S,
           Fits(list, S), Len(list) < MaxRanked, \A k \in 1 .. Len(list) : list[k] # e
    PROVE  Fits(Append(list, e), S)
<1>1. /\ Append(list, e) \in Seq(S) /\ Len(Append(list, e)) = Len(list) + 1 /\ Len(list) \in Nat
      /\ MaxRanked \in Nat /\ Append(list, e)[Len(list) + 1] = e
      /\ \A k \in 1 .. Len(list) : Append(list, e)[k] = list[k]
  BY AppendProperties, BadgesAssumption
<1>2. ASSUME NEW k \in 1 .. Len(list) + 1, NEW n \in 1 .. Len(list) + 1, Append(list, e)[k] = Append(list, e)[n]
      PROVE  k = n
  <2>1. Once(list)
    BY DEF Fits
  <2>2. CASE k = Len(list) + 1 /\ n = Len(list) + 1
    BY <2>2
  <2>3. CASE k = Len(list) + 1 /\ n \in 1 .. Len(list)
    BY <1>1, <1>2, <2>3
  <2>4. CASE n = Len(list) + 1 /\ k \in 1 .. Len(list)
    BY <1>1, <1>2, <2>4
  <2>5. CASE n \in 1 .. Len(list) /\ k \in 1 .. Len(list)
    BY <1>1, <1>2, <2>1, <2>5 DEF Once
  <2> QED  BY <1>1, <2>2, <2>3, <2>4, <2>5
<1>3. Once(Append(list, e))
  BY <1>1, <1>2 DEF Once
<1> QED  BY <1>1, <1>3 DEF Fits

\* The server accepts exactly the lists that fit.
LEMMA AcceptsWhatFits ==
    ASSUME NEW list \in Seq(Entries), visible \subseteq Entries
    PROVE  RankPage!Accepts(list) <=> Fits(list, visible)
<1>1. RankPage!ToSet(list) \subseteq visible <=> list \in Seq(visible)
  <2>1. list \in [1 .. Len(list) -> Entries] /\ Len(list) \in Nat /\ DOMAIN list = 1 .. Len(list)
    OBVIOUS
  <2>2. RankPage!ToSet(list) = {list[i] : i \in 1 .. Len(list)}
    BY <2>1 DEF RankPage!ToSet
  <2>3. ASSUME RankPage!ToSet(list) \subseteq visible PROVE list \in Seq(visible)
    <3>1. list \in [1 .. Len(list) -> visible]
      BY <2>1, <2>2, <2>3
    <3> QED  BY <2>1, <3>1
  <2>4. ASSUME list \in Seq(visible) PROVE RankPage!ToSet(list) \subseteq visible
    <3>1. \A i \in 1 .. Len(list) : list[i] \in visible
      BY <2>4
    <3> QED  BY <2>2, <3>1
  <2> QED  BY <2>3, <2>4
<1>2. RankPage!Distinct(list) <=> Once(list)
  BY DistinctIsOnce
<1> QED  BY <1>1, <1>2 DEF RankPage!Accepts, Fits

\* What the page picks of a ranking can be released again.
LEMMA SeedFits ==
    ASSUME NEW list \in Seq(Entries), Fits(list, Entries), NEW seen \in SUBSET Entries
    PROVE  Fits(RankPage!Seed(list, seen), seen)
<1> DEFINE out == RankPage!Kept(list, seen)
<1>1. /\ out \in Seq(Entries) /\ Len(out) <= Len(list)
      /\ \A n \in 1 .. Len(out) : out[n] \in seen
      /\ Once(list) => Once(out)
  BY KeptIsPart
<1> HIDE DEF out
<1>2. Once(list) /\ Len(list) <= MaxRanked /\ Len(list) \in Nat /\ MaxRanked \in Nat /\ Len(out) \in Nat
  BY <1>1, BadgesAssumption DEF Fits
<1>3. out \in Seq(seen)
  <2>1. out = [n \in 1 .. Len(out) |-> out[n]]
    BY <1>1
  <2>2. out \in [1 .. Len(out) -> seen]
    BY <1>1, <2>1
  <2> QED  BY <1>2, <2>2
<1>4. Fits(out, seen)
  BY <1>1, <1>2, <1>3 DEF Fits
<1> QED  BY <1>4 DEF RankPage!Seed, out

LEMMA PickIsIn ==
    ASSUME NEW S, NEW list \in Seq(S), NEW p, RankPage!Contains(list, p)
    PROVE  RankPage!indexOf(list, p) \in 1 .. Len(list)
<1> DEFINE T == {i \in DOMAIN list : list[i] = p}
<1>1. T \in SUBSET Nat /\ T # {} /\ T \subseteq 1 .. Len(list)
  BY DEF RankPage!Contains
<1>2. RankPage!indexOf(list, p) = RankPage!Min(T)
  BY DEF RankPage!indexOf
<1> HIDE DEF T
<1>3. RankPage!Min(T) \in T
  BY <1>1, LeastPlace
<1> QED  BY <1>1, <1>2, <1>3

-----------------------------------------------------------------------------
(* The page's own steps.                                                   *)

LEMMA DragIsNone ==
    ASSUME NEW p \in RankPages, p.drag.id = 0 => p.drag.at = 0
    PROVE  p.drag = RankPage!NoDrag <=> p.drag.id = 0
  BY DEF RankPages, RankPage!NoDrag

\* Releases stay explained while nothing but the page moves.
LEMMA PostsKept ==
    ASSUME PostsInv, UNCHANGED releases, fumbles \in Nat, fumbles' \in Nat, fumbles <= fumbles',
           stale' = TRUE \/ UNCHANGED <<stale, visible>>
    PROVE  PostsInv'
<1>1. fumbles > 0 => fumbles' > 0
  OBVIOUS
<1>2. fumbles' = 0 => fumbles = 0
  OBVIOUS
<1>3. releases' = releases
  OBVIOUS
<1>4. ASSUME NEW i \in DOMAIN releases
      PROVE  /\ releases[i].at = "refused" => releases[i].apart \/ fumbles' > 0
             /\ releases[i].at = "sent" /\ ~stale' /\ fumbles' = 0 => Fits(releases[i].list, visible')
  <2>1. /\ releases[i].at = "refused" => releases[i].apart \/ fumbles > 0
        /\ releases[i].at = "sent" /\ ~stale /\ fumbles = 0 => Fits(releases[i].list, visible)
    BY DEF PostsInv
  <2>2. releases[i].at = "refused" => releases[i].apart \/ fumbles' > 0
    BY <1>1, <2>1
  <2>3. ASSUME releases[i].at = "sent", ~stale', fumbles' = 0 PROVE Fits(releases[i].list, visible')
    <3>1. stale' = stale /\ visible' = visible
      BY <2>3
    <3>2. Fits(releases[i].list, visible)
      BY <1>2, <2>1, <2>3, <3>1
    <3> QED  BY <3>1, <3>2
  <2> QED  BY <2>2, <2>3
<1> QED  BY <1>3, <1>4 DEF PostsInv

\* A redraw: the list is made anew from the picks, and a row under a drag falls
\* out of it.
LEMMA RenderKeeps ==
    ASSUME RankInv, NEW p \in RankPages, RankPage!render(p),
           p.drag = editor.drag, p.photos = editor.photos, p.winners = editor.winners,
           p.baseline = editor.baseline, ~p.editing => p.picked = p.baseline,
           fumbles = 0 => Fits(p.picked, p.photos)
    PROVE  RankInv'
<1>1. HonestPage(editor, visible, award, stale, fumbles > 0) /\ fumbles \in Nat /\ PostsInv
  BY DEF RankInv
<1>2. p.drag = RankPage!NoDrag <=> p.drag.id = 0
  BY <1>1, DragIsNone DEF HonestPage
<1>3. /\ fumbles' = IF p.drag.id = 0 THEN fumbles ELSE fumbles + 1
      /\ UNCHANGED <<visible, award, marker, releases, changes, stale>>
  BY <1>2 DEF RankPage!render
<1>4. editor' = [p EXCEPT !.list = IF p.editing THEN p.picked ELSE p.winners, !.drag = [p.drag EXCEPT !.at = 0]]
  BY DEF RankPage!render, RankPage!Draw, RankPages
<1>5. editor' \in RankPages
  BY <1>4 DEF RankPages
<1>6. fumbles' \in Nat /\ fumbles <= fumbles' /\ (fumbles' = 0 => fumbles = 0 /\ p.drag.id = 0)
  BY <1>1, <1>3
<1>7. /\ editor'.photos = p.photos /\ editor'.winners = p.winners /\ editor'.baseline = p.baseline
      /\ editor'.editing = p.editing /\ editor'.picked = p.picked
      /\ editor'.list = (IF p.editing THEN p.picked ELSE p.winners)
      /\ editor'.drag.id = p.drag.id /\ editor'.drag.at = 0
  BY <1>4 DEF RankPages
<1>8. HonestPage(editor', visible, award, stale, fumbles' > 0)
  <2>1. Fits(p.baseline, p.photos) /\ (~stale => p.winners = award /\ p.photos = visible)
    BY <1>1 DEF HonestPage
  <2>2. ~(fumbles' > 0) => fumbles' = 0
    BY <1>6
  <2> QED  BY <1>5, <1>6, <1>7, <2>1, <2>2 DEF HonestPage
<1>9. PostsInv'
  BY <1>1, <1>3, <1>6, PostsKept
<1> QED  BY <1>3, <1>6, <1>8, <1>9 DEF RankInv

LEMMA EditKeeps == RankInv /\ RankPage!Edit => RankInv'
<1> SUFFICES ASSUME RankInv, RankPage!Edit PROVE RankInv'
  OBVIOUS
<1> DEFINE p == [editor EXCEPT !.editing = TRUE]
<1>1. HonestPage(editor, visible, award, stale, fumbles > 0) /\ fumbles \in Nat
  BY DEF RankInv
<1>2. p \in RankPages /\ p.editing = TRUE /\ p.drag = editor.drag /\ p.photos = editor.photos
      /\ p.winners = editor.winners /\ p.baseline = editor.baseline /\ p.picked = editor.picked
  BY <1>1 DEF HonestPage, RankPages
<1>3. RankPage!render(p)
  BY DEF RankPage!Edit
<1> HIDE DEF p
<1>4. fumbles = 0 => Fits(p.picked, p.photos)
  BY <1>1, <1>2 DEF HonestPage
<1> QED  BY <1>2, <1>3, <1>4, RenderKeeps

LEMMA CancelKeeps == RankInv /\ RankPage!Cancel => RankInv'
<1> SUFFICES ASSUME RankInv, RankPage!Cancel PROVE RankInv'
  OBVIOUS
<1> DEFINE p == [editor EXCEPT !.editing = FALSE, !.picked = editor.baseline]
<1>1. HonestPage(editor, visible, award, stale, fumbles > 0) /\ fumbles \in Nat
  BY DEF RankInv
<1>2. p \in RankPages /\ p.editing = FALSE /\ p.drag = editor.drag /\ p.photos = editor.photos
      /\ p.winners = editor.winners /\ p.baseline = editor.baseline /\ p.picked = editor.baseline
  BY <1>1 DEF HonestPage, RankPages
<1>3. RankPage!render(p)
  BY DEF RankPage!Cancel
<1> HIDE DEF p
<1>4. fumbles = 0 => Fits(p.picked, p.photos)
  BY <1>1, <1>2 DEF HonestPage
<1> QED  BY <1>2, <1>3, <1>4, RenderKeeps

LEMMA ToggleKeeps == ASSUME NEW id \in Entries PROVE RankInv /\ RankPage!togglePick(id) => RankInv'
<1> SUFFICES ASSUME RankInv, RankPage!togglePick(id) PROVE RankInv'
  OBVIOUS
<1> DEFINE with(picks) == [editor EXCEPT !.picked = picks]
<1>1. HonestPage(editor, visible, award, stale, fumbles > 0) /\ fumbles \in Nat
  BY DEF RankInv
<1>2. ASSUME NEW picks \in Seq(Entries), RankPage!render(with(picks)), fumbles = 0 => Fits(picks, editor.photos)
      PROVE  RankInv'
  <2>1. /\ with(picks) \in RankPages /\ with(picks).editing = editor.editing /\ with(picks).drag = editor.drag
        /\ with(picks).photos = editor.photos /\ with(picks).winners = editor.winners
        /\ with(picks).baseline = editor.baseline /\ with(picks).picked = picks
    BY <1>1 DEF HonestPage, RankPages
  <2>2. editor.editing
    BY DEF RankPage!togglePick
  <2> HIDE DEF with
  <2> QED  BY <1>2, <2>1, <2>2, RenderKeeps
<1>3. /\ editor.picked \in Seq(Entries) /\ editor.photos \subseteq Entries /\ id \in editor.photos
      /\ fumbles = 0 => Fits(editor.picked, editor.photos)
  BY <1>1 DEF HonestPage, RankPages, RankPage!togglePick
<1>4. CASE RankPage!Contains(editor.picked, id)
  <2> DEFINE i == RankPage!indexOf(editor.picked, id)
  <2>1. i \in 1 .. Len(editor.picked)
    BY <1>3, <1>4, PickIsIn
  <2>2. RankPage!render(with(RankPage!Without(editor.picked, i)))
    BY <1>4 DEF RankPage!togglePick
  <2> HIDE DEF i, with
  <2>3. RankPage!Without(editor.picked, i) \in Seq(Entries)
    BY <1>3, <2>1, WithoutIsShorter
  <2>4. fumbles = 0 => Fits(RankPage!Without(editor.picked, i), editor.photos)
    <3> SUFFICES ASSUME fumbles = 0 PROVE Fits(RankPage!Without(editor.picked, i), editor.photos)
      OBVIOUS
    <3>1. editor.picked \in Seq(editor.photos) /\ Fits(editor.picked, editor.photos)
      BY <1>3 DEF Fits
    <3> QED  BY <2>1, <3>1, FitsWithout
  <2> QED  BY <1>2, <2>2, <2>3, <2>4
<1>5. CASE ~RankPage!Contains(editor.picked, id) /\ Len(editor.picked) < MaxRanked
  <2>1. RankPage!render(with(Append(editor.picked, id)))
    BY <1>5 DEF RankPage!togglePick
  <2> HIDE DEF with
  <2>2. Append(editor.picked, id) \in Seq(Entries)
    BY <1>3
  <2>3. fumbles = 0 => Fits(Append(editor.picked, id), editor.photos)
    <3> SUFFICES ASSUME fumbles = 0 PROVE Fits(Append(editor.picked, id), editor.photos)
      OBVIOUS
    <3>1. editor.picked \in Seq(editor.photos) /\ Fits(editor.picked, editor.photos)
      BY <1>3 DEF Fits
    <3>2. \A k \in 1 .. Len(editor.picked) : editor.picked[k] # id
      BY <1>5 DEF RankPage!Contains
    <3> QED  BY <1>3, <1>5, <3>1, <3>2, FitsAppend
  <2> QED  BY <1>2, <2>1, <2>2, <2>3
<1>6. CASE ~RankPage!Contains(editor.picked, id) /\ ~(Len(editor.picked) < MaxRanked)
  <2>1. RankPage!render(editor) /\ editor.editing
    BY <1>6 DEF RankPage!togglePick
  <2>2. editor \in RankPages
    BY <1>1 DEF HonestPage
  <2> QED  BY <1>3, <2>1, <2>2, RenderKeeps
<1> QED  BY <1>4, <1>5, <1>6

\* Steps of a finger on the list.
LEMMA DrawnKeeps ==
    ASSUME RankInv, NEW p, RankPage!Drawn(p), HonestPage(p, visible, award, stale, fumbles > 0)
    PROVE  RankInv'
<1>1. /\ editor' = p /\ UNCHANGED <<visible, award, marker, releases, changes, fumbles, stale>>
      /\ fumbles \in Nat /\ PostsInv
  BY DEF RankPage!Drawn, RankInv
<1>2. PostsInv'
  BY <1>1, PostsKept
<1>3. HonestPage(editor, visible, award, stale, fumbles > 0)'
  BY <1>1
<1> QED  BY <1>1, <1>2, <1>3 DEF RankInv

LEMMA GrabKeeps == ASSUME NEW i \in Nat PROVE RankInv /\ RankPage!Grab(i) => RankInv'
<1> SUFFICES ASSUME RankInv, RankPage!Grab(i) PROVE RankInv'
  OBVIOUS
<1> DEFINE p == [editor EXCEPT !.drag = [id |-> editor.list[i], at |-> i]]
<1>1. HonestPage(editor, visible, award, stale, fumbles > 0) /\ fumbles \in Nat
  BY DEF RankInv
<1>2. editor.editing /\ i \in DOMAIN editor.list /\ editor.drag = RankPage!NoDrag /\ RankPage!Drawn(p)
  BY DEF RankPage!Grab
<1>3. editor \in RankPages /\ editor.list \in Seq(Entries) /\ editor.list[i] \in Entries /\ editor.list[i] # 0
  BY <1>1, <1>2, HostAssumption DEF HonestPage, RankPages
<1>4. /\ p \in RankPages /\ p.editing /\ p.list = editor.list /\ p.picked = editor.picked
      /\ p.baseline = editor.baseline /\ p.winners = editor.winners /\ p.photos = editor.photos
      /\ p.drag.id = editor.list[i] /\ p.drag.at = i
  BY <1>2, <1>3 DEF RankPages
<1> HIDE DEF p
<1>5. HonestPage(p, visible, award, stale, fumbles > 0)
  BY <1>1, <1>2, <1>3, <1>4 DEF HonestPage
<1> QED  BY <1>2, <1>5, DrawnKeeps

LEMMA MoveKeeps == ASSUME NEW n \in Nat PROVE RankInv /\ RankPage!Move(n) => RankInv'
<1> SUFFICES ASSUME RankInv, RankPage!Move(n) PROVE RankInv'
  OBVIOUS
<1> DEFINE rest == IF editor.drag.at = 0 THEN editor.list ELSE RankPage!Without(editor.list, editor.drag.at)
           list == RankPage!InsertAt(rest, n, editor.drag.id)
           p == [editor EXCEPT !.list = list, !.drag.at = n]
<1>1. HonestPage(editor, visible, award, stale, fumbles > 0) /\ fumbles \in Nat
  BY DEF RankInv
<1>2. /\ editor.editing /\ editor.drag # RankPage!NoDrag /\ n \in 1 .. Len(rest) + 1
      /\ RankPage!Drawn(p)
  BY DEF RankPage!Move
<1>3. /\ editor \in RankPages /\ editor.list \in Seq(Entries) /\ editor.drag.id \in Entries
      /\ editor.drag.id # 0 /\ editor.drag.at \in 0 .. Len(editor.list)
  <2>1. /\ editor \in RankPages /\ (editor.drag.id = 0 => editor.drag.at = 0)
        /\ editor.drag.at \in 0 .. Len(editor.list)
    BY <1>1 DEF HonestPage
  <2>2. editor.drag.id # 0
    BY <1>2, <2>1, DragIsNone
  <2> QED  BY <2>1, <2>2 DEF RankPages
<1>4. list \in Seq(Entries) /\ Len(list) = Len(rest) + 1
  <2>1. rest \in Seq(Entries)
    <3>1. CASE editor.drag.at = 0
      BY <1>3, <3>1
    <3>2. CASE editor.drag.at # 0
      <4>1. editor.drag.at \in 1 .. Len(editor.list)
        BY <1>3, <3>2
      <4>2. RankPage!Without(editor.list, editor.drag.at) \in Seq(Entries)
        BY <1>3, <4>1, WithoutIsShorter
      <4> QED  BY <3>2, <4>2
    <3> QED  BY <3>1, <3>2
  <2> HIDE DEF rest
  <2> QED  BY <1>2, <1>3, <2>1, InsertIsLonger
<1>5. ASSUME ~(fumbles > 0)
      PROVE  Fits(list, editor.photos) /\ n \in DOMAIN list /\ list[n] = editor.drag.id
  <2>1. /\ Fits(editor.list, editor.photos) /\ editor.drag.at \in DOMAIN editor.list
        /\ editor.list[editor.drag.at] = editor.drag.id
    BY <1>1, <1>2, <1>3, <1>5 DEF HonestPage
  <2>2. editor.list \in Seq(editor.photos) /\ editor.drag.at \in 1 .. Len(editor.list)
    BY <2>1 DEF Fits
  <2>3. rest = RankPage!Without(editor.list, editor.drag.at)
    BY <2>2
  <2> HIDE DEF rest
  <2> QED  BY <1>2, <2>1, <2>2, <2>3, FitsMoved
<1>6. n \in 0 .. Len(list)
  <2> HIDE DEF list, rest
  <2> QED  BY <1>2, <1>4
<1> HIDE DEF list, rest
<1>7. /\ p \in RankPages /\ p.editing /\ p.list = list /\ p.picked = editor.picked
      /\ p.baseline = editor.baseline /\ p.winners = editor.winners /\ p.photos = editor.photos
      /\ p.drag.id = editor.drag.id /\ p.drag.at = n
  BY <1>2, <1>3, <1>4 DEF RankPages
<1> HIDE DEF p
<1>8. HonestPage(p, visible, award, stale, fumbles > 0)
  BY <1>1, <1>3, <1>5, <1>6, <1>7 DEF HonestPage
<1> QED  BY <1>2, <1>8, DrawnKeeps

LEMMA EndDragKeeps == RankInv /\ RankPage!endDrag => RankInv'
<1> SUFFICES ASSUME RankInv, RankPage!endDrag PROVE RankInv'
  OBVIOUS
<1> DEFINE p == [editor EXCEPT !.drag = RankPage!NoDrag, !.picked = editor.list]
<1>1. HonestPage(editor, visible, award, stale, fumbles > 0) /\ fumbles \in Nat
  BY DEF RankInv
<1>2. editor.editing /\ RankPage!Drawn(p)
  BY DEF RankPage!endDrag
<1>3. /\ p \in RankPages /\ p.editing /\ p.list = editor.list /\ p.picked = editor.list
      /\ p.baseline = editor.baseline /\ p.winners = editor.winners /\ p.photos = editor.photos
      /\ p.drag.id = 0 /\ p.drag.at = 0
  BY <1>1, <1>2 DEF HonestPage, RankPages, RankPage!NoDrag
<1> HIDE DEF p
<1>4. HonestPage(p, visible, award, stale, fumbles > 0)
  BY <1>1, <1>2, <1>3 DEF HonestPage
<1> QED  BY <1>2, <1>4, DrawnKeeps

-----------------------------------------------------------------------------
(* What happens elsewhere makes the page an old one.                       *)

\* The page is old: what it loaded need not be there any more.
LEMMA OldPage ==
    ASSUME NEW p, NEW seen, NEW won, NEW seen2, NEW won2, NEW old, NEW fumbled,
           HonestPage(p, seen, won, old, fumbled)
    PROVE  HonestPage(p, seen2, won2, TRUE, fumbled)
  BY DEF HonestPage

LEMMA ElsewhereKeeps ==
    ASSUME RankInv, RankPage!Elsewhere, (visible \subseteq Entries)', Fits(award, Entries)', (marker \in BOOLEAN)'
    PROVE  RankInv'
<1>1. stale' = TRUE /\ UNCHANGED <<editor, releases, fumbles>>
  BY DEF RankPage!Elsewhere
<1>2. PostsInv'
  BY <1>1, PostsKept DEF RankInv
<1>3. HonestPage(editor', visible', award', stale', fumbles' > 0)
  BY <1>1, OldPage DEF RankInv
<1> QED  BY <1>1, <1>2, <1>3 DEF RankInv

LEMMA PhotosKeep ==
    ASSUME NEW p \in Entries
    PROVE  RankInv /\ (RankPage!TakeDown(p) \/ RankPage!Restore(p)) => RankInv'
<1> SUFFICES ASSUME RankInv, RankPage!TakeDown(p) \/ RankPage!Restore(p) PROVE RankInv'
  OBVIOUS
<1>1. /\ RankPage!Elsewhere /\ visible' \subseteq Entries
      /\ award' = award /\ marker' = marker
  BY DEF RankInv, RankPage!TakeDown, RankPage!Restore
<1> QED  BY <1>1, ElsewhereKeeps DEF RankInv

\* All of a release or nothing.
LEMMA ReleaseIsWhole ==
    ASSUME RankInv, NEW list \in Seq(Entries), RankPage!releaseRanking(list)
    PROVE  /\ Fits(award', Entries) /\ marker' \in BOOLEAN
           /\ Fits(list, visible) => award' = list /\ marker' = TRUE
           /\ (award' = list /\ marker' = TRUE) \/ award' = award
<1>1. RankPage!Accepts(list) <=> Fits(list, visible)
  BY AcceptsWhatFits DEF RankInv
<1>2. Fits(list, visible) => Fits(list, Entries)
  BY DEF Fits
<1>3. IF Fits(list, visible) THEN award' = list /\ marker' = TRUE ELSE award' = award /\ marker' = marker
  BY <1>1 DEF RankPage!releaseRanking
<1> QED  BY <1>2, <1>3 DEF RankInv

LEMMA OtherReleaseKeeps ==
    ASSUME NEW p \in Entries PROVE RankInv /\ RankPage!OtherRelease(p) => RankInv'
<1> SUFFICES ASSUME RankInv, RankPage!OtherRelease(p) PROVE RankInv'
  OBVIOUS
<1>1. RankPage!Elsewhere /\ RankPage!releaseRanking(<<p>>) /\ visible' = visible
  BY DEF RankPage!OtherRelease
<1>2. <<p>> \in Seq(Entries)
  OBVIOUS
<1>3. Fits(award', Entries) /\ marker' \in BOOLEAN
  BY <1>1, <1>2, ReleaseIsWhole
<1> QED  BY <1>1, <1>3, ElsewhereKeeps DEF RankInv

-----------------------------------------------------------------------------
(* The press, the answer, and a page loaded again.                         *)

LEMMA ReleasePressKeeps == RankInv /\ RankPage!Release => RankInv'
<1> SUFFICES ASSUME RankInv, RankPage!Release PROVE RankInv'
  OBVIOUS
<1> DEFINE post == [list |-> editor.picked, at |-> "sent", apart |-> FALSE,
                    asShown |-> editor.picked = editor.list \/ editor.drag # RankPage!NoDrag]
<1>1. HonestPage(editor, visible, award, stale, fumbles > 0) /\ fumbles \in Nat /\ PostsInv
  BY DEF RankInv
<1>2. /\ editor.editing /\ releases' = Append(releases, post)
      /\ UNCHANGED <<visible, award, marker, editor, changes, fumbles, stale>>
  BY DEF RankPage!Release
<1>3. post \in RankPosts
  <2>1. editor.picked \in Seq(Entries)
    BY <1>1 DEF HonestPage, RankPages
  <2>2. editor.picked = editor.list \/ editor.drag # RankPage!NoDrag
    BY <1>1, <1>2, DragIsNone DEF HonestPage
  <2>3. (editor.picked = editor.list \/ editor.drag # RankPage!NoDrag) = TRUE
    BY <2>2
  <2> QED  BY <2>1, <2>3 DEF RankPosts
<1>4. post.at = "sent" /\ post.list = editor.picked
  OBVIOUS
<1> HIDE DEF post
<1>5. ~stale /\ fumbles = 0 => Fits(post.list, visible)
  BY <1>1, <1>4 DEF HonestPage
<1>6. /\ releases \in Seq(RankPosts) /\ releases' \in Seq(RankPosts)
      /\ DOMAIN releases' = DOMAIN releases \cup {Len(releases) + 1}
      /\ releases'[Len(releases) + 1] = post
      /\ \A i \in DOMAIN releases : releases'[i] = releases[i]
  <2>1. releases \in Seq(RankPosts)
    BY <1>1 DEF PostsInv
  <2> QED  BY <1>2, <1>3, <2>1
<1>7. ASSUME NEW i \in DOMAIN releases'
      PROVE  /\ releases'[i].at = "refused" => releases'[i].apart \/ fumbles > 0
             /\ releases'[i].at = "sent" /\ ~stale /\ fumbles = 0 => Fits(releases'[i].list, visible)
  <2>1. CASE i \in DOMAIN releases
    BY <1>1, <1>6, <2>1 DEF PostsInv
  <2>2. CASE i = Len(releases) + 1
    BY <1>4, <1>5, <1>6, <2>2
  <2> QED  BY <1>6, <2>1, <2>2
<1>8. PostsInv'
  BY <1>2, <1>6, <1>7 DEF PostsInv
<1>9. HonestPage(editor, visible, award, stale, fumbles > 0)'
  BY <1>1, <1>2
<1> QED  BY <1>2, <1>8, <1>9 DEF RankInv

\* A page as it is loaded.
Fresh(seen, won, isReleased) ==
    RankPage!Draw([photos |-> seen, winners |-> won, released |-> isReleased,
                   picked |-> RankPage!Seed(won, seen), baseline |-> RankPage!Seed(won, seen),
                   editing |-> ~isReleased, list |-> <<>>, drag |-> RankPage!NoDrag])

LEMMA FreshIsHonest ==
    ASSUME NEW seen \in SUBSET Entries, NEW won \in Seq(Entries), Fits(won, Entries),
           NEW isReleased \in BOOLEAN, NEW old, NEW fumbled
    PROVE  HonestPage(Fresh(seen, won, isReleased), seen, won, old, fumbled)
<1> DEFINE p == Fresh(seen, won, isReleased)
           seed == RankPage!Seed(won, seen)
<1>1. Fits(seed, seen) /\ seed \in Seq(Entries)
  <2>1. Fits(seed, seen)
    BY SeedFits
  <2>2. Fits(seed, seen) => seed \in Seq(Entries)
    <3> HIDE DEF seed
    <3> QED  BY DEF Fits
  <2> QED  BY <2>1, <2>2
<1>2. p = [photos |-> seen, winners |-> won, released |-> isReleased, picked |-> seed, baseline |-> seed,
           editing |-> ~isReleased, list |-> IF ~isReleased THEN seed ELSE won, drag |-> [id |-> 0, at |-> 0]]
  <2> DEFINE blank == [photos |-> seen, winners |-> won, released |-> isReleased, picked |-> seed, baseline |-> seed,
                       editing |-> ~isReleased, list |-> <<>>, drag |-> RankPage!NoDrag]
  <2>1. p = RankPage!Draw(blank)
    BY DEF Fresh
  <2>2. RankPage!Draw(blank) = [blank EXCEPT !.list = IF blank.editing THEN blank.picked ELSE blank.winners]
    BY DEF RankPage!Draw
  <2> HIDE DEF p, seed
  <2>3. CASE isReleased = TRUE
    BY <2>1, <2>2, <2>3 DEF RankPage!NoDrag
  <2>4. CASE isReleased = FALSE
    BY <2>1, <2>2, <2>4 DEF RankPage!NoDrag
  <2> QED  BY <2>3, <2>4
<1> HIDE DEF p, seed
<1>3. p \in RankPages /\ p.drag.at \in 0 .. Len(p.list)
  <2>1. p \in RankPages
    BY <1>1, <1>2 DEF RankPages
  <2>2. p.list \in Seq(Entries) /\ p.drag.at = 0
    BY <1>1, <1>2
  <2> QED  BY <2>1, <2>2
<1>4. HonestPage(p, seen, won, old, fumbled)
  BY <1>1, <1>2, <1>3 DEF HonestPage
<1> QED  BY <1>4 DEF p

LEMMA ReloadKeeps == RankInv /\ RankPage!Reload => RankInv'
<1> SUFFICES ASSUME RankInv, RankPage!Reload PROVE RankInv'
  OBVIOUS
<1>1. /\ \A i \in DOMAIN releases : releases[i].at # "sent"
      /\ editor' = Fresh(visible, award, marker) /\ stale' = FALSE
      /\ UNCHANGED <<visible, award, marker, releases, changes, fumbles>>
  BY DEF RankPage!Reload, RankPage!Loaded, Fresh
<1>2. /\ visible \in SUBSET Entries /\ award \in Seq(Entries) /\ Fits(award, Entries)
      /\ marker \in BOOLEAN /\ PostsInv
  BY DEF RankInv, Fits
<1>3. HonestPage(editor', visible, award, stale', fumbles > 0)
  BY <1>1, <1>2, FreshIsHonest
<1>4. PostsInv'
  BY <1>1, <1>2 DEF PostsInv
<1>5. stale' \in BOOLEAN
  BY <1>1
<1> QED  BY <1>1, <1>3, <1>4, <1>5 DEF RankInv

\* The answer: all of the list is the ranking now, or it was refused for a
\* reason; the page whose answer it is is loaded again.
LEMMA ServeKeeps == ASSUME NEW i \in DOMAIN releases PROVE RankInv /\ RankPage!Serve(i) => RankInv'
<1> SUFFICES ASSUME RankInv, RankPage!Serve(i) PROVE RankInv'
  OBVIOUS
<1>1. /\ visible \in SUBSET Entries /\ marker \in BOOLEAN /\ stale \in BOOLEAN /\ fumbles \in Nat
      /\ HonestPage(editor, visible, award, stale, fumbles > 0) /\ PostsInv
      /\ releases \in Seq(RankPosts) /\ releases[i] \in RankPosts /\ releases[i].list \in Seq(Entries)
  <2>1. /\ visible \in SUBSET Entries /\ marker \in BOOLEAN /\ stale \in BOOLEAN /\ fumbles \in Nat
        /\ HonestPage(editor, visible, award, stale, fumbles > 0) /\ PostsInv
    BY DEF RankInv
  <2>2. releases \in Seq(RankPosts)
    BY <2>1 DEF PostsInv
  <2>3. releases[i] \in RankPosts
    BY <2>2
  <2> QED  BY <2>1, <2>2, <2>3 DEF RankPosts
<1> DEFINE list == releases[i].list
           to == IF award' = list /\ marker' THEN "released" ELSE IF award' = award THEN "refused" ELSE "partly"
           post == [releases[i] EXCEPT !.at = to, !.list = <<>>, !.apart = stale]
<1>2. releases[i].at = "sent" /\ RankPage!releaseRanking(list) /\ UNCHANGED <<visible, changes, fumbles>>
  BY DEF RankPage!Serve
<1>3. /\ Fits(award', Entries) /\ marker' \in BOOLEAN
      /\ Fits(list, visible) => award' = list /\ marker' = TRUE
      /\ (award' = list /\ marker' = TRUE) \/ award' = award
  BY <1>1, <1>2, ReleaseIsWhole
<1>4. releases' = [releases EXCEPT ![i] = post]
  BY <1>1 DEF RankPage!Serve, RankPosts
<1>5. to \in {"released", "refused"} /\ (to = "refused" => stale \/ fumbles > 0)
  <2>1. ~stale /\ fumbles = 0 => Fits(list, visible)
    BY <1>1, <1>2 DEF PostsInv
  <2> HIDE DEF list
  <2> QED  BY <1>1, <1>3, <2>1
<1>6. /\ post \in RankPosts /\ post.at = to /\ post.apart = stale
  <2> HIDE DEF to, list
  <2>1. <<>> \in Seq(Entries)
    OBVIOUS
  <2> QED  BY <1>1, <1>5, <2>1 DEF RankPosts
<1> HIDE DEF to, post, list
<1>7. /\ releases' \in Seq(RankPosts) /\ DOMAIN releases' = DOMAIN releases /\ Len(releases') = Len(releases)
      /\ releases'[i] = post /\ \A j \in DOMAIN releases : j # i => releases'[j] = releases[j]
  BY <1>1, <1>4, <1>6
<1>8. /\ stale' \in BOOLEAN
      /\ ~stale' => \A j \in DOMAIN releases' : releases'[j].at # "sent"
      /\ \/ stale' = TRUE /\ UNCHANGED editor
         \/ editor' = Fresh(visible, award', marker')
  <2>1. CASE i < Len(releases)
    BY <2>1 DEF RankPage!Serve
  <2>2. CASE ~(i < Len(releases))
    BY <2>2 DEF RankPage!Serve, Fresh
  <2> QED  BY <2>1, <2>2
<1>9. HonestPage(editor', visible, award', stale', fumbles > 0)
  <2>1. CASE stale' = TRUE /\ UNCHANGED editor
    BY <1>1, <2>1, OldPage
  <2>2. CASE editor' = Fresh(visible, award', marker')
    <3>1. award' \in Seq(Entries)
      BY <1>3 DEF Fits
    <3> QED  BY <1>1, <1>3, <2>2, <3>1, FreshIsHonest
  <2> QED  BY <1>8, <2>1, <2>2
<1>10. PostsInv'
  <2>1. ASSUME NEW j \in DOMAIN releases'
        PROVE  /\ releases'[j].at = "refused" => releases'[j].apart \/ fumbles > 0
               /\ releases'[j].at = "sent" /\ ~stale' /\ fumbles = 0 => Fits(releases'[j].list, visible)
    <3>1. CASE j = i
      BY <1>5, <1>6, <1>7, <3>1
    <3>2. CASE j # i
      <4>1. releases'[j].at = "refused" => releases'[j].apart \/ fumbles > 0
        BY <1>1, <1>7, <3>2 DEF PostsInv
      <4> QED  BY <1>8, <4>1
    <3> QED  BY <3>1, <3>2
  <2>2. UNCHANGED <<visible, fumbles>>
    BY <1>2
  <2> QED  BY <1>7, <2>1, <2>2 DEF PostsInv
<1>11. UNCHANGED <<visible, fumbles>>
  BY <1>2
<1> QED  BY <1>1, <1>3, <1>8, <1>9, <1>10, <1>11 DEF RankInv

-----------------------------------------------------------------------------
LEMMA RankingFollows == RankInv => RankPage!RankingIsTheHosts
<1> SUFFICES ASSUME RankInv PROVE RankPage!RankingIsTheHosts
  OBVIOUS
<1>1. /\ award \in Seq(Entries) /\ Len(award) <= MaxRanked /\ Once(award)
      /\ HonestPage(editor, visible, award, stale, fumbles > 0) /\ PostsInv /\ fumbles \in Nat
  BY DEF RankInv, Fits
<1>2. RankPage!ReleasedAsShown
  <2>1. ASSUME NEW i \in DOMAIN releases
        PROVE  releases[i].at # "partly" /\ (releases[i].at = "released" => releases[i].asShown)
    <3>1. releases[i] \in RankPosts
      <4>1. releases \in Seq(RankPosts)
        BY <1>1 DEF PostsInv
      <4> QED  BY <4>1
    <3> QED  BY <3>1 DEF RankPosts
  <2> QED  BY <2>1 DEF RankPage!ReleasedAsShown
<1>3. RankPage!AwardIsARanking
  <2>1. RankPage!Distinct(award)
    BY <1>1, DistinctIsOnce
  <2>2. ASSUME NEW m \in RankPage!victoryRankBySubmission PROVE RankPage!guestBadgeRank(m[1]) = {m[2]}
    <3>1. PICK r \in DOMAIN award : m = <<award[r], r>>
      BY DEF RankPage!victoryRankBySubmission
    <3>2. \A n \in DOMAIN award : award[n] = award[r] <=> n = r
      BY <1>1 DEF Once
    <3>3. RankPage!guestBadgeRank(award[r]) = {r}
      BY <3>2 DEF RankPage!guestBadgeRank
    <3> QED  BY <3>1, <3>3
  <2> QED  BY <1>1, <2>1, <2>2 DEF RankPage!AwardIsARanking
<1>4. RankPage!RefusalsAreExplained
  BY <1>1 DEF PostsInv, RankPage!RefusalsAreExplained
<1>5. RankPage!EditorIsHonest
  <2> SUFFICES ASSUME editor.drag = RankPage!NoDrag
               PROVE  IF editor.editing
                      THEN /\ editor.list = editor.picked
                           /\ fumbles = 0 => RankPage!Distinct(editor.picked) /\ Len(editor.picked) <= MaxRanked
                      ELSE /\ editor.picked = editor.baseline /\ editor.list = editor.winners
                           /\ ~stale => editor.list = award
    BY DEF RankPage!EditorIsHonest
  <2>1. editor.drag.id = 0 /\ editor.picked \in Seq(Entries)
    BY <1>1, DragIsNone DEF HonestPage, RankPages
  <2>2. ASSUME fumbles = 0 PROVE RankPage!Distinct(editor.picked) /\ Len(editor.picked) <= MaxRanked
    <3>1. Fits(editor.picked, editor.photos)
      BY <1>1, <2>2 DEF HonestPage
    <3> QED  BY <2>1, <3>1, DistinctIsOnce DEF Fits
  <2> QED  BY <1>1, <2>1, <2>2 DEF HonestPage
<1> QED  BY <1>2, <1>3, <1>4, <1>5 DEF RankPage!RankingIsTheHosts

LEMMA RankInitInv == RankPage!RankInit => RankInv
<1> SUFFICES ASSUME RankPage!RankInit PROVE RankInv
  OBVIOUS
<1>1. /\ visible = Entries /\ releases = <<>> /\ fumbles = 0 /\ stale = FALSE
      /\ editor = Fresh(visible, award, marker) /\ marker \in BOOLEAN
  BY DEF RankPage!RankInit, RankPage!Loaded, Fresh
<1>2. Fits(award, Entries)
  <2>1. MaxRanked \in Nat
    BY BadgesAssumption
  <2>2. CASE award = <<>>
    BY <2>1, <2>2 DEF Fits, Once
  <2>3. CASE award \in [1 .. MaxRanked -> Entries] /\ RankPage!Distinct(award)
    <3>1. award \in Seq(Entries) /\ Len(award) = MaxRanked
      BY <2>1, <2>3
    <3> QED  BY <2>1, <2>3, <3>1, DistinctIsOnce DEF Fits
  <2> QED  BY <2>2, <2>3 DEF RankPage!RankInit
<1>3. HonestPage(editor, visible, award, stale, fumbles > 0)
  <2>1. award \in Seq(Entries)
    BY <1>2 DEF Fits
  <2> QED  BY <1>1, <1>2, <2>1, FreshIsHonest
<1>4. PostsInv
  BY <1>1 DEF PostsInv
<1> QED  BY <1>1, <1>2, <1>3, <1>4 DEF RankInv

LEMMA RankNextInv == RankInv /\ RankPage!RankNext => RankInv'
<1> SUFFICES ASSUME RankInv, RankPage!RankNext PROVE RankInv'
  OBVIOUS
<1>1. MaxRanked \in Nat
  BY BadgesAssumption
<1>2. CASE RankPage!Edit \/ RankPage!Cancel \/ RankPage!endDrag \/ RankPage!Release \/ RankPage!Reload
  BY <1>2, EditKeeps, CancelKeeps, EndDragKeeps, ReleasePressKeeps, ReloadKeeps
<1>3. ASSUME NEW p \in Entries,
             RankPage!togglePick(p) \/ RankPage!TakeDown(p) \/ RankPage!Restore(p) \/ RankPage!OtherRelease(p)
      PROVE  RankInv'
  BY <1>3, ToggleKeeps, PhotosKeep, OtherReleaseKeeps
<1>4. ASSUME NEW i \in 1 .. MaxRanked + 2, RankPage!Grab(i) \/ RankPage!Move(i) PROVE RankInv'
  <2>1. i \in Nat
    BY <1>1
  <2> QED  BY <1>4, <2>1, GrabKeeps, MoveKeeps
<1>5. ASSUME NEW i \in DOMAIN releases, RankPage!Serve(i) PROVE RankInv'
  BY <1>5, ServeKeeps
<1> QED  BY <1>2, <1>3, <1>4, <1>5 DEF RankPage!RankNext

\* The ranking that is released is the one the host had before them, whole, or it
\* is refused for a reason; and the list on screen is one with the picks
\* (public/js/admin-badge-rank.js, services/task-badges.js).
THEOREM RankingsAreAlwaysTheHosts == HostSpec => []RankingIsTheHosts
<1> DEFINE Inv == part = "rank" => RankInv
<1>1. HostInit => Inv
  BY RankInitInv DEF HostInit
<1>2. Inv /\ [HostNext]_<<part, vars, rankVars, wallVars>> => Inv'
  <2> SUFFICES ASSUME Inv, [HostNext]_<<part, vars, rankVars, wallVars>>, part' = "rank" PROVE RankInv'
    OBVIOUS
  <2>1. part' = part
    BY DEF HostNext
  <2>2. RankInv
    BY <2>1
  <2>3. CASE RankPage!RankNext
    BY <2>2, <2>3, RankNextInv
  <2>4. CASE UNCHANGED rankVars
    BY <2>2, <2>4 DEF rankVars, RankInv, PostsInv
  <2>5. RankPage!RankNext \/ UNCHANGED rankVars
    BY <2>1 DEF HostNext
  <2> QED  BY <2>3, <2>4, <2>5
<1>3. Inv => RankingIsTheHosts
  BY RankingFollows DEF RankingIsTheHosts
<1> QED  BY <1>1, <1>2, <1>3, PTL DEF HostSpec

\* The run plays Badges, and nothing else of it moves a badge: its guarantees
\* are guarantees of the run.
THEOREM HostIsBadges == HostSpec => Spec
<1>1. HostInit => Init
  BY DEF HostInit
<1>2. [HostNext]_<<part, vars, rankVars, wallVars>> => [Next]_vars
  BY DEF HostNext
<1> QED  BY <1>1, <1>2, PTL DEF HostSpec, Spec

-----------------------------------------------------------------------------
(* The wall of photos (Wall).                                              *)

LEMMA WallCardinality == \A S : Wall!Cardinality(S) = Cardinality(S)
  BY DEF Wall!Cardinality, Cardinality

\* A list, newest first, has the photos of its set and each once.
LEMMA NewestAreOnce ==
    ASSUME NEW S \in SUBSET (1 .. Shots)
    PROVE  /\ DOMAIN Wall!Newest(S) = 1 .. Cardinality(S) /\ Cardinality(S) \in Nat
           /\ \A n \in DOMAIN Wall!Newest(S) : Wall!Newest(S)[n] \in S
           /\ \A m, n \in DOMAIN Wall!Newest(S) : Wall!Newest(S)[m] = Wall!Newest(S)[n] => m = n
<1> DEFINE place == [p \in S |-> Cardinality({q \in S : q <= p})]
           at(n) == CHOOSE p \in S : place[p] = Cardinality(S) + 1 - n
<1>1. Shots \in Nat
  BY HostAssumption
<1>2. /\ Cardinality(S) \in Nat
      /\ \A n \in 1 .. Cardinality(S) : \E p \in S : place[p] = n
  BY <1>1, PlacesAreTaken
<1>3. Wall!Newest(S) = [n \in 1 .. Cardinality(S) |-> at(n)]
  <2> DEFINE upto(p) == {q \in S : q <= p}
             there == [p \in S |-> Wall!Cardinality(upto(p))]
  <2>1. there = place
    <3>1. \A p \in S : Wall!Cardinality(upto(p)) = Cardinality(upto(p))
      BY WallCardinality
    <3> HIDE DEF upto
    <3>2. there = [p \in S |-> Cardinality(upto(p))]
      BY <3>1
    <3> QED  BY <3>2 DEF upto
  <2>2. Wall!Newest(S) = [n \in 1 .. Wall!Cardinality(S) |-> CHOOSE p \in S : there[p] = Wall!Cardinality(S) + 1 - n]
    BY DEF Wall!Newest
  <2>3. Wall!Cardinality(S) = Cardinality(S)
    BY WallCardinality
  <2> HIDE DEF there, place
  <2> QED  BY <2>1, <2>2, <2>3
<1>4. ASSUME NEW n \in 1 .. Cardinality(S) PROVE at(n) \in S /\ place[at(n)] = Cardinality(S) + 1 - n
  <2>1. Cardinality(S) + 1 - n \in 1 .. Cardinality(S)
    BY <1>2
  <2>2. \E p \in S : place[p] = Cardinality(S) + 1 - n
    BY <1>2, <2>1
  <2> HIDE DEF place
  <2> QED  BY <2>2
<1>5. \A m, n \in 1 .. Cardinality(S) : at(m) = at(n) => m = n
  <2> SUFFICES ASSUME NEW m \in 1 .. Cardinality(S), NEW n \in 1 .. Cardinality(S), at(m) = at(n) PROVE m = n
    OBVIOUS
  <2>1. Cardinality(S) + 1 - m = Cardinality(S) + 1 - n
    <3> HIDE DEF place, at
    <3> QED  BY <1>4
  <2> QED  BY <1>2, <2>1
<1> HIDE DEF at, place
<1> QED  BY <1>2, <1>3, <1>4, <1>5

\* Two photos have the key of one section.
Beside(p, q, view) ==
    (view = "task" => Subjects[p] = Subjects[q]) /\ (view = "user" => Takers[p] = Takers[q])

LEMMA KeysOfSections ==
    ASSUME NEW p, NEW q, NEW view
    PROVE  /\ Wall!scopeKey(p, view) = Wall!scopeKey(q, view) <=> Beside(p, q, view)
           /\ Wall!scopeKey(p, view) = Wall!NoKey => Beside(p, q, view)
<1>1. CASE view = "user"
  <2>1. Wall!scopeKey(p, view) = <<"g", Takers[p]>> /\ Wall!scopeKey(q, view) = <<"g", Takers[q]>>
    BY <1>1 DEF Wall!scopeKey
  <2>2. <<"g", Takers[p]>> # <<>>
    OBVIOUS
  <2> QED  BY <1>1, <2>1, <2>2 DEF Beside, Wall!NoKey
<1>2. CASE view = "task"
  <2>1. Wall!scopeKey(p, view) = <<"t", Subjects[p]>> /\ Wall!scopeKey(q, view) = <<"t", Subjects[q]>>
    BY <1>2 DEF Wall!scopeKey
  <2>2. <<"t", Subjects[p]>> # <<>>
    OBVIOUS
  <2> QED  BY <1>2, <2>1, <2>2 DEF Beside, Wall!NoKey
<1>3. CASE view # "user" /\ view # "task"
  BY <1>3 DEF Wall!scopeKey, Beside, Wall!NoKey
<1> QED  BY <1>1, <1>2, <1>3

-----------------------------------------------------------------------------
\* No tile is in two groups, and each has its card.
TiledOnce(pg) ==
    \A i, j \in DOMAIN pg.tiles : \A k \in DOMAIN pg.tiles[i], l \in DOMAIN pg.tiles[j] :
        pg.tiles[i][k] \in DOMAIN pg.cards /\ (pg.tiles[i][k] = pg.tiles[j][l] => i = j /\ k = l)

Scoped(pg) == pg.view = "task" /\ pg.task # Wall!NoTask

SoundPage(pg) ==
    /\ TiledOnce(pg)
    /\ DOMAIN pg.cards \subseteq 1 .. Shots
    /\ Scoped(pg) => \A p \in DOMAIN pg.cards : Subjects[p] = pg.task
    /\ \A p \in DOMAIN pg.cards : pg.cards[p].key = Wall!scopeKey(p, pg.view)

\* The feed stands at the card a moderation was made on.
StandsAt(p) ==
    /\ p \in Wall!Showing
    /\ wall.cards[p].down = rows[p].down /\ wall.cards[p].fav = rows[p].fav
    /\ \A q \in 1 .. Shots : q \in Wall!Showing <=> rows[q].there /\ Beside(q, p, wall.view)
    /\ ~Scoped(wall) => DOMAIN wall.cards = Wall!There

BoxInv ==
    box # Wall!Shut => panel = "feed" /\ box.index \in DOMAIN box.group /\ box.group = Wall!Newest(Wall!Showing)

WallInv ==
    /\ SoundPage(wall) /\ BoxInv
    /\ asked = <<wall.view, wall.q, wall.task>>
    /\ acted # Wall!NoPhoto => panel = "feed" /\ (rows[acted].there => StandsAt(acted))

OnceIn(tiles, S) ==
    \A i, j \in DOMAIN tiles : \A k \in DOMAIN tiles[i], l \in DOMAIN tiles[j] :
        tiles[i][k] \in S /\ (tiles[i][k] = tiles[j][l] => i = j /\ k = l)

LEMMA OneIsOnce ==
    ASSUME NEW S \in SUBSET (1 .. Shots), NEW T \in SUBSET S
    PROVE  OnceIn(Wall!One(T), S)
<1>1. CASE T = {}
  BY <1>1 DEF Wall!One, OnceIn
<1>2. CASE T # {}
  <2>1. Wall!One(T) = <<Wall!Newest(T)>>
    BY <1>2 DEF Wall!One
  <2>2. DOMAIN Wall!One(T) = {1} /\ Wall!One(T)[1] = Wall!Newest(T)
    BY <2>1
  <2>3. /\ \A n \in DOMAIN Wall!Newest(T) : Wall!Newest(T)[n] \in T
        /\ \A m, n \in DOMAIN Wall!Newest(T) : Wall!Newest(T)[m] = Wall!Newest(T)[n] => m = n
    BY NewestAreOnce
  <2> QED  BY <2>2, <2>3 DEF OnceIn
<1> QED  BY <1>1, <1>2

\* The groups part the photos: each is under the key of its newest.
LEMMA GroupsAreOnce ==
    ASSUME NEW S \in SUBSET (1 .. Shots), NEW T \in SUBSET S, NEW view, NEW found
    PROVE  OnceIn(Wall!groupPhotos(T, view, found), S)
<1> DEFINE key(p) == Wall!scopeKey(p, view)
           newest == {p \in T : key(p) \in found /\ \A q \in T : key(q) = key(p) => q <= p}
           firsts == Wall!Newest(newest)
           of(i) == {p \in T : key(p) = key(firsts[i])}
           groups == Wall!groupPhotos(T, view, found)
<1>1. groups = [n \in DOMAIN firsts |-> Wall!Newest(of(n))]
  BY DEF Wall!groupPhotos
<1>2. /\ \A n \in DOMAIN firsts : firsts[n] \in newest
      /\ \A m, n \in DOMAIN firsts : firsts[m] = firsts[n] => m = n
  <2>1. newest \in SUBSET (1 .. Shots)
    OBVIOUS
  <2> HIDE DEF newest
  <2> QED  BY <2>1, NewestAreOnce
<1>3. ASSUME NEW i \in DOMAIN firsts
      PROVE  /\ of(i) \subseteq T
             /\ \A k \in DOMAIN Wall!Newest(of(i)) : Wall!Newest(of(i))[k] \in of(i)
             /\ \A k, l \in DOMAIN Wall!Newest(of(i)) : Wall!Newest(of(i))[k] = Wall!Newest(of(i))[l] => k = l
  <2>1. of(i) \in SUBSET (1 .. Shots)
    OBVIOUS
  <2>2. of(i) \subseteq T
    OBVIOUS
  <2> HIDE DEF of
  <2> QED  BY <2>1, <2>2, NewestAreOnce
<1>4. ASSUME NEW i \in DOMAIN firsts, NEW j \in DOMAIN firsts, NEW p, p \in of(i), p \in of(j) PROVE i = j
  <2>1. key(firsts[i]) = key(firsts[j])
    BY <1>4
  <2>2. firsts[i] \in newest /\ firsts[j] \in newest
    BY <1>2
  <2>3. firsts[i] <= firsts[j] /\ firsts[j] <= firsts[i] /\ firsts[i] \in Int /\ firsts[j] \in Int
    <3>1. /\ firsts[i] \in T /\ \A q \in T : key(q) = key(firsts[i]) => q <= firsts[i]
          /\ firsts[j] \in T /\ \A q \in T : key(q) = key(firsts[j]) => q <= firsts[j]
      <4> HIDE DEF firsts, key
      <4> QED  BY <2>2
    <3>2. T \subseteq Int
      OBVIOUS
    <3> HIDE DEF firsts, key
    <3> QED  BY <2>1, <3>1, <3>2
  <2>4. firsts[i] = firsts[j]
    BY <2>3
  <2> QED  BY <1>2, <2>4
<1> HIDE DEF firsts, of, groups
<1>5. DOMAIN groups = DOMAIN firsts /\ \A i \in DOMAIN firsts : groups[i] = Wall!Newest(of(i))
  BY <1>1
<1>6. OnceIn(groups, S)
  <2> SUFFICES ASSUME NEW i \in DOMAIN groups, NEW j \in DOMAIN groups,
                      NEW k \in DOMAIN groups[i], NEW l \in DOMAIN groups[j]
               PROVE  groups[i][k] \in S /\ (groups[i][k] = groups[j][l] => i = j /\ k = l)
    BY DEF OnceIn
  <2>1. groups[i][k] \in of(i) /\ of(i) \subseteq T
    BY <1>3, <1>5
  <2>2. groups[j][l] \in of(j)
    BY <1>3, <1>5
  <2>3. groups[i][k] \in S
    BY <2>1
  <2>4. ASSUME groups[i][k] = groups[j][l] PROVE i = j /\ k = l
    <3>1. i = j
      BY <1>4, <1>5, <2>1, <2>2, <2>4
    <3>2. i \in DOMAIN firsts /\ groups[i] = Wall!Newest(of(i))
      BY <1>5
    <3> QED  BY <1>3, <2>4, <3>1, <3>2
  <2> QED  BY <2>3, <2>4
<1> QED  BY <1>6 DEF groups

\* What a request renders.
LEMMA RenderedPage ==
    ASSUME NEW view, NEW q, NEW t, NEW there, NEW pg, pg = Wall!Rendered(view, q, t, there)
    PROVE  /\ pg.view = view /\ pg.q = q /\ pg.task = t
           /\ DOMAIN pg.cards = {p \in 1 .. Shots : there[p].there /\ (Scoped(pg) => Subjects[p] = t)}
           /\ \A p \in DOMAIN pg.cards : /\ pg.cards[p].down = there[p].down /\ pg.cards[p].fav = there[p].fav
                                         /\ pg.cards[p].key = Wall!scopeKey(p, view)
           /\ SoundPage(pg)
<1> DEFINE scoped == view = "task" /\ t # Wall!NoTask
           list == {p \in 1 .. Shots : there[p].there /\ (scoped => Subjects[p] = t)}
           shown == {p \in list : ~there[p].down}
           hearted == {p \in list : there[p].fav}
           cards == [p \in list |-> [down |-> there[p].down, fav |-> there[p].fav, key |-> Wall!scopeKey(p, view)]]
           tiles == CASE scoped \/ view = "recent" -> Wall!One(list)
                      [] view = "fav" -> Wall!One(hearted)
                      [] OTHER -> Wall!groupPhotos(shown, view, Queries[q])
<1>1. pg = [view |-> view, q |-> q, task |-> t, cards |-> cards, tiles |-> tiles]
  BY DEF Wall!Rendered
<1>2. list \in SUBSET (1 .. Shots) /\ list \in SUBSET list /\ shown \in SUBSET list /\ hearted \in SUBSET list
  OBVIOUS
<1>3. OnceIn(tiles, list)
  <2>1. OnceIn(Wall!One(list), list) /\ OnceIn(Wall!One(hearted), list)
    <3> HIDE DEF list, hearted
    <3> QED  BY <1>2, OneIsOnce
  <2>2. OnceIn(Wall!groupPhotos(shown, view, Queries[q]), list)
    <3> HIDE DEF list, shown
    <3> QED  BY <1>2, GroupsAreOnce
  <2>3. \/ tiles = Wall!One(list) \/ tiles = Wall!One(hearted)
        \/ tiles = Wall!groupPhotos(shown, view, Queries[q])
    <3> HIDE DEF list, shown, hearted, scoped
    <3> QED  OBVIOUS
  <2> HIDE DEF tiles, list, shown, hearted
  <2> QED  BY <2>1, <2>2, <2>3
<1>4. /\ DOMAIN cards = list
      /\ \A p \in list : /\ cards[p].down = there[p].down /\ cards[p].fav = there[p].fav
                         /\ cards[p].key = Wall!scopeKey(p, view)
  OBVIOUS
<1>5. \A p \in list : p \in 1 .. Shots /\ (scoped => Subjects[p] = t)
  OBVIOUS
<1>6. pg.view = view /\ pg.q = q /\ pg.task = t /\ pg.cards = cards /\ pg.tiles = tiles
  <2> HIDE DEF cards, tiles
  <2> QED  BY <1>1
<1>7. Scoped(pg) <=> scoped
  BY <1>6 DEF Scoped
<1>8. TiledOnce(pg)
  <2> HIDE DEF cards, tiles, list
  <2> QED  BY <1>3, <1>4, <1>6 DEF TiledOnce, OnceIn
<1>9. SoundPage(pg)
  <2> HIDE DEF cards, tiles, list, scoped
  <2> QED  BY <1>4, <1>5, <1>6, <1>7, <1>8 DEF SoundPage
<1>10. list = {p \in 1 .. Shots : there[p].there /\ (Scoped(pg) => Subjects[p] = t)}
  BY <1>7
<1> HIDE DEF cards, tiles, list
<1> QED  BY <1>4, <1>6, <1>9, <1>10

\* A new page, with no photo in the viewer and none acted on.
LEMMA PageKeeps ==
    ASSUME WallInv, NEW view, NEW q, NEW t, Wall!Visit(view, q, t)
    PROVE  WallInv'
<1>1. /\ box = Wall!Shut /\ wall' = Wall!Rendered(view, q, t, rows) /\ asked' = <<view, q, t>>
      /\ acted' = Wall!NoPhoto /\ box' = box
  BY DEF Wall!Visit
<1>2. SoundPage(wall)' /\ wall'.view = view /\ wall'.q = q /\ wall'.task = t
  <2> DEFINE pg == wall'
  <2>1. pg = Wall!Rendered(view, q, t, rows)
    BY <1>1
  <2> HIDE DEF pg
  <2>2. SoundPage(pg) /\ pg.view = view /\ pg.q = q /\ pg.task = t
    BY <2>1, RenderedPage
  <2>3. SoundPage(wall') /\ wall'.view = view /\ wall'.q = q /\ wall'.task = t
    BY <2>2 DEF pg
  <2> QED  BY <2>3 DEF SoundPage, TiledOnce, Scoped, Wall!NoTask, Wall!scopeKey
<1> QED  BY <1>1, <1>2 DEF WallInv, BoxInv, Wall!Shut, Wall!NoPhoto

LEMMA SoundStays == SoundPage(wall) /\ wall' = wall => SoundPage(wall)'
<1> SUFFICES ASSUME SoundPage(wall), wall' = wall PROVE SoundPage(wall)'
  OBVIOUS
<1>1. SoundPage(wall')
  OBVIOUS
<1> QED  BY <1>1 DEF SoundPage, TiledOnce, Scoped, Wall!NoTask, Wall!scopeKey

\* What moves on the page as it stands, with no photo acted on.
LEMMA PanelKeeps ==
    ASSUME WallInv, wall' = wall, asked' = asked, acted' = Wall!NoPhoto,
           box' = box, box = Wall!Shut \/ (panel' = panel /\ scope' = scope)
    PROVE  WallInv'
<1>1. SoundPage(wall)' /\ asked' = <<wall.view, wall.q, wall.task>>'
  BY SoundStays DEF WallInv
<1>2. BoxInv'
  <2>1. CASE box = Wall!Shut
    BY <2>1 DEF BoxInv, Wall!Shut
  <2>2. CASE panel' = panel /\ scope' = scope
    <3>1. Wall!Showing' = Wall!Showing
      BY <2>2 DEF Wall!Showing, Wall!NoKey
    <3>2. Wall!Newest(Wall!Showing)' = Wall!Newest(Wall!Showing)
      BY <3>1 DEF Wall!Newest
    <3> QED  BY <2>2, <3>2 DEF WallInv, BoxInv, Wall!Shut
  <2> QED  BY <2>1, <2>2
<1> QED  BY <1>1, <1>2 DEF WallInv, Wall!NoPhoto

\* The viewer opens, turns and closes over a page that rests.
LEMMA ViewerKeeps ==
    ASSUME WallInv, UNCHANGED <<rows, wall, panel, scope, asked, acted>>, BoxInv'
    PROVE  WallInv'
<1>1. SoundPage(wall)' /\ asked' = <<wall.view, wall.q, wall.task>>'
  BY SoundStays DEF WallInv
<1>2. acted' # Wall!NoPhoto => panel' = "feed" /\ (rows'[acted'].there => StandsAt(acted)')
  BY DEF WallInv, StandsAt, Wall!Showing, Wall!NoKey, Wall!There, Scoped, Wall!NoTask, Beside, Wall!NoPhoto
<1> QED  BY <1>1, <1>2 DEF WallInv, Wall!NoPhoto

\* A moderation from the feed comes back to the card it was made on.
LEMMA ModerateKeeps ==
    ASSUME WallInv, NEW p \in 1 .. Shots, NEW what, NEW f \in BOOLEAN, Wall!Moderate(p, what, f)
    PROVE  WallInv'
<1>1. /\ box = Wall!Shut /\ box' = box /\ asked' = asked
      /\ f => p \in Wall!Showing
      /\ wall' = Wall!Rendered(wall.view, wall.q, wall.task, rows')
      /\ panel' = IF f THEN "feed" ELSE "grid"
      /\ scope' = IF f THEN Wall!ScopeAt(wall', p) ELSE Wall!NoKey
      /\ acted' = IF f THEN p ELSE Wall!NoPhoto
  BY DEF Wall!Moderate, Wall!redirectToPhotos
<1>2. /\ SoundPage(wall') /\ wall'.view = wall.view /\ wall'.q = wall.q /\ wall'.task = wall.task
      /\ DOMAIN wall'.cards = {s \in 1 .. Shots : rows'[s].there /\ (Scoped(wall') => Subjects[s] = wall.task)}
      /\ \A s \in DOMAIN wall'.cards : /\ wall'.cards[s].down = rows'[s].down /\ wall'.cards[s].fav = rows'[s].fav
                                       /\ wall'.cards[s].key = Wall!scopeKey(s, wall.view)
  <2> DEFINE pg == wall'
             now == rows'
  <2>1. pg = Wall!Rendered(wall.view, wall.q, wall.task, now)
    BY <1>1
  <2> HIDE DEF pg, now
  <2>2. /\ SoundPage(pg) /\ pg.view = wall.view /\ pg.q = wall.q /\ pg.task = wall.task
        /\ DOMAIN pg.cards = {s \in 1 .. Shots : now[s].there /\ (Scoped(pg) => Subjects[s] = wall.task)}
        /\ \A s \in DOMAIN pg.cards : /\ pg.cards[s].down = now[s].down /\ pg.cards[s].fav = now[s].fav
                                      /\ pg.cards[s].key = Wall!scopeKey(s, wall.view)
    BY <2>1, RenderedPage
  <2> QED  BY <2>2 DEF pg, now
<1>3. SoundPage(wall)' /\ asked' = <<wall.view, wall.q, wall.task>>'
  <2>1. SoundPage(wall)'
    BY <1>2 DEF SoundPage, TiledOnce, Scoped, Wall!NoTask, Wall!scopeKey
  <2> QED  BY <1>1, <1>2, <2>1 DEF WallInv
<1>4. BoxInv'
  BY <1>1 DEF BoxInv, Wall!Shut
<1>5. ASSUME f, rows'[p].there PROVE StandsAt(p)'
  <2>1. p \in DOMAIN wall.cards /\ (Scoped(wall) => Subjects[p] = wall.task)
    BY <1>1, <1>5 DEF Wall!Showing, WallInv, SoundPage
  <2>2. Scoped(wall') <=> Scoped(wall)
    BY <1>2 DEF Scoped
  <2>3. p \in DOMAIN wall'.cards
    BY <1>2, <1>5, <2>1, <2>2
  <2>4. scope' = Wall!scopeKey(p, wall.view)
    BY <1>1, <1>2, <1>5, <2>3 DEF Wall!ScopeAt
  <2>5. \A s : s \in Wall!Showing' <=> s \in DOMAIN wall'.cards /\ Beside(s, p, wall.view)
    <3>1. \A s : s \in Wall!Showing' <=> s \in DOMAIN wall'.cards /\ (scope' = Wall!NoKey \/ scope' = wall'.cards[s].key)
      BY DEF Wall!Showing, Wall!NoKey
    <3>2. \A s : Wall!scopeKey(p, wall.view) = Wall!scopeKey(s, wall.view) <=> Beside(p, s, wall.view)
      BY KeysOfSections
    <3>3. \A s : Wall!scopeKey(p, wall.view) = Wall!NoKey => Beside(p, s, wall.view)
      BY KeysOfSections
    <3>4. \A s : Beside(p, s, wall.view) <=> Beside(s, p, wall.view)
      BY DEF Beside
    <3> QED  BY <1>2, <2>4, <3>1, <3>2, <3>3, <3>4
  <2>6. Beside(p, p, wall.view)
    BY DEF Beside
  <2>7. \A s \in 1 .. Shots : s \in Wall!Showing' <=> rows'[s].there /\ Beside(s, p, wall.view)
    <3>1. Scoped(wall) => \A s : Beside(s, p, wall.view) => Subjects[s] = wall.task
      BY <2>1 DEF Beside, Scoped
    <3> QED  BY <1>2, <2>2, <2>5, <3>1
  <2>8. ~Scoped(wall') => DOMAIN wall'.cards = Wall!There'
    BY <1>2 DEF Wall!There
  <2> QED  BY <1>2, <2>3, <2>5, <2>6, <2>7, <2>8 DEF StandsAt, Scoped, Wall!NoTask, Beside
<1>6. acted' # Wall!NoPhoto => panel' = "feed" /\ (rows'[acted'].there => StandsAt(acted)')
  <2>1. CASE f
    <3>1. acted' = p /\ panel' = "feed"
      BY <1>1, <2>1
    <3>2. rows'[p].there => StandsAt(p)'
      BY <1>5, <2>1
    <3> QED  BY <3>1, <3>2 DEF StandsAt
  <2>2. CASE ~f
    BY <1>1, <2>2
  <2> QED  BY <2>1, <2>2
<1> QED  BY <1>3, <1>4, <1>6 DEF WallInv, Wall!NoPhoto

LEMMA WallNextInv == WallInv /\ [Wall!WallNext]_Wall!wallVars => WallInv'
<1> SUFFICES ASSUME WallInv, [Wall!WallNext]_Wall!wallVars PROVE WallInv'
  OBVIOUS
<1>1. CASE \E view, q, t : Wall!Visit(view, q, t)
  BY <1>1, PageKeeps
<1>2. ASSUME NEW p \in 1 .. Shots, Wall!OpenFeedAt(p) PROVE WallInv'
  <2>1. /\ panel = "grid" /\ acted' = Wall!NoPhoto
        /\ wall' = wall /\ box' = box /\ asked' = asked
    BY <1>2 DEF Wall!OpenFeedAt
  <2>2. box = Wall!Shut
    BY <2>1 DEF WallInv, BoxInv
  <2> QED  BY <2>1, <2>2, PanelKeeps
<1>3. CASE Wall!ShowAll \/ Wall!ShowGrid \/ Wall!Others
  <2>1. /\ acted' = Wall!NoPhoto /\ wall' = wall /\ box' = box /\ asked' = asked
        /\ box = Wall!Shut \/ (panel' = panel /\ scope' = scope)
    BY <1>3 DEF Wall!ShowAll, Wall!ShowGrid, Wall!Others
  <2> QED  BY <2>1, PanelKeeps
<1>4. ASSUME NEW p \in 1 .. Shots, Wall!openFrom(p) PROVE WallInv'
  <2>1. /\ panel = "feed" /\ UNCHANGED <<rows, wall, panel, scope, asked, acted>>
    BY <1>4 DEF Wall!openFrom
  <2>2. PICK i \in DOMAIN Wall!Newest(Wall!Showing) : box' = [group |-> Wall!Newest(Wall!Showing), index |-> i]
    BY <1>4 DEF Wall!openFrom
  <2>3. box'.index = i /\ box'.group = Wall!Newest(Wall!Showing)
    BY <2>2
  <2>4. Wall!Newest(Wall!Showing)' = Wall!Newest(Wall!Showing)
    BY <2>1 DEF Wall!Newest, Wall!Showing, Wall!NoKey
  <2>5. BoxInv'
    BY <2>1, <2>3, <2>4 DEF BoxInv
  <2> QED  BY <2>1, <2>5, ViewerKeeps
<1>5. ASSUME NEW delta \in {-1, 1}, Wall!step(delta) PROVE WallInv'
  <2>1. /\ UNCHANGED <<rows, wall, panel, scope, asked, acted>> /\ box # Wall!Shut
        /\ box.index + delta \in DOMAIN box.group /\ box' = [group |-> box.group, index |-> box.index + delta]
    BY <1>5 DEF Wall!step
  <2>2. panel = "feed" /\ box.group = Wall!Newest(Wall!Showing)
    BY <2>1 DEF WallInv, BoxInv
  <2>3. box'.index \in DOMAIN box'.group /\ box'.group = box.group
    BY <2>1
  <2>4. Wall!Newest(Wall!Showing)' = Wall!Newest(Wall!Showing)
    BY <2>1 DEF Wall!Newest, Wall!Showing, Wall!NoKey
  <2>5. BoxInv'
    BY <2>1, <2>2, <2>3, <2>4 DEF BoxInv
  <2> QED  BY <2>1, <2>5, ViewerKeeps
<1>6. CASE Wall!closeOverlay
  <2>1. UNCHANGED <<rows, wall, panel, scope, asked, acted>> /\ box' = Wall!Shut
    BY <1>6 DEF Wall!closeOverlay
  <2>2. BoxInv'
    BY <2>1 DEF BoxInv, Wall!Shut
  <2> QED  BY <2>1, <2>2, ViewerKeeps
<1>7. ASSUME NEW p \in 1 .. Shots, NEW what, NEW f \in BOOLEAN, Wall!Moderate(p, what, f) PROVE WallInv'
  BY <1>7, ModerateKeeps
<1>8. CASE UNCHANGED Wall!wallVars
  <2>1. UNCHANGED <<rows, wall, panel, scope, asked, acted>> /\ box' = box
    BY <1>8 DEF Wall!wallVars
  <2>2. BoxInv'
    BY <2>1 DEF WallInv, BoxInv, Wall!Shut, Wall!Newest, Wall!Showing, Wall!NoKey
  <2> QED  BY <2>1, <2>2, ViewerKeeps
<1> QED  BY <1>1, <1>2, <1>3, <1>4, <1>5, <1>6, <1>7, <1>8 DEF Wall!WallNext

LEMMA WallStarts == Wall!WallInit => WallInv
<1> SUFFICES ASSUME Wall!WallInit PROVE WallInv
  OBVIOUS
<1>1. /\ wall = Wall!Rendered("recent", "none", Wall!NoTask, rows)
      /\ asked = <<"recent", "none", Wall!NoTask>> /\ box = Wall!Shut /\ acted = Wall!NoPhoto
  BY DEF Wall!WallInit
<1>2. SoundPage(wall) /\ wall.view = "recent" /\ wall.q = "none" /\ wall.task = Wall!NoTask
  BY <1>1, RenderedPage
<1> QED  BY <1>1, <1>2 DEF WallInv, BoxInv

LEMMA WallMeans == WallInv => Wall!WallIsTrue
<1> SUFFICES ASSUME WallInv PROVE Wall!WallIsTrue
  OBVIOUS
<1>1. \A i, j \in DOMAIN wall.tiles : \A k \in DOMAIN wall.tiles[i], l \in DOMAIN wall.tiles[j] :
         wall.tiles[i][k] \in DOMAIN wall.cards /\ (wall.tiles[i][k] = wall.tiles[j][l] => i = j /\ k = l)
  BY DEF WallInv, SoundPage, TiledOnce
<1>2. Scoped(wall) => \A p \in DOMAIN wall.cards : Subjects[p] = wall.task
  BY DEF WallInv, SoundPage
<1>3. acted # Wall!NoPhoto /\ rows[acted].there => StandsAt(acted)
  BY DEF WallInv
<1>4. ~(wall.view # "task" \/ wall.task = Wall!NoTask) <=> Scoped(wall)
  BY DEF Scoped
<1> QED  BY <1>1, <1>2, <1>3, <1>4 DEF WallInv, BoxInv, Wall!WallIsTrue, StandsAt, Beside

\* Whatever is taken, hidden, found and tapped, for any photos, guests, tasks
\* and searches: every tile has its card and its one group, a moderation comes
\* back to the card it was made on in the view it was made in, and the viewer
\* steps through what shows (routes/admin/moderation.js, views/admin-photos.ejs,
\* lightbox.js).
THEOREM WallIsAlwaysTrue == HostSpec => []WallIsTrue
<1> DEFINE Inv == part = "wall" => WallInv
<1>1. HostInit => Inv
  BY WallStarts DEF HostInit
<1>2. Inv /\ [HostNext]_<<part, vars, rankVars, wallVars>> => Inv'
  <2> SUFFICES ASSUME Inv, [HostNext]_<<part, vars, rankVars, wallVars>>, part' = "wall" PROVE WallInv'
    OBVIOUS
  <2>1. part = "wall"
    BY DEF HostNext
  <2>2. [Wall!WallNext]_Wall!wallVars
    BY <2>1 DEF HostNext, wallVars, Wall!wallVars
  <2> QED  BY <2>1, <2>2, WallNextInv
<1>3. Inv => WallIsTrue
  BY WallMeans DEF WallIsTrue
<1> QED  BY <1>1, <1>2, <1>3, PTL DEF HostSpec

=============================================================================
