----------------------------- MODULE Slideshow ------------------------------
(***************************************************************************)
(* The end-of-night slideshow.  The server makes one sequence of title     *)
(* cards and photos (services/feed.js): the crowd's favorites, then one    *)
(* section per task, each counting down to its winner; the page plays it   *)
(* by itself or as the host directs (public/js/slideshow.js).              *)
(***************************************************************************)
EXTENDS Integers, Sequences, FiniteSets, SequencesExt

CONSTANTS
    Reels,                          \* the nights: sequences of photos, by id
    Paying,                         \* places of the crowd's that pay
    SLIDESHOW_SECTION_SIZE, SLIDESHOW_MAX_TASK_SECTIONS

VARIABLES
    reel,       \* id -> [guest, task, likes, points, shown]
    mode,       \* "auto" or "directed"
    slides,     \* the sequence the page was given
    idx,        \* the slide that is on; 0 when there is none
    paused,
    timer       \* the slide the pending timeout was set for; 0 when none is

slideVars == <<reel, mode, slides, idx, paused, timer>>

Memory == 0     \* the task of a photo that answers none

-----------------------------------------------------------------------------
(* The sequence: slideshowSequence.                                        *)

VisibleIds(r) == {p \in DOMAIN r : r[p].shown}

\* crowdFavorites: of each guest the most liked photo, the older of two; and
\* among these the places that pay.
BestPerGuest(r) ==
    {p \in VisibleIds(r) :
        /\ r[p].likes > 0
        /\ \A q \in VisibleIds(r) \ {p} :
             r[q].guest = r[p].guest => r[q].likes < r[p].likes \/ (r[q].likes = r[p].likes /\ p < q)}
crowdFavorites(r) ==
    LET best == BestPerGuest(r)
        placed == [p \in best |-> 1 + Cardinality({q \in best : r[q].likes > r[p].likes})]
    IN  {[photo |-> p, rank |-> placed[p]] : p \in {p \in best : placed[p] <= Paying}}

\* Array.prototype.sort.
Sorted(S, before(_, _)) ==
    LET ahead == [p \in S |-> Cardinality({q \in S \ {p} : before(q, p)})]
    IN  [i \in 1 .. Cardinality(S) |-> CHOOSE p \in S : ahead[p] = i - 1]

Slide(p, rank) == [photo |-> p, rank |-> rank, winner |-> rank = 1]
CountDown(title, line) == <<title>> \o Reverse(line)

\* Mutant of buildCrowdFavoriteSection: ranks by position, as in a task section.
buildCrowdFavoriteByPosition(r, placing) ==
    LET line == Sorted(placing, LAMBDA c, d : c.rank < d.rank \/ (c.rank = d.rank /\ c.photo < d.photo))
    IN  CountDown([title |-> Len(line)], [i \in DOMAIN line |-> Slide(line[i].photo, i)])

\* The opener: whoever places, with the place of the standings, best last.
buildCrowdFavoriteSection(r, placing) ==
    LET line == Sorted(placing, LAMBDA c, d : c.rank < d.rank \/ (c.rank = d.rank /\ c.photo < d.photo))
    IN  CountDown([title |-> Len(line)], [i \in DOMAIN line |-> Slide(line[i].photo, line[i].rank)])

\* A task's section: its best photos by points, likes and age, best last.
buildSlideshowSection(r, task, S) ==
    LET line == Sorted(S, LAMBDA p, q :
                    \/ r[p].points > r[q].points
                    \/ r[p].points = r[q].points /\ r[p].likes > r[q].likes
                    \/ r[p].points = r[q].points /\ r[p].likes = r[q].likes /\ p > q)
        top == SubSeq(line, 1, IF Len(line) < SLIDESHOW_SECTION_SIZE THEN Len(line) ELSE SLIDESHOW_SECTION_SIZE)
    IN  CountDown([title |-> Len(top), task |-> task], [i \in DOMAIN top |-> Slide(top[i], i)])

\* Mutant of Remaining: the opener's photos come again in their task's section.
RemainingAll(r, placing) == {p \in VisibleIds(r) : r[p].task # Memory}

Remaining(r, placing) == {p \in VisibleIds(r) : r[p].task # Memory} \ {c.photo : c \in placing}

\* The fullest tasks, the lower id first among equals.
slideshowSequence(r) ==
    LET placing == crowdFavorites(r)
        left == Remaining(r, placing)
        of == [t \in {r[p].task : p \in left} |-> {p \in left : r[p].task = t}]
        order == Sorted(DOMAIN of, LAMBDA t, u : \/ Cardinality(of[t]) > Cardinality(of[u])
                                                 \/ Cardinality(of[t]) = Cardinality(of[u]) /\ t < u)
        kept == IF Len(order) < SLIDESHOW_MAX_TASK_SECTIONS THEN Len(order) ELSE SLIDESHOW_MAX_TASK_SECTIONS
    IN  (IF placing = {} THEN <<>> ELSE buildCrowdFavoriteSection(r, placing))
          \o FlattenSeq([i \in 1 .. kept |-> buildSlideshowSection(r, order[i], of[order[i]])])

-----------------------------------------------------------------------------
(* The player.                                                             *)

\* scheduleAuto: the pending timeout, if any, is cleared first.
scheduleAuto(i, p) == timer' = IF mode = "auto" /\ ~p THEN i ELSE 0

\* Mutant of show: another slide's timeout stays pending.
showKeepingTimer(i) ==
    /\ idx' = i
    /\ timer' = IF mode = "auto" /\ ~paused /\ timer = 0 THEN i ELSE timer

show(i) == idx' = i /\ scheduleAuto(i, paused)

Around(i) == ((i - 1) % Len(slides)) + 1

SlideInit ==
    /\ reel \in Reels
    /\ mode \in {"auto", "directed"}
    /\ slides = slideshowSequence(reel)
    /\ paused = FALSE
    /\ idx = IF slides = <<>> THEN 0 ELSE 1
    /\ timer = IF mode = "auto" THEN idx ELSE 0

\* An arrow, a tap at a side, or the timeout.
Turn(by) == slides # <<>> /\ show(Around(idx + by)) /\ UNCHANGED <<reel, mode, slides, paused>>
Elapse == timer # 0 /\ show(Around(idx + 1)) /\ UNCHANGED <<reel, mode, slides, paused>>

\* The space bar, in auto only.
setPaused ==
    /\ slides # <<>> /\ mode = "auto"
    /\ paused' = ~paused
    /\ scheduleAuto(idx, ~paused)
    /\ UNCHANGED <<reel, mode, slides, idx>>

SlideNext == (\E by \in {-1, 1} : Turn(by)) \/ Elapse \/ setPaused

SlideSpec == SlideInit /\ [][SlideNext]_slideVars

-----------------------------------------------------------------------------
(* Properties.                                                             *)

IsTitle(s) == "title" \in DOMAIN s
Shows == {i \in DOMAIN slides : ~IsTitle(slides[i])}
Titles == {i \in DOMAIN slides : IsTitle(slides[i])}
EndOf(i) == i + slides[i].title
Behind(p, q) ==
    \/ reel[p].points < reel[q].points
    \/ reel[p].points = reel[q].points /\ reel[p].likes <= reel[q].likes

\* No photo is shown twice and no hidden one; a card promises the photos that
\* follow it and the last of them is its winner, the better after the worse;
\* who places in the standings is in the opener, with that place; and a task's
\* photo is left out only for better ones or for fuller tasks.
ReelIsTheNight ==
    LET visible == VisibleIds(reel)
        placing == crowdFavorites(reel)
        sections == {i \in Titles : "task" \in DOMAIN slides[i]}
    IN  /\ \A i \in Shows : slides[i].photo \in visible
        /\ \A i, j \in Shows : slides[i].photo = slides[j].photo => i = j
        /\ \A i \in Titles : /\ slides[i].title > 0
                             /\ \A j \in i + 1 .. EndOf(i) : j \in Shows
                             /\ EndOf(i) < Len(slides) => EndOf(i) + 1 \in Titles
                             /\ slides[EndOf(i)].winner
                             /\ \A j \in i + 1 .. EndOf(i) - 1 : slides[j].rank >= slides[j + 1].rank
        /\ placing # {} =>
             {[photo |-> slides[i].photo, rank |-> slides[i].rank] : i \in 2 .. EndOf(1)} = placing
        /\ \A p \in {p \in visible : reel[p].task # Memory} :
             \/ \E i \in Shows : slides[i].photo = p
             \/ \E i \in sections : /\ slides[i].task = reel[p].task
                                     /\ slides[i].title = SLIDESHOW_SECTION_SIZE
                                     /\ \A j \in i + 1 .. EndOf(i) : Behind(p, slides[j].photo)
             \/ /\ Cardinality(sections) = SLIDESHOW_MAX_TASK_SECTIONS
                /\ \A i \in sections : slides[i].task # reel[p].task

\* One slide is on, and one timeout is pending for it exactly while the show
\* plays by itself.
OneSlideIsOn ==
    /\ slides # <<>> => idx \in DOMAIN slides
    /\ timer = IF mode = "auto" /\ ~paused /\ slides # <<>> THEN idx ELSE 0

SlideshowPlays == ReelIsTheNight /\ OneSlideIsOn

=============================================================================
