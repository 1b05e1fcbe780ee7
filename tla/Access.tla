------------------------------- MODULE Access -------------------------------
(***************************************************************************)
(* Who gets in: joining, signing in with a contact and a PIN, the host's   *)
(* password, and what slows down guessing.  Four stores decide it.  The    *)
(* fixed-window limiters and the guest lockouts live in maps in memory,    *)
(* capped, and are forgotten by a restart; the host's lockout lives in the *)
(* settings table and is not; the guests table says who is blocked.        *)
(*                                                                         *)
(* Every handler is synchronous except the host's login, which reads the   *)
(* lockout only after the awaited compare (Gate models the slot it waits   *)
(* for), so attempts that overlap answer in any order.  The CSRF check     *)
(* every write passes first is in Csrf, a decision on one request.         *)
(***************************************************************************)
EXTENDS Csrf, FiniteSets, FiniteSetsExt

CONSTANTS
    Guests,         \* ids of the guests table, in the order they are given out
    Contacts,       \* normalized contacts
    Spelled,        \* what is typed -> the contact it normalizes to, or None
    Pins,
    Devices,        \* addresses requests come from
    None,           \* NULL, no guest, no contact
    Window,         \* RATE_LIMIT_WINDOW_MS, in ticks
    IpMax,          \* RATE_LIMIT_IP_MAX
    BucketsMax,     \* RATE_LIMIT_TRACKED_MAX
    Lockout,        \* GUEST_LOGIN_LOCKOUT_MS and ADMIN_LOGIN_LOCKOUT_MS, in ticks
    GuestAttempts,  \* GUEST_LOGIN_MAX_ATTEMPTS
    AdminAttempts,  \* ADMIN_LOGIN_MAX_ATTEMPTS
    TrackedMax,     \* GUEST_LOGIN_TRACKED_MAX
    Founder,        \* the contact of the guest who has joined already
    Joiners,        \* bound: the devices that join
    Horizon,        \* bound on time
    MaxRequests     \* bound on requests

ASSUME AccessAssumption ==
    /\ Guests \subseteq Nat /\ Spelled \in [DOMAIN Spelled -> Contacts \cup {None}]
    /\ None \notin Contacts /\ None \notin Pins /\ None \notin Guests
    /\ {Window, IpMax, BucketsMax, Lockout, GuestAttempts, AdminAttempts, TrackedMax}
            \subseteq Nat \ {0}
    /\ Founder \in Contacts /\ Joiners \subseteq Devices
    /\ Horizon \in Nat /\ MaxRequests \in Nat

VARIABLES
    now,        \* Date.now()
    guest,      \* guest id -> row: contact, pin, blocked; or NoGuest
    signedIn,   \* device -> guest whose gsid cookie it holds, or None
    bucket,     \* limiter -> device -> count and resetAt, or Absent
    entry,      \* guestLockoutState: contact -> fails, last, until, or Absent
    admin,      \* settings: fails, until
    comparing,  \* "right", "wrong" -> the host's logins being compared
    guesses,    \* history: contact -> times of wrong PINs since it was last forgotten
    admitted,   \* history: limiter -> device -> times let through since forgotten
    counted,    \* history: times of the host's counted failures since a right password
    requests    \* requests so far

vars == <<now, guest, signedIn, bucket, entry, admin, comparing,
          guesses, admitted, counted, requests>>

NoGuest == [contact |-> None, pin |-> None, blocked |-> FALSE, there |-> FALSE]
Absent == [present |-> FALSE]
Limiters == {"join", "login"}

Request == requests < MaxRequests /\ requests' = requests + 1

\* The times of a history, which are in order, that lie in the window of
\* length w ending at t.
Recent(times, t, w) ==
    LET older == {i \in DOMAIN times : times[i] <= t - w}
    IN  SubSeq(times, Cardinality(older) + 1, Len(times))

-----------------------------------------------------------------------------
(* middleware/rate-limit.js                                                *)

Present(map) == {k \in DOMAIN map : map[k].present}

\* What the map can look like after making room for one key: expired windows
\* go, and if that is not enough the one that ends soonest.
sweepAndEvictUnderCap(map) ==
    LET full(m) == Cardinality(Present(m)) >= BucketsMax
        swept == [k \in DOMAIN map |->
                    IF map[k].present /\ now >= map[k].resetAt THEN Absent ELSE map[k]]
        soonest == {k \in Present(swept) : \A j \in Present(swept) : swept[k].resetAt <= swept[j].resetAt}
    IN  IF ~full(map) THEN {map}
        ELSE IF ~full(swept) THEN {swept}
        ELSE {[swept EXCEPT ![k] = Absent] : k \in soonest}

\* rateLimiter: ok says whether next() is called.
rateLimiter(which, d, ok) ==
    LET old == bucket[which][d]
        fresh == [present |-> TRUE, count |-> 0, resetAt |-> now + Window]
    IN  \E map \in IF old.present THEN {bucket[which]} ELSE sweepAndEvictUnderCap(bucket[which]) :
            LET b == IF ~old.present \/ now >= old.resetAt THEN fresh ELSE old
                kept(k) == IF map[k].present THEN Recent(admitted[which][k], now, Window) ELSE <<>>
            IN  /\ ok = (b.count < IpMax)
                /\ bucket' = [bucket EXCEPT ![which] =
                        [map EXCEPT ![d] = IF ok THEN [b EXCEPT !.count = @ + 1] ELSE b]]
                /\ admitted' = [admitted EXCEPT ![which] =
                        [k \in Devices |-> IF k # d THEN kept(k)
                                           ELSE IF ok THEN Append(Recent(@[k], now, Window), now)
                                           ELSE Recent(@[k], now, Window)]]

-----------------------------------------------------------------------------
(* The guest lockout, routes/auth.js.                                      *)

Locked(e, t) == e.present /\ t < e.until

\* Mutant of evictOneGuestEntry: the oldest failure goes, locked or not.
evictTheOldest(map) ==
    {k \in Present(map) : \A j \in Present(map) : map[k].last <= map[j].last}

\* The contacts that may be forgotten to make room: the unlocked one whose
\* last failure is oldest, or the soonest free when all are locked.
evictOneGuestEntry(map) ==
    LET free == {k \in Present(map) : ~Locked(map[k], now)}
    IN  IF free # {} THEN {k \in free : \A j \in free : map[k].last <= map[j].last}
        ELSE {k \in Present(map) : \A j \in Present(map) : map[k].until <= map[j].until}

sweepExpiredGuestLockouts(map) ==
    [k \in DOMAIN map |-> IF map[k].present /\ now >= map[k].until /\ now - map[k].last > Lockout
                          THEN Absent ELSE map[k]]

\* What the map can look like when a failure of a contact is recorded.
roomFor(c) ==
    IF entry[c].present THEN {entry}
    ELSE LET swept == sweepExpiredGuestLockouts(entry)
         IN  IF Cardinality(Present(swept)) < TrackedMax THEN {swept}
             ELSE {[swept EXCEPT ![k] = Absent] : k \in evictOneGuestEntry(swept)}

Failed(e) ==
    LET fails == (IF e.present THEN e.fails ELSE 0) + 1
    IN  IF fails >= GuestAttempts
        THEN [present |-> TRUE, fails |-> 0, last |-> now, until |-> now + Lockout]
        ELSE [present |-> TRUE, fails |-> fails, last |-> now,
              until |-> IF e.present THEN e.until ELSE 0]

\* A contact the map loses a fresh failure of may be guessed at anew.
recordGuestLoginFailure(c) ==
    \E map \in roomFor(c) :
        /\ entry' = [map EXCEPT ![c] = Failed(entry[c])]
        /\ guesses' = [k \in Contacts |->
                LET old == Recent(guesses[k], now, Lockout)
                IN  IF k = c THEN Append(old, now) ELSE IF map[k].present THEN old ELSE <<>>]

-----------------------------------------------------------------------------
(* The handlers.                                                           *)

Init ==
    /\ now = 0
    /\ \E p \in Pins :
          guest = [g \in Guests |-> IF g = Min(Guests)
                                    THEN [contact |-> Founder, pin |-> p, blocked |-> FALSE, there |-> TRUE]
                                    ELSE NoGuest]
    /\ signedIn = [d \in Devices |-> None]
    /\ bucket = [l \in Limiters |-> [d \in Devices |-> Absent]]
    /\ entry = [c \in Contacts |-> Absent]
    /\ admin = [fails |-> 0, until |-> 0]
    /\ comparing = [right |-> 0, wrong |-> 0]
    /\ guesses = [c \in Contacts |-> <<>>]
    /\ admitted = [l \in Limiters |-> [d \in Devices |-> <<>>]]
    /\ counted = <<>>
    /\ requests = 0

Tick ==
    /\ now < Horizon /\ now' = now + 1
    /\ guesses' = [c \in Contacts |-> Recent(guesses[c], now', Lockout)]
    /\ admitted' = [l \in Limiters |-> [d \in Devices |-> Recent(admitted[l][d], now', Window)]]
    /\ counted' = Recent(counted, now', Lockout)
    /\ UNCHANGED <<guest, signedIn, bucket, entry, admin, comparing, requests>>

\* The maps and the compares of a process that ends.
Forget ==
    /\ entry' = [c \in Contacts |-> Absent]
    /\ bucket' = [l \in Limiters |-> [d \in Devices |-> Absent]]
    /\ comparing' = [right |-> 0, wrong |-> 0]
    /\ guesses' = [c \in Contacts |-> <<>>]
    /\ admitted' = [l \in Limiters |-> [d \in Devices |-> <<>>]]

\* The process restarts: the tables stay.
Restart ==
    /\ Request /\ Forget
    /\ UNCHANGED <<now, guest, signedIn, admin, counted>>

normalizeContact(typed) == Spelled[typed]
getGuestByContact(c) == {g \in Guests : guest[g].there /\ guest[g].contact = c}

\* POST /join, with its limiter.  A contact that has a guest is sent to sign
\* in; the avatar and the retry of its form are in Profile.
Join(d, typed, pin) ==
    LET c == normalizeContact(typed)
        free == {g \in Guests : ~guest[g].there}
    IN  /\ Request
        /\ \/ rateLimiter("join", d, FALSE) /\ UNCHANGED <<guest, signedIn>>
           \/ /\ rateLimiter("join", d, TRUE)
              /\ IF c = None \/ getGuestByContact(c) # {}
                 THEN UNCHANGED <<guest, signedIn>>
                 ELSE /\ free # {}
                      /\ guest' = [guest EXCEPT ![Min(free)] =
                            [contact |-> c, pin |-> pin, blocked |-> FALSE, there |-> TRUE]]
                      /\ signedIn' = [signedIn EXCEPT ![d] = Min(free)]
        /\ UNCHANGED <<now, entry, admin, comparing, guesses, counted>>

\* POST /login: the lockout is checked before the PIN, so a locked contact is
\* refused whatever is typed; the right PIN of a blocked guest is refused and
\* neither counted nor forgiven.
Login(d, typed, pin) ==
    LET c == normalizeContact(typed)
        right == {g \in getGuestByContact(c) : guest[g].pin # None /\ guest[g].pin = pin}
        unmoved == UNCHANGED <<signedIn, entry, guesses>>
    IN  /\ Request
        /\ \/ rateLimiter("login", d, FALSE) /\ unmoved
           \/ /\ rateLimiter("login", d, TRUE)
              /\ IF c = None \/ Locked(entry[c], now) THEN unmoved
                 ELSE IF right = {} THEN recordGuestLoginFailure(c) /\ UNCHANGED signedIn
                 ELSE \E g \in right :
                        IF guest[g].blocked THEN unmoved
                        ELSE /\ entry' = [entry EXCEPT ![c] = Absent]
                             /\ guesses' = [guesses EXCEPT ![c] = <<>>]
                             /\ signedIn' = [signedIn EXCEPT ![d] = g]
        /\ UNCHANGED <<now, guest, admin, comparing, counted>>

\* attachGuest on any request: the cookie of a blocked guest is cleared.  One
\* of a deleted guest stays and means nobody.
Visit(d) ==
    /\ signedIn[d] # None /\ guest[signedIn[d]].blocked
    /\ signedIn' = [signedIn EXCEPT ![d] = None]
    /\ UNCHANGED <<now, guest, bucket, entry, admin, comparing, guesses, admitted, counted, requests>>

\* POST /logout, on one device.
Logout(d) ==
    /\ signedIn[d] # None /\ Request
    /\ signedIn' = [signedIn EXCEPT ![d] = None]
    /\ UNCHANGED <<now, guest, bucket, entry, admin, comparing, guesses, admitted, counted>>

\* POST /admin/guests/:id/edit: blocked, and a new PIN (a blank clears it).
\* The lockouts are keyed by contact and are not touched.
HostEdit(g, blocked, pin) ==
    /\ guest[g].there /\ Request
    /\ guest[g] # [guest[g] EXCEPT !.blocked = blocked, !.pin = pin]
    /\ guest' = [guest EXCEPT ![g].blocked = blocked, ![g].pin = pin]
    /\ UNCHANGED <<now, signedIn, bucket, entry, admin, comparing, guesses, admitted, counted>>

\* POST /admin/guests/:id/identity with a contact nobody else has.
HostContact(g, typed) ==
    LET c == normalizeContact(typed)
    IN  /\ guest[g].there /\ Request
        /\ c # None /\ c # guest[g].contact /\ getGuestByContact(c) = {}
        /\ guest' = [guest EXCEPT ![g].contact = c]
        /\ UNCHANGED <<now, signedIn, bucket, entry, admin, comparing, guesses, admitted, counted>>

\* POST /admin/login up to the compare.
AdminLogin(kind) ==
    /\ Request
    /\ comparing' = [comparing EXCEPT ![kind] = @ + 1]
    /\ UNCHANGED <<now, guest, signedIn, bucket, entry, admin, guesses, admitted, counted>>

\* The compare says yes: the lockout is cleared even while it is on.
AdminRight ==
    /\ comparing["right"] > 0
    /\ comparing' = [comparing EXCEPT !["right"] = @ - 1]
    /\ admin' = [fails |-> 0, until |-> 0]
    /\ counted' = <<>>
    /\ UNCHANGED <<now, guest, signedIn, bucket, entry, guesses, admitted, requests>>

recordFailure ==
    admin' = IF admin.fails + 1 >= AdminAttempts
             THEN [fails |-> 0, until |-> now + Lockout]
             ELSE [admin EXCEPT !.fails = @ + 1]

\* Mutant of AdminWrong: the lockout was read before the compare, when it was
\* off.
AdminWrongStale ==
    /\ comparing["wrong"] > 0
    /\ comparing' = [comparing EXCEPT !["wrong"] = @ - 1]
    /\ recordFailure /\ counted' = Append(Recent(counted, now, Lockout), now)
    /\ UNCHANGED <<now, guest, signedIn, bucket, entry, guesses, admitted, requests>>

\* The compare says no: counted unless the lockout is on by now.
AdminWrong ==
    /\ comparing["wrong"] > 0
    /\ comparing' = [comparing EXCEPT !["wrong"] = @ - 1]
    /\ IF now < admin.until THEN UNCHANGED <<admin, counted>>
       ELSE recordFailure /\ counted' = Append(Recent(counted, now, Lockout), now)
    /\ UNCHANGED <<now, guest, signedIn, bucket, entry, guesses, admitted, requests>>

\* The process dies between the two settings a failure or a right password
\* writes: the lockout is on with the count left as it was, or the count is
\* zero with the lockout left as it was.
DieWriting ==
    /\ \/ /\ comparing["wrong"] > 0 /\ now >= admin.until
          /\ admin.fails + 1 >= AdminAttempts
          /\ admin' = [admin EXCEPT !.until = now + Lockout]
          /\ counted' = Append(counted, now)
       \/ /\ comparing["right"] > 0
          /\ admin' = [admin EXCEPT !.fails = 0]
          /\ counted' = <<>>
    /\ Request /\ Forget
    /\ UNCHANGED <<now, guest, signedIn>>

\* The caller hangs up in the queue, or the hash cannot be read or compared.
AdminGone(kind) ==
    /\ comparing[kind] > 0
    /\ comparing' = [comparing EXCEPT ![kind] = @ - 1]
    /\ UNCHANGED <<now, guest, signedIn, bucket, entry, admin, guesses, admitted, counted, requests>>

Next ==
    \/ Tick \/ Restart \/ AdminRight \/ AdminWrong \/ DieWriting
    \/ \E kind \in {"right", "wrong"} : AdminLogin(kind) \/ AdminGone(kind)
    \/ \E d \in Devices :
        \/ Visit(d) \/ Logout(d)
        \/ \E typed \in DOMAIN Spelled, pin \in Pins : Login(d, typed, pin) \/ (d \in Joiners /\ Join(d, typed, pin))
    \/ \E g \in Guests :
        \/ \E blocked \in BOOLEAN, pin \in Pins \cup {None} : HostEdit(g, blocked, pin)
        \/ \E typed \in DOMAIN Spelled : HostContact(g, typed)

Spec == Init /\ [][Next]_vars

-----------------------------------------------------------------------------
Rows == [contact : Contacts \cup {None}, pin : Pins \cup {None}, blocked : BOOLEAN, there : BOOLEAN]
Buckets == {Absent} \cup [present : {TRUE}, count : Nat, resetAt : Nat]
Entries == {Absent} \cup [present : {TRUE}, fails : Nat, last : Nat, until : Nat]

TypeOK ==
    /\ now \in Nat /\ requests \in Nat
    /\ guest \in [Guests -> Rows]
    /\ signedIn \in [Devices -> Guests \cup {None}]
    /\ bucket \in [Limiters -> [Devices -> Buckets]]
    /\ entry \in [Contacts -> Entries]
    /\ admin \in [fails : Nat, until : Nat]
    /\ comparing \in [right : Nat, wrong : Nat]
    /\ guesses \in [Contacts -> Seq(Nat)]
    /\ admitted \in [Limiters -> [Devices -> Seq(Nat)]]
    /\ counted \in Seq(Nat)

\* What AccessProofs proves WindowsHold from.  At time t a history is in order
\* and in its window.
Until(times, t) == \A i \in DOMAIN times : times[i] <= t

History(times, w, t) ==
    /\ \A i, j \in DOMAIN times : i <= j => times[i] <= times[j]
    /\ Until(times, t) /\ \A i \in DOMAIN times : t - w < times[i]

\* A lockout that is on began after all of them, and they are no more than its
\* limit; while it is off the count is at least as many.
Accounted(times, fails, until, limit, t) ==
    /\ fails < limit
    /\ IF t < until THEN Len(times) <= limit /\ Until(times, until - Lockout)
       ELSE Len(times) <= fails

\* The first m were let through before the window the bucket is in, and are no
\* more than a window's worth; the count accounts for the others.
Admitted(times, b, t) ==
    /\ b.count <= IpMax /\ b.resetAt <= t + Window
    /\ Until(times, b.resetAt - 1)
    /\ \E m \in 0 .. IpMax :
        /\ m <= Len(times) /\ Len(times) - m <= b.count
        /\ \A i \in 1 .. m : times[i] < b.resetAt - Window

GuessesKept ==
    \A c \in Contacts :
        /\ History(guesses[c], Lockout, now)
        /\ IF entry[c].present
           THEN Accounted(guesses[c], entry[c].fails, entry[c].until, GuestAttempts, now)
           ELSE guesses[c] = <<>>

HostKept ==
    /\ History(counted, Lockout, now)
    /\ Accounted(counted, admin.fails, admin.until, AdminAttempts, now)

AdmittedKept ==
    \A l \in Limiters, d \in Devices :
        /\ History(admitted[l][d], Window, now)
        /\ IF bucket[l][d].present THEN Admitted(admitted[l][d], bucket[l][d], now)
           ELSE admitted[l][d] = <<>>

Fits(map, n) == IsFiniteSet(Present(map)) /\ Cardinality(Present(map)) <= n

MapsFit == Fits(entry, TrackedMax) /\ \A l \in Limiters : Fits(bucket[l], BucketsMax)

AccessInv == TypeOK /\ GuessesKept /\ HostKept /\ AdmittedKept /\ MapsFit

-----------------------------------------------------------------------------
(* The writes the app's pages send are let through, and no others: see     *)
(* Csrf.  The decision depends on no state.                                *)
OnlyOwnPagesAct == now = 0 /\ requests = 0 => OwnPagesActAlone

Within(times, w, n) == Len(Recent(times, now, w)) <= n

(* No stretch of time sees more than its limit, however requests of many   *)
(* addresses, contacts and overlapping host logins fall in it: as many     *)
(* wrong PINs of a contact as engage its lockout, as many counted failures *)
(* of the host's password as engage that one, and of one address twice     *)
(* what a window admits (its windows are fixed, so two may meet) - as long *)
(* as the full map has not had to forget the contact or the address.       *)
WindowsHold ==
    /\ \A c \in Contacts : Within(guesses[c], Lockout, GuestAttempts)
    /\ Within(counted, Lockout, AdminAttempts)
    /\ \A l \in Limiters, d \in Devices : Within(admitted[l][d], Window, 2 * IpMax)
    /\ Cardinality(Present(entry)) <= TrackedMax
    /\ \A l \in Limiters : Cardinality(Present(bucket[l])) <= BucketsMax

(* A lockout ends early only in the ways the code names.  A guest's: by a  *)
(* restart, or when all tracked contacts are locked and it would end first *)
(* anyway.  The host's: by the right password, and by no restart.  Neither *)
(* is ever prolonged by more failures, and no PIN signs a locked guest in. *)
LockoutsAreKept ==
    [][/\ \A c \in Contacts :
            Locked(entry[c], now) /\ entry'[c] # entry[c] =>
                \/ Present(entry') = {}
                \/ /\ \A k \in Present(entry) : Locked(entry[k], now) /\ entry[c].until <= entry[k].until
                   /\ ~entry'[c].present
       /\ now < admin.until /\ admin'.until # admin.until =>
            admin'.until = 0 /\ comparing'["right"] < comparing["right"]
       /\ \A d \in Devices : signedIn'[d] \notin {None, signedIn[d]} =>
            ~Locked(entry[guest'[signedIn'[d]].contact], now)
                \/ ~guest[signedIn'[d]].there]_vars
=============================================================================
