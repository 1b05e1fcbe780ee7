----------------------------- MODULE UploadPage -----------------------------
(***************************************************************************)
(* A guest's browser around an upload: the task form and the form of the   *)
(* memories (public/js/upload.js), and the one-shot cookies that carry the *)
(* outcome over the redirect (middleware/session.js).  Every request takes *)
(* a snapshot of the cookies along; its answer clears those it carried,    *)
(* newer ones of the same name included, and may set one.  A page shows    *)
(* what its request carried.  What the server does with the photo is in    *)
(* Submissions and Memories.                                               *)
(***************************************************************************)
EXTENDS Integers, Sequences, FiniteSets, FiniteSetsExt

CONSTANTS
    Engines,    \* "manual": fetch leaves redirects alone; "follows": it does not;
                \* "none": no fetch, a native form; "memories": the memories' form
    Picks,      \* photos of the picker
    MaxPosts,   \* bound on uploads
    MaxOthers   \* bound on requests of another tab, and on cookies that expire

VARIABLES
    engine,
    chosen,     \* the photo in the picker, which the form requires; None
    button,     \* "ready" or "uploading"
    post,       \* the uploads so far: where each is, the photo of the tap and the photo sent, the cookies, the outcome
    nav,        \* the page being fetched, with the cookies of its request; or NoPage
    page,       \* the page on screen and which uploads it tells of
    jar,        \* cookie -> the upload it tells of, or 0
    saved,      \* the server holds a photo for the task
    other,      \* the cookies a request of another tab carries
    others,     \* requests of other tabs so far
    meddled,    \* history: another tab or the clock took a cookie
    seen        \* history: the uploads whose outcome this tab showed

uploadVars == <<engine, chosen, button, post, nav, page, jar, saved, other, others, meddled, seen>>

None == 0
NoPage == [at |-> "nowhere"]
Cookies == {"flash", "taskComplete", "memoryBatchPartial"}
NoCookies == [k \in Cookies |-> 0]

Form == IF engine = "memories" THEN "memories/new" ELSE "task"
Scripted == engine \in {"manual", "follows"}
InFlight == {i \in DOMAIN post : post[i].at \in {"preparing", "sent", "answered", "following"}}
\* The page on screen waits for the answer of its last upload only.
Awaited(i) == i = Len(post)

-----------------------------------------------------------------------------
(* The photo, made smaller (upload.js).                                    *)

\* Math.round of a scaled edge: halves go up.
Scaled(edge, maxEdge, longEdge) == (2 * edge * maxEdge + longEdge) \div (2 * longEdge)

\* Mutant of computeTargetSize: the short edge may vanish.
computeTargetSizeUnclamped(width, height, maxEdge) ==
    LET longEdge == Max({width, height})
    IN  IF longEdge <= maxEdge THEN <<width, height>>
        ELSE <<Scaled(width, maxEdge, longEdge), Scaled(height, maxEdge, longEdge)>>

computeTargetSize(width, height, maxEdge) ==
    LET longEdge == Max({width, height})
    IN  IF longEdge <= maxEdge THEN <<width, height>>
        ELSE <<Max({1, Scaled(width, maxEdge, longEdge)}), Max({1, Scaled(height, maxEdge, longEdge)})>>

shouldDownscale(image, opts) ==
    image.width > opts.maxEdge \/ image.height > opts.maxEdge \/ image.bytes > opts.maxBytes

\* blob: the size of the new encoding, or None when there is none.
downscaleImage(image, opts, blob) ==
    LET target == computeTargetSize(image.width, image.height, opts.maxEdge)
    IN  IF ~shouldDownscale(image, opts) \/ blob = None \/ blob >= image.bytes THEN image
        ELSE [width |-> target[1], height |-> target[2], bytes |-> blob]

\* The minutes a throttled guest is told to wait; 0 when the header is no good.
retryWaitPhrase(seconds) ==
    IF seconds <= 0 THEN 0 ELSE Max({1, (seconds + 59) \div 60})

-----------------------------------------------------------------------------
(* The names of a batch's failed files that fit the cookie (session.js).   *)
(* A name is its code points and the bytes one takes when encoded.         *)

Ellipsis == 9
truncateFailedName(name, most) ==
    IF name.points <= most THEN name.points * name.width ELSE most * name.width + Ellipsis

\* The quotes and the comma of a name, the ids, the count and the signature.
encodedSignedCookieByteLength(lengths, fixed) == fixed + MapThenSumSet(LAMBDA i : lengths[i] + 9, DOMAIN lengths)

\* Mutant of buildMemoryBatchPartialPayload: the name that passes the budget
\* is still put in.
buildPayloadLate(lengths, fixed, budget) ==
    LET stored[i \in 0..Len(lengths)] ==
            IF i = 0 THEN <<>>
            ELSE IF encodedSignedCookieByteLength(stored[i - 1], fixed) > budget THEN stored[i - 1]
            ELSE Append(stored[i - 1], lengths[i])
    IN  [failed |-> stored[Len(lengths)], droppedCount |-> Len(lengths) - Len(stored[Len(lengths)])]

\* A name that does not fit is skipped, a shorter one after it may fit.
buildMemoryBatchPartialPayload(lengths, fixed, budget) ==
    LET stored[i \in 0..Len(lengths)] ==
            IF i = 0 THEN <<>>
            ELSE LET candidate == Append(stored[i - 1], lengths[i])
                 IN  IF encodedSignedCookieByteLength(candidate, fixed) > budget THEN stored[i - 1] ELSE candidate
    IN  [failed |-> stored[Len(lengths)], droppedCount |-> Len(lengths) - Len(stored[Len(lengths)])]

-----------------------------------------------------------------------------
(* The one-shot cookies (session.js).                                      *)

\* The cookies after an answer to a request that carried some and set some.
Answered(carried, set) ==
    [k \in Cookies |-> IF set[k] # 0 THEN set[k] ELSE IF carried[k] # 0 THEN 0 ELSE jar[k]]

\* Mutant of Rendered: the card and the plain message stand side by side.
RenderedBoth(at, carried) ==
    [at |-> at, line |-> 0, flash |-> carried["flash"],
     card |-> IF at = "task" THEN carried["taskComplete"] ELSE 0,
     partial |-> IF at = "memories/new" THEN carried["memoryBatchPartial"] ELSE 0]

\* What a page shows of the cookies of its request.  The card stands alone.
Rendered(at, carried) ==
    [at |-> at, line |-> 0, flash |-> IF carried["taskComplete"] # 0 THEN 0 ELSE carried["flash"],
     card |-> IF at = "task" THEN carried["taskComplete"] ELSE 0,
     partial |-> IF at = "memories/new" THEN carried["memoryBatchPartial"] ELSE 0]

Told(p) == {p.flash, p.card, p.partial, p.line} \ {0}
Show(p) == page' = p /\ seen' = seen \cup Told(p)

\* The cookie that tells of an outcome.
SetFor(i, outcome) ==
    [NoCookies EXCEPT
        !["taskComplete"] = IF outcome = "created" THEN i ELSE 0,
        !["memoryBatchPartial"] = IF outcome = "partial" THEN i ELSE 0,
        !["flash"] = IF outcome \in {"replaced", "failed", "shared"} THEN i ELSE 0]

-----------------------------------------------------------------------------
(* The form.                                                               *)

UploadInit ==
    /\ engine \in Engines
    /\ chosen = None /\ button = "ready" /\ post = <<>> /\ nav = NoPage
    /\ page = Rendered(Form, NoCookies)
    /\ jar = NoCookies /\ saved = FALSE
    /\ other = NoCookies /\ others = 0 /\ meddled = FALSE /\ seen = {}

\* initPreview: the picker stays open to a change while an upload runs.
Pick(f) ==
    /\ page.at = Form /\ chosen # f /\ chosen' = f
    /\ UNCHANGED <<engine, button, post, nav, page, jar, saved, other, others, meddled, seen>>

\* A tap on submit.  A native form sends at once and drops what the page was
\* waiting for; a scripted one first makes the photo smaller.
Submit ==
    /\ page.at = Form /\ chosen # None /\ button = "ready" /\ Len(post) < MaxPosts
    /\ post' = Append(post, [at |-> IF Scripted THEN "preparing" ELSE "sent", shown |-> chosen,
                             file |-> chosen, carried |-> jar, outcome |-> "none"])
    /\ button' = IF engine = "none" THEN "ready" ELSE "uploading"
    /\ page' = [page EXCEPT !.line = 0]
    /\ nav' = NoPage
    /\ UNCHANGED <<engine, chosen, jar, saved, other, others, meddled, seen>>

Becomes(i, at) == post' = [post EXCEPT ![i].at = at]

\* Mutant of Send: the form is read again, and with it the picker.
SendPicked(i) ==
    /\ post[i].at = "preparing"
    /\ post' = [post EXCEPT ![i].at = "sent", ![i].carried = jar, ![i].file = chosen]
    /\ UNCHANGED <<engine, chosen, button, nav, page, jar, saved, other, others, meddled, seen>>

\* The photo of the tap takes the place of the picker's in the form.
Send(i) ==
    /\ post[i].at = "preparing"
    /\ post' = [post EXCEPT ![i].at = "sent", ![i].carried = jar]
    /\ UNCHANGED <<engine, chosen, button, nav, page, jar, saved, other, others, meddled, seen>>

\* The guest may have taken the photo down elsewhere: then it is created anew.
Outcomes ==
    IF engine = "memories" THEN {"shared", "partial", "failed", "limited", "refused"}
    ELSE {"created", "failed", "refused"} \cup (IF saved THEN {"replaced"} ELSE {})

Serve(i, outcome) ==
    /\ post[i].at = "sent"
    /\ post' = [post EXCEPT ![i].at = "answered", ![i].outcome = outcome]
    /\ saved' = (saved \/ outcome \in {"created", "replaced"})
    /\ UNCHANGED <<engine, chosen, button, nav, page, jar, other, others, meddled, seen>>

Target(outcome) == IF outcome = "shared" THEN "gallery" ELSE Form
Redirected(i) == post[i].outcome \in {"created", "replaced", "failed", "shared", "partial"}

Navigate(at) == nav' = [at |-> at, carried |-> jar']

\* clearUploadingState, and the line under the button.
Fail(i) ==
    /\ button' = "ready" /\ Show([page EXCEPT !.line = i])
    /\ UNCHANGED nav

\* A page rendered in answer to the post itself: the form with a line, or an
\* error page.
Direct(i) ==
    /\ Show([Rendered(IF post[i].outcome = "limited" THEN Form ELSE "error", post[i].carried)
                EXCEPT !.line = i])
    /\ button' = "ready" /\ UNCHANGED nav

\* The answer of an upload reaches the browser.
Answer(i) ==
    /\ post[i].at = "answered"
    /\ jar' = Answered(post[i].carried, SetFor(i, post[i].outcome))
    /\ IF ~Awaited(i) THEN Becomes(i, "done") /\ UNCHANGED <<button, nav, page, seen>>
       ELSE IF Redirected(i) /\ engine = "follows"
       THEN /\ post' = [post EXCEPT ![i].at = "following", ![i].carried = jar']
            /\ UNCHANGED <<button, nav, page, seen>>
       ELSE /\ Becomes(i, "done")
            /\ IF Redirected(i) THEN Navigate(Target(post[i].outcome)) /\ UNCHANGED <<button, page, seen>>
               ELSE IF Scripted THEN Fail(i) ELSE Direct(i)
    /\ chosen' = IF Scripted \/ page' = page THEN chosen ELSE None
    /\ UNCHANGED <<engine, saved, other, others, meddled>>

\* An engine that follows the redirect fetches the page and throws it away;
\* then the script navigates there.
Followed(i) ==
    /\ post[i].at = "following"
    /\ jar' = Answered(post[i].carried, NoCookies)
    /\ Becomes(i, "done") /\ Navigate(Form)
    /\ UNCHANGED <<engine, chosen, button, page, saved, other, others, meddled, seen>>

\* The network fails before the answer is there, perhaps after the server took
\* the photo.
Lose(i) ==
    /\ post[i].at \in {"sent", "answered"}
    /\ Becomes(i, "lost")
    /\ IF ~Awaited(i) THEN UNCHANGED <<button, nav, page, seen>>
       ELSE IF Scripted THEN Fail(i)
       ELSE button' = "ready" /\ Show([Rendered("error", NoCookies) EXCEPT !.line = i]) /\ UNCHANGED nav
    /\ UNCHANGED <<engine, chosen, jar, saved, other, others, meddled>>

\* The page arrives, with a fresh form.
Land ==
    /\ nav # NoPage
    /\ Show(Rendered(nav.at, nav.carried))
    /\ jar' = Answered(nav.carried, NoCookies)
    /\ nav' = NoPage /\ button' = "ready" /\ chosen' = None
    /\ UNCHANGED <<engine, post, saved, other, others, meddled>>

\* Mutant of Back: the form comes back from the cache as it was.
BackAsItWas ==
    /\ page.at # Form /\ nav = NoPage
    /\ Show(Rendered(Form, NoCookies)) /\ button' = "uploading"
    /\ UNCHANGED <<engine, chosen, post, nav, jar, saved, other, others, meddled>>

\* pageshow: a form restored from the back-forward cache.  The scripted task
\* form is never left: its page is replaced.
Back ==
    /\ page.at # Form /\ nav = NoPage
    /\ Show(Rendered(Form, NoCookies)) /\ button' = "ready"
    /\ UNCHANGED <<engine, chosen, post, nav, jar, saved, other, others, meddled>>

-----------------------------------------------------------------------------
(* Other tabs of the same browser, and cookies that expire.                *)

OtherAsks ==
    /\ others < MaxOthers /\ other = NoCookies /\ jar # NoCookies
    /\ other' = jar /\ others' = others + 1 /\ meddled' = TRUE
    /\ UNCHANGED <<engine, chosen, button, post, nav, page, jar, saved, seen>>

OtherAnswered ==
    /\ other # NoCookies /\ other' = NoCookies
    /\ jar' = Answered(other, NoCookies)
    /\ UNCHANGED <<engine, chosen, button, post, nav, page, saved, others, meddled, seen>>

Expire(k) ==
    /\ others < MaxOthers /\ jar[k] # 0
    /\ jar' = [jar EXCEPT ![k] = 0] /\ others' = others + 1 /\ meddled' = TRUE
    /\ UNCHANGED <<engine, chosen, button, post, nav, page, saved, other, seen>>

UploadNext ==
    \/ Submit \/ Land \/ Back \/ OtherAsks \/ OtherAnswered
    \/ \E f \in Picks : Pick(f)
    \/ \E k \in Cookies : Expire(k)
    \/ \E i \in DOMAIN post :
        \/ Send(i) \/ Answer(i) \/ Followed(i) \/ Lose(i)
        \/ \E outcome \in Outcomes : Serve(i, outcome)

UploadSpec == UploadInit /\ [][UploadNext]_uploadVars

-----------------------------------------------------------------------------
Settled == InFlight = {} /\ nav = NoPage

(* Each upload ends with its outcome on the screen of its tab: the card,   *)
(* the message or the line of that very upload, as long as no other tab    *)
(* and no expiry took the cookie.  Where the engine follows redirects the  *)
(* answer to a redirected upload is lost, as upload.js says; where the     *)
(* form is native, double taps leave one of their outcomes on screen.      *)
OutcomeIsShown ==
    Settled /\ ~meddled =>
        /\ engine \in {"manual", "memories"} => seen = DOMAIN post
        /\ engine = "none" /\ post # <<>> => seen # {}

(* The success card and the plain message never stand together, although   *)
(* a double tap fetches both (session.js).                                 *)
CardStandsAlone == ~(page.card # 0 /\ page.flash # 0)

(* A form with a script has one upload under way, its button tells, and it *)
(* can be used again whenever none is, whatever failed.                    *)
ButtonFollowsUpload ==
    engine # "none" =>
        /\ Cardinality(InFlight) <= 1
        /\ page.at = Form => (button = "ready" <=> Settled)

(* The photo that is sent is the one that was picked when the guest tapped,*)
(* though the picker may change while it is made smaller; and the line of  *)
(* a failure is gone once the next upload is under way.                    *)
TapIsKept ==
    /\ \A i \in DOMAIN post : post[i].file = post[i].shown
    /\ page.line \in {0, Len(post)}

UploadIsAnswered == OutcomeIsShown /\ CardStandsAlone /\ ButtonFollowsUpload /\ TapIsKept

-----------------------------------------------------------------------------
(* Bounded inputs.  An image is never made larger, keeps both its edges    *)
(* and its shape to half a pixel, and fits; what is sent is never heavier. *)
SizesAreRight(edges, maxEdge) ==
    \A w, h \in edges :
        LET t == computeTargetSize(w, h, maxEdge)
            longEdge == Max({w, h})
            opts == [maxEdge |-> maxEdge, maxBytes |-> 2]
            near(scaled, edge) ==
                \/ 2 * scaled * longEdge - 2 * edge * maxEdge \in -longEdge..longEdge
                \/ scaled = 1 /\ 2 * edge * maxEdge < longEdge
        IN  /\ longEdge <= maxEdge => t = <<w, h>>
            /\ longEdge > maxEdge => Max({t[1], t[2]}) = maxEdge /\ near(t[1], w) /\ near(t[2], h)
            /\ Min({t[1], t[2]}) >= 1
            /\ \A bytes \in 1..3, blob \in 0..3 :
                  LET out == downscaleImage([width |-> w, height |-> h, bytes |-> bytes], opts, blob)
                  IN  out.bytes <= bytes /\ (out.bytes = bytes => out.width = w /\ out.height = h)

(* The cookie of a partly failed batch stays within its budget, accounts   *)
(* for every failed file, and leaves out none that would have fit.         *)
PayloadsFit(names, fixed, budget, most) ==
    LET lengths == [i \in DOMAIN names |-> truncateFailedName(names[i], most)]
        p == buildMemoryBatchPartialPayload(lengths, fixed, budget)
        weight(q) == encodedSignedCookieByteLength(q, fixed)
    IN  /\ p.failed # <<>> => weight(p.failed) <= budget
        /\ Len(p.failed) + p.droppedCount = Len(names)
        /\ p.droppedCount > 0 => weight(p.failed) + Max({lengths[i] + 9 : i \in DOMAIN lengths}) > budget

(* The guest is never told to come back before the limiter lets it through.*)
WaitIsEnough(seconds) ==
    \A s \in seconds : LET m == retryWaitPhrase(s) IN s > 0 => 60 * m >= s /\ 60 * (m - 1) < s
=============================================================================
