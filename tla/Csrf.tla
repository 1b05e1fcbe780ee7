-------------------------------- MODULE Csrf --------------------------------
(***************************************************************************)
(* The CSRF check (middleware/csrf.js).  A browser holds a token in a      *)
(* signed cookie; every page rendered for it carries the same token under  *)
(* a mask drawn for that page, and every write has to bring one back, in a *)
(* header or in a form field.  A multipart body is not parsed yet when the *)
(* middleware runs, so on the four upload routes the field is looked at    *)
(* later, by the handler: the one place where the middleware lets a write  *)
(* pass that it has not verified.  The bypass the tests run under is left  *)
(* out.                                                                    *)
(***************************************************************************)
EXTENDS Integers, Sequences

CONSTANT Width          \* RAW_TOKEN_BYTES, in bits

ASSUME CsrfAssumption == Width \in Nat \ {0}

Words(n) == [1 .. n -> {0, 1}]
Tokens == Words(Width)
Nothing == <<>>         \* no header, no field, no cookie

xor(a, b) == [i \in 1 .. Width |-> (a[i] + b[i]) % 2]

maskToken(token, mask) == mask \o xor(token, mask)

unmaskToken(value) ==
    IF Len(value) # 2 * Width THEN Nothing
    ELSE xor(SubSeq(value, 1, Width), SubSeq(value, Width + 1, 2 * Width))

\* timingSafeEqualStrings: two empty strings are not equal.
Equal(a, b) == a # Nothing /\ a = b

\* A page may still carry the bare token, from before tokens were masked.
submittedMatches(value, token) == Equal(unmaskToken(value), token) \/ Equal(value, token)

\* A write: how it is encoded, whether its path is one of
\* MULTIPART_UPLOAD_PATHS, and the two places a token may be in.
Writes ==
    LET values == {Nothing} \cup Words(Width) \cup Words(2 * Width)
    IN  [multipart : BOOLEAN, upload : BOOLEAN, header : values, field : values]

\* A cookie the middleware cannot decode is replaced by a fresh token, which
\* nothing submitted so far can match.
Decodable(cookie) == cookie \in Tokens

\* assertCsrf, after multer: the header verdict of the middleware, else the
\* field.
assertCsrf(write, cookie) ==
    \/ Decodable(cookie) /\ submittedMatches(write.header, cookie)
    \/ write.field # Nothing /\ submittedMatches(write.field, cookie)

\* Mutant of csrfMiddleware: every multipart write is deferred, also to
\* handlers that never look.
csrfDeferringAll(write, cookie) ==
    IF write.multipart THEN ~write.upload \/ assertCsrf(write, cookie)
    ELSE Decodable(cookie) /\
         submittedMatches(IF write.header # Nothing THEN write.header ELSE write.field, cookie)

\* Whether a write reaches the part of its handler that changes state.
csrfMiddleware(write, cookie) ==
    IF write.multipart /\ write.upload THEN assertCsrf(write, cookie)
    ELSE LET field == IF write.multipart THEN Nothing ELSE write.field
         IN  Decodable(cookie) /\
             submittedMatches(IF write.header # Nothing THEN write.header ELSE field, cookie)

-----------------------------------------------------------------------------
\* A value that could only be written by somebody who has seen the token.
Shows(value, token) == value = token \/ \E mask \in Tokens : value = maskToken(token, mask)

\* What the app's own pages send: scripts the header, with any body; plain
\* forms the field, multipart only to the upload routes.
OwnWrites(token) ==
    {w \in Writes :
        \/ \E mask \in Tokens : w.header = maskToken(token, mask)
        \/ /\ \E mask \in Tokens : w.field = maskToken(token, mask)
           /\ w.header = Nothing /\ (w.multipart => w.upload)}

\* Every write of a page the app rendered goes through, whatever mask the
\* page drew, and no write does that does not show the token of the browser's
\* own cookie.  Without a cookie nothing does.
OwnPagesActAlone ==
    \A cookie \in Tokens \cup {Nothing} :
        /\ cookie # Nothing => \A w \in OwnWrites(cookie) : csrfMiddleware(w, cookie)
        /\ \A w \in Writes : csrfMiddleware(w, cookie) =>
              cookie # Nothing /\ (Shows(w.header, cookie) \/ Shows(w.field, cookie))
=============================================================================
