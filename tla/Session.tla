------------------------------ MODULE Session ------------------------------
(***************************************************************************)
(* One user's session: the token pair that link-admin keeps in the cookies *)
(* of a browser, the tabs of that browser with their requests and the      *)
(* refresh that the requests of a tab share, and an API client with tokens *)
(* of its own.                                                             *)
(*                                                                         *)
(* An access token and a refresh token are always issued, set and cleared  *)
(* together, and a cookie lasts as long as its token, so one number stands *)
(* for both: the age of the pair. A pair as old as a refresh token is no   *)
(* pair: its cookies are gone or hold tokens that are refused. The marker  *)
(* auth_state, which nothing reads, is left out.                           *)
(***************************************************************************)
EXTENDS Naturals

CONSTANTS
    Tabs,               \* browser tabs, each a page with its own script
    Requests,           \* requests that are not to /auth
    TabOf,              \* the tab that sends a request
    AccessTokenTTL,     \* lifetimes, in ticks of the clock
    RefreshTokenTTL

ASSUME SessionAssumption ==
    /\ TabOf \in [Requests -> Tabs]
    /\ AccessTokenTTL \in Nat \ {0} /\ RefreshTokenTTL \in Nat
    /\ AccessTokenTTL < RefreshTokenTTL

VARIABLES
    user,               \* the row in users: "none", "active" or "inactive"
    inactiveFor,        \* ticks since it was deactivated, up to AccessTokenTTL
    jar,                \* age of the pair in the cookies
    page,               \* tab -> "app" or "login"
    request,            \* request -> where it is
    token,              \* request -> age of the access token it carries
    refresh,            \* tab -> where the call of its refreshPromise is
    pair,               \* tab -> age of the pair that call carries
    form,               \* tab -> where its login, register or logout is
    issued,             \* age of the pair that the answer to it carries
    client, accepted,   \* age of the API client's pair; it was just accepted
    signedOut,          \* history: a logout was answered, no login since
    racing,             \* history: tabs whose refresh was under way then
    cause               \* history: something has ended the session, or may

requestVars == <<request, token>>
refreshVars == <<refresh, pair>>
formVars == <<form, issued>>
clientVars == <<client, accepted>>
userVars == <<user, inactiveFor>>
history == <<signedOut, racing, cause>>
vars == <<userVars, jar, page, requestVars, refreshVars, formVars, clientVars, history>>

Age == 0..RefreshTokenTTL
NoPair == RefreshTokenTTL

Settled == {"idle", "ok"}
Retried == {"waiting", "resume", "resent", "refusedAgain"}

TypeOK ==
    /\ user \in {"none", "active", "inactive"}
    /\ inactiveFor \in 0..AccessTokenTTL
    /\ jar \in Age
    /\ page \in [Tabs -> {"app", "login"}]
    /\ request \in [Requests -> Settled \cup {"sent", "refused"} \cup Retried]
    /\ token \in [Requests -> Age]
    /\ refresh \in [Tabs -> {"none", "sent", "granted", "missing", "clear"}]
    /\ pair \in [Tabs -> Age]
    /\ form \in [Tabs -> {"none", "login", "register", "granted", "logout"}]
    /\ issued \in Age
    /\ client \in Age /\ accepted \in BOOLEAN
    /\ signedOut \in BOOLEAN /\ racing \subseteq Tabs /\ cause \in BOOLEAN
    \* Who awaits a refresh has one to wait for.
    /\ \A r \in Requests : request[r] = "waiting" => refresh[TabOf[r]] # "none"

Init ==
    /\ user = "none" /\ inactiveFor = 0
    /\ jar = NoPair
    /\ page = [t \in Tabs |-> "login"]
    /\ request = [r \in Requests |-> "idle"]
    /\ token = [r \in Requests |-> NoPair]
    /\ refresh = [t \in Tabs |-> "none"]
    /\ pair = [t \in Tabs |-> NoPair]
    /\ form = [t \in Tabs |-> "none"] /\ issued = NoPair
    /\ client = NoPair /\ accepted = FALSE
    /\ signedOut = FALSE /\ racing = {} /\ cause = TRUE

-----------------------------------------------------------------------------
(* link-admin: what it accepts and issues.                                 *)

\* Mutant: any token that is signed and not expired.
AnyTokenAuthenticates(kind, age) ==
    age < IF kind = "access" THEN AccessTokenTTL ELSE RefreshTokenTTL

\* Authenticate lets a call pass with an access token only.
Authenticates(kind, age) == kind = "access" /\ age < AccessTokenTTL

\* GetUserByEmail and GetUserByID find active users only.
UserFound == user = "active"

\* RefreshSession looks the user up again.
RefreshGranted(t) ==
    /\ refresh[t] = "sent" /\ pair[t] # NoPair /\ UserFound
    /\ refresh' = [refresh EXCEPT ![t] = "granted"]
    /\ pair' = [pair EXCEPT ![t] = 0]
    /\ UNCHANGED <<userVars, jar, page, requestVars, formVars, clientVars, history>>

\* No cookie came with the call: the answer leaves the cookies alone.
RefreshMissing(t) ==
    /\ refresh[t] = "sent" /\ pair[t] = NoPair
    /\ refresh' = [refresh EXCEPT ![t] = "missing"]
    /\ UNCHANGED <<userVars, jar, page, requestVars, pair, formVars, clientVars, history>>

\* Any other failure, an error of the database too, clears the cookies.
RefreshCleared(t) ==
    /\ refresh[t] = "sent"
    /\ refresh' = [refresh EXCEPT ![t] = "clear"]
    /\ pair' = [pair EXCEPT ![t] = NoPair]
    /\ cause' = TRUE
    /\ UNCHANGED <<userVars, jar, page, requestVars, formVars, clientVars, signedOut, racing>>

\* The answer to a form carries a new pair.
Granted(t) ==
    /\ form' = [form EXCEPT ![t] = "granted"]
    /\ issued' = 0
    /\ UNCHANGED <<inactiveFor, jar, page, requestVars, refreshVars, clientVars, history>>

\* RegisterTenantOwner inserts the tenant and its owner in one transaction.
Registered(t) ==
    /\ form[t] = "register" /\ user = "none"
    /\ user' = "active"
    /\ Granted(t)

LoggedIn(t) ==
    /\ form[t] = "login" /\ UserFound
    /\ Granted(t)
    /\ UNCHANGED user

\* Nothing in the repository writes is_active: an operator does.
Deactivate ==
    /\ user = "active"
    /\ user' = "inactive" /\ inactiveFor' = 0 /\ cause' = TRUE
    /\ UNCHANGED <<jar, page, requestVars, refreshVars, formVars, clientVars, signedOut, racing>>

Reactivate ==
    /\ user = "inactive"
    /\ user' = "active" /\ inactiveFor' = 0
    /\ UNCHANGED <<jar, page, requestVars, refreshVars, formVars, clientVars, history>>

-----------------------------------------------------------------------------
(* A tab: the requests of a page and the interceptor of lib/api.ts.        *)

\* The page is loaded anew: its script and everything it awaits are gone.
Gone(t) ==
    LET own(r) == TabOf[r] = t IN
    /\ request' = [r \in Requests |-> IF own(r) THEN "idle" ELSE request[r]]
    /\ token' = [r \in Requests |-> IF own(r) THEN NoPair ELSE token[r]]
    /\ refresh' = [refresh EXCEPT ![t] = "none"]
    /\ pair' = [pair EXCEPT ![t] = NoPair]
    /\ racing' = racing \ {t}
    /\ form' = [form EXCEPT ![t] = "none"]
    /\ issued' = IF form[t] = "granted" THEN NoPair ELSE issued

\* The interceptor gives up: window.location.href = "/login".
GivesUp(t) == Gone(t) /\ page' = [page EXCEPT ![t] = "login"]

Send(r) ==
    /\ request[r] \in Settled /\ page[TabOf[r]] = "app"
    /\ request' = [request EXCEPT ![r] = "sent"]
    /\ token' = [token EXCEPT ![r] = jar]
    /\ UNCHANGED <<userVars, jar, page, refreshVars, formVars, clientVars, history>>

Resend(r) ==
    /\ request[r] = "resume"
    /\ request' = [request EXCEPT ![r] = "resent"]
    /\ token' = [token EXCEPT ![r] = jar]
    /\ UNCHANGED <<userVars, jar, page, refreshVars, formVars, clientVars, history>>

Accept(r) ==
    /\ request[r] \in {"sent", "resent"} /\ Authenticates("access", token[r])
    /\ request' = [request EXCEPT ![r] = "ok"]
    /\ token' = [token EXCEPT ![r] = NoPair]
    /\ UNCHANGED <<userVars, jar, page, refreshVars, formVars, clientVars, history>>

Refuse(r) ==
    /\ request[r] \in {"sent", "resent"} /\ ~Authenticates("access", token[r])
    /\ request' = [request EXCEPT ![r] = IF @ = "sent" THEN "refused" ELSE "refusedAgain"]
    /\ token' = [token EXCEPT ![r] = NoPair]
    /\ UNCHANGED <<userVars, jar, page, refreshVars, formVars, clientVars, history>>

\* No answer, or an error other than 401: the caller's business.
RequestFails(r) ==
    /\ request[r] \in {"sent", "resent", "refused", "refusedAgain"}
    /\ request' = [request EXCEPT ![r] = "idle"]
    /\ token' = [token EXCEPT ![r] = NoPair]
    /\ UNCHANGED <<userVars, jar, page, refreshVars, formVars, clientVars, history>>

\* Mutant: who finds a refresh under way does not wait for it.
GivesUpWhileRefreshing(r) ==
    LET t == TabOf[r] IN
    /\ request[r] = "refused"
    /\ IF refresh[t] = "none"
       THEN /\ request' = [request EXCEPT ![r] = "waiting"]
            /\ refresh' = [refresh EXCEPT ![t] = "sent"]
            /\ pair' = [pair EXCEPT ![t] = jar]
            /\ UNCHANGED <<page, token, formVars, racing>>
       ELSE GivesUp(t)
    /\ UNCHANGED <<userVars, jar, clientVars, signedOut, cause>>

\* The first 401 of a request: it awaits the refresh of its tab, which
\* refreshSession starts unless one is under way.
AwaitRefresh(r) ==
    LET t == TabOf[r] IN
    /\ request[r] = "refused"
    /\ request' = [request EXCEPT ![r] = "waiting"]
    /\ IF refresh[t] = "none"
       THEN /\ refresh' = [refresh EXCEPT ![t] = "sent"]
            /\ pair' = [pair EXCEPT ![t] = jar]
       ELSE UNCHANGED refreshVars
    /\ UNCHANGED <<userVars, jar, page, token, formVars, clientVars, history>>

\* The second one.
ThrownOut(r) ==
    /\ request[r] = "refusedAgain"
    /\ GivesUp(TabOf[r])
    /\ UNCHANGED <<userVars, jar, clientVars, signedOut, cause>>

\* Mutant: the first request takes the answer, the others go on waiting.
ResumesFirst(t) ==
    /\ refresh[t] = "granted"
    /\ jar' = pair[t]
    /\ refresh' = [refresh EXCEPT ![t] = "none"]
    /\ request' = [request EXCEPT ![CHOOSE r \in Requests :
                      TabOf[r] = t /\ request[r] = "waiting"] = "resume"]
    /\ signedOut' = (signedOut /\ t \notin racing)
    /\ racing' = racing \ {t}
    /\ pair' = [pair EXCEPT ![t] = NoPair]
    /\ UNCHANGED <<userVars, page, token, formVars, clientVars, cause>>

\* The answer's cookies are stored, the promise is reset and every request
\* that awaited it is sent again.
RefreshSucceeds(t) ==
    /\ refresh[t] = "granted"
    /\ jar' = pair[t]
    /\ refresh' = [refresh EXCEPT ![t] = "none"]
    /\ request' = [r \in Requests |->
                      IF TabOf[r] = t /\ request[r] = "waiting" THEN "resume" ELSE request[r]]
    /\ signedOut' = (signedOut /\ t \notin racing)
    /\ racing' = racing \ {t}
    /\ pair' = [pair EXCEPT ![t] = NoPair]
    /\ UNCHANGED <<userVars, page, token, formVars, clientVars, cause>>

\* Mutant: the interceptor handles the 401 of /auth/refresh like any other,
\* and awaits the promise it is to settle.
RefreshAwaitsItself(t) ==
    /\ refresh[t] \in {"missing", "clear"}
    /\ jar' = IF refresh[t] = "clear" THEN NoPair ELSE jar
    /\ UNCHANGED <<userVars, page, requestVars, refreshVars, formVars, clientVars, history>>

RefreshFails(t) ==
    /\ refresh[t] \in {"missing", "clear"}
    /\ jar' = IF refresh[t] = "clear" THEN NoPair ELSE jar
    /\ GivesUp(t)
    /\ UNCHANGED <<userVars, clientVars, signedOut, cause>>

\* A network error is a failed refresh too.
RefreshLost(t) ==
    /\ refresh[t] # "none"
    /\ GivesUp(t)
    /\ cause' = TRUE
    /\ UNCHANGED <<userVars, jar, clientVars, signedOut>>

\* The user opens the dashboard by its address, which checks nothing.
OpenApp(t) ==
    /\ page[t] = "login"
    /\ Gone(t)
    /\ page' = [page EXCEPT ![t] = "app"]
    /\ UNCHANGED <<userVars, jar, clientVars, signedOut, cause>>

-----------------------------------------------------------------------------
(* The forms, one at a time: login, register and the button that signs out.*)

Submit(t, what) ==
    /\ \A u \in Tabs : form[u] = "none"
    /\ page[t] = IF what = "logout" THEN "app" ELSE "login"
    /\ form' = [form EXCEPT ![t] = what]
    /\ UNCHANGED <<userVars, jar, page, requestVars, refreshVars, issued, clientVars, history>>

\* A form's call is over, and page p is shown.
Ends(t, p) ==
    /\ form' = [form EXCEPT ![t] = "none"]
    /\ issued' = NoPair
    /\ page' = [page EXCEPT ![t] = p]
    /\ UNCHANGED <<userVars, requestVars, refreshVars, clientVars>>

\* The call is refused, or it or its answer is lost.
SubmitFails(t) ==
    /\ form[t] \in {"login", "register", "granted"}
    /\ Ends(t, page[t])
    /\ UNCHANGED <<jar, history>>

\* A call of an earlier session is still under way.
Leftover ==
    \/ \E t \in Tabs : refresh[t] # "none"
    \/ \E r \in Requests : request[r] \notin Settled

SessionStarts(t) ==
    /\ form[t] = "granted"
    /\ Ends(t, "app")
    /\ jar' = issued
    /\ signedOut' = FALSE /\ racing' = {}
    /\ cause' = (Leftover \/ issued = NoPair \/ user # "active")

\* Refreshes whose answer may set the cookies after the logout cleared them.
Overlapping == {t \in Tabs : refresh[t] \in {"sent", "granted"} /\ pair[t] # NoPair}

\* Mutant: the cookies are cleared for another path, and stay.
LogoutKeepsCookies(t) ==
    /\ form[t] = "logout"
    /\ Ends(t, "login")
    /\ signedOut' = TRUE /\ racing' = Overlapping /\ cause' = TRUE
    /\ UNCHANGED jar

\* Logout is answered; router.push keeps the script and what it awaits.
SignOut(t) ==
    /\ form[t] = "logout"
    /\ Ends(t, "login")
    /\ jar' = NoPair
    /\ signedOut' = TRUE /\ racing' = Overlapping /\ cause' = TRUE

\* Logout gets no answer: the page goes to /login all the same, and the
\* cookies, which only the server can clear, stay.
SignOutLost(t) ==
    /\ form[t] = "logout"
    /\ Ends(t, "login")
    /\ cause' = TRUE
    /\ UNCHANGED <<jar, signedOut, racing>>

-----------------------------------------------------------------------------
(* A client that sends its tokens in the Authorization header, either one. *)

ClientLogsIn ==
    /\ UserFound /\ client = NoPair /\ ~accepted
    /\ client' = 0
    /\ UNCHANGED <<userVars, jar, page, requestVars, refreshVars, formVars, accepted, history>>

ClientCalls(kind) ==
    /\ client # NoPair /\ Authenticates(kind, client)
    /\ accepted' = TRUE
    /\ client' = NoPair
    /\ UNCHANGED <<userVars, jar, page, requestVars, refreshVars, formVars, history>>

ClientGoesOn ==
    /\ accepted
    /\ accepted' = FALSE
    /\ UNCHANGED <<userVars, jar, page, requestVars, refreshVars, formVars, client, history>>

-----------------------------------------------------------------------------
(* Time. *)

Older(age) == IF age < RefreshTokenTTL THEN age + 1 ELSE age

\* A call outlives the token it carries, or the one it is waiting for.
Overtaken ==
    \/ jar' = NoPair
    \/ \E t \in Tabs :
           \/ refresh[t] = "sent" /\ pair'[t] = NoPair
           \/ refresh[t] = "granted" /\ pair'[t] >= AccessTokenTTL
    \/ \E r \in Requests :
           \/ request[r] = "resent" /\ token'[r] >= AccessTokenTTL
           \/ request[r] = "resume" /\ jar' >= AccessTokenTTL

Tick ==
    /\ jar' = Older(jar)
    /\ token' = [r \in Requests |-> Older(token[r])]
    /\ pair' = [t \in Tabs |-> Older(pair[t])]
    /\ issued' = Older(issued)
    /\ client' = Older(client)
    /\ inactiveFor' = IF user = "inactive" /\ inactiveFor < AccessTokenTTL
                      THEN inactiveFor + 1 ELSE inactiveFor
    /\ cause' = (cause \/ Overtaken)
    /\ UNCHANGED <<user, page, request, refresh, form, accepted, signedOut, racing>>

-----------------------------------------------------------------------------

\* What goes on without the user.
Handled(r) == Accept(r) \/ Refuse(r) \/ AwaitRefresh(r) \/ ThrownOut(r) \/ Resend(r)
Refreshed(t) ==
    \/ RefreshGranted(t) \/ RefreshMissing(t) \/ RefreshCleared(t)
    \/ RefreshSucceeds(t) \/ RefreshFails(t)

Next ==
    \/ \E r \in Requests : Send(r) \/ Handled(r) \/ RequestFails(r)
    \/ \E t \in Tabs : Refreshed(t) \/ RefreshLost(t) \/ OpenApp(t)
    \/ \E t \in Tabs, what \in {"login", "register", "logout"} : Submit(t, what)
    \/ \E t \in Tabs :
           \/ Registered(t) \/ LoggedIn(t) \/ SubmitFails(t) \/ SessionStarts(t)
           \/ SignOut(t) \/ SignOutLost(t)
    \/ Deactivate \/ Reactivate
    \/ ClientLogsIn \/ ClientGoesOn \/ \E kind \in {"access", "refresh"} : ClientCalls(kind)
    \/ Tick

Spec == Init /\ [][Next]_vars

\* link-admin answers, and a page that is open runs its callbacks.
FairSpec ==
    /\ Spec
    /\ \A r \in Requests : WF_vars(Handled(r))
    /\ \A t \in Tabs : WF_vars(Refreshed(t))

-----------------------------------------------------------------------------
(* Properties. *)

\* After a logout was answered the browser holds no pair until the next
\* login. Nothing but a refresh that was under way during that logout with
\* a pair of its own can bring one back: not a request that was under way,
\* not a tab that starts a refresh later, not a logout's late answer
\* (lib/api.ts, Refresh and Logout of auth_handler.go).
SignedOutStaysOut == signedOut => jar = NoPair

\* Requests that fail together, late 401s and answers in any order never cost
\* the user a session: as long as the user is active, the database answers,
\* no call is lost or outlives its token, and nobody signs out, the pair
\* stays and no page is sent to /login (the interceptor of lib/api.ts
\* against RefreshSession).
SessionKept ==
    [][~cause /\ ~cause' =>
          /\ jar' # NoPair
          /\ \A t \in Tabs : page[t] = "app" => page'[t] = "app"]_vars

\* A call of a deactivated user is accepted for one access token's lifetime
\* at most, whatever tokens were issued, refreshed or on their way, and
\* whichever of them a client presents (RefreshSession, ValidateAccessToken).
DeactivatedIsOut ==
    [][\/ user # "inactive" \/ inactiveFor < AccessTokenTTL
       \/ /\ \A r \in Requests : request[r] # "ok" => request'[r] # "ok"
          /\ ~accepted => ~accepted']_vars

\* A request is answered or given up: no refresh leaves one waiting, its own
\* 401 neither (refreshSession and isAuthEndpoint of lib/api.ts).
RequestsSettle ==
    \A r \in Requests : request[r] \notin Settled ~> request[r] \in Settled

=============================================================================
