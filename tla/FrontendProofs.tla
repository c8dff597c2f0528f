--------------------------- MODULE FrontendProofs --------------------------
(***************************************************************************)
(* The dashboard in the browser and the handlers it calls.                 *)
(*                                                                         *)
(* What holds of a session for any number of tabs and requests and any     *)
(* lifetimes: types, the end that a logout puts to it, and how long the    *)
(* tokens of a deactivated user are accepted.                              *)
(*                                                                         *)
(* What holds of the form for links for any number of forms, saves, links  *)
(* and rows: no link has rows it should not have, no form is lost.         *)
(***************************************************************************)
EXTENDS Session, LinkForm, FiniteSetTheorems, SequenceTheorems, TLAPS

\* While signed out, nothing holds a pair but a refresh that raced the logout.
Out ==
    signedOut =>
        /\ jar = NoPair
        /\ \A t \in Tabs :
               refresh[t] \in {"sent", "granted"} /\ pair[t] # NoPair => t \in racing

\* Every pair of a deactivated user is at least as old as the deactivation.
OlderThanExit ==
    user = "inactive" =>
        /\ jar >= inactiveFor /\ issued >= inactiveFor /\ client >= inactiveFor
        /\ \A r \in Requests : token[r] >= inactiveFor
        /\ \A t \in Tabs : pair[t] >= inactiveFor

\* The inductive invariant.
SInv == TypeOK /\ Out /\ OlderThanExit

LEMMA Ages ==
    /\ NoPair \in Age /\ 0 \in Age /\ 0 \in 0..AccessTokenTTL
    /\ \A age \in Age : Older(age) \in Age
    /\ \A age \in Age : age = NoPair => Older(age) = NoPair
    /\ \A age \in Age : \A n \in 0..AccessTokenTTL :
           age >= n => /\ Older(age) >= n
                       /\ n < AccessTokenTTL => Older(age) >= n + 1
    /\ \A n \in 0..AccessTokenTTL : NoPair >= n
<1> USE SessionAssumption DEF Age, NoPair, Older
<1>1. NoPair \in Age /\ 0 \in Age /\ 0 \in 0..AccessTokenTTL /\ \A n \in 0..AccessTokenTTL : NoPair >= n
  OBVIOUS
<1>2. \A age \in Age : Older(age) \in Age /\ (age = NoPair => Older(age) = NoPair)
  OBVIOUS
<1>3. ASSUME NEW age \in Age, NEW n \in 0..AccessTokenTTL, age >= n
      PROVE  Older(age) >= n /\ (n < AccessTokenTTL => Older(age) >= n + 1)
  <2>1. CASE age < RefreshTokenTTL
    BY <1>3, <2>1
  <2>2. CASE age = RefreshTokenTTL
    BY <1>3, <2>2
  <2> QED BY <2>1, <2>2
<1> QED BY <1>1, <1>2, <1>3

LEMMA InitSInv == Init => SInv
<1> SUFFICES ASSUME Init PROVE SInv
  OBVIOUS
<1> USE SessionAssumption, Ages DEF Init
<1>1. TypeOK
  BY DEF TypeOK, Settled, Retried
<1>2. Out
  BY DEF Out
<1>3. OlderThanExit
  BY DEF OlderThanExit
<1> QED BY <1>1, <1>2, <1>3 DEF SInv

\* The actions of link-admin, the operator and the API client.
ServerStep ==
    \/ \E t \in Tabs : RefreshGranted(t) \/ RefreshMissing(t) \/ RefreshCleared(t)
    \/ \E t \in Tabs : Registered(t) \/ LoggedIn(t)
    \/ Deactivate \/ Reactivate
    \/ ClientLogsIn \/ ClientGoesOn \/ \E which \in {"access", "refresh"} : ClientCalls(which)

\* The actions of a request.
RequestStep == \E r \in Requests : Send(r) \/ Handled(r) \/ RequestFails(r)

\* The actions of a page and its forms.
PageStep ==
    \E t \in Tabs :
        \/ RefreshSucceeds(t) \/ RefreshFails(t) \/ RefreshLost(t) \/ OpenApp(t)
        \/ \E what \in {"login", "register", "logout"} : Submit(t, what)
        \/ SubmitFails(t) \/ SessionStarts(t) \/ SignOut(t) \/ SignOutLost(t)

LEMMA Steps == Next => ServerStep \/ RequestStep \/ PageStep \/ Tick
BY DEF Next, ServerStep, RequestStep, PageStep, Refreshed

-----------------------------------------------------------------------------

\* Reloading a page only takes away.
LEMMA GoneKeeps ==
    ASSUME SInv, NEW t \in Tabs, Gone(t),
           page' \in [Tabs -> {"app", "login"}], cause' \in BOOLEAN,
           UNCHANGED <<userVars, clientVars, signedOut>>,
           jar' \in {jar, NoPair}
    PROVE  SInv'
<1> USE SessionAssumption, Ages DEF SInv, userVars, clientVars
<1>1. /\ request' = [r \in Requests |-> IF TabOf[r] = t THEN "idle" ELSE request[r]]
      /\ token' = [r \in Requests |-> IF TabOf[r] = t THEN NoPair ELSE token[r]]
      /\ refresh' = [refresh EXCEPT ![t] = "none"]
      /\ pair' = [pair EXCEPT ![t] = NoPair]
      /\ racing' = racing \ {t}
      /\ form' = [form EXCEPT ![t] = "none"]
      /\ issued' \in {issued, NoPair}
  BY DEF Gone
<1>2. TypeOK'
  BY <1>1 DEF TypeOK, Settled, Retried
<1>3. Out'
  BY <1>1 DEF Out, TypeOK
<1>4. OlderThanExit'
  BY <1>1 DEF OlderThanExit, TypeOK
<1> QED BY <1>2, <1>3, <1>4

LEMMA ServerKeeps == ASSUME SInv, ServerStep PROVE SInv'
<1> USE SessionAssumption, Ages
    DEF SInv, userVars, requestVars, refreshVars, formVars, clientVars, history
<1>1. ASSUME NEW t \in Tabs, RefreshGranted(t) PROVE SInv'
  <2>1. TypeOK'
    BY <1>1 DEF RefreshGranted, UserFound, TypeOK, Settled, Retried
  <2>2. Out'
    BY <1>1 DEF RefreshGranted, UserFound, TypeOK, Out
  <2>3. OlderThanExit'
    BY <1>1 DEF RefreshGranted, UserFound, TypeOK, OlderThanExit
  <2> QED BY <2>1, <2>2, <2>3
<1>2. ASSUME NEW t \in Tabs, RefreshMissing(t) PROVE SInv'
  <2>1. TypeOK'
    BY <1>2 DEF RefreshMissing, TypeOK, Settled, Retried
  <2>2. Out'
    BY <1>2 DEF RefreshMissing, TypeOK, Out
  <2>3. OlderThanExit'
    BY <1>2 DEF RefreshMissing, TypeOK, OlderThanExit
  <2> QED BY <2>1, <2>2, <2>3
<1>3. ASSUME NEW t \in Tabs, RefreshCleared(t) PROVE SInv'
  <2>1. TypeOK'
    BY <1>3 DEF RefreshCleared, TypeOK, Settled, Retried
  <2>2. Out'
    BY <1>3 DEF RefreshCleared, TypeOK, Out
  <2>3. OlderThanExit'
    BY <1>3 DEF RefreshCleared, TypeOK, OlderThanExit
  <2> QED BY <2>1, <2>2, <2>3
<1>4. ASSUME NEW t \in Tabs, Registered(t) \/ LoggedIn(t) PROVE SInv'
  <2>1. /\ form' = [form EXCEPT ![t] = "granted"] /\ issued' = 0
        /\ user' = "active"
        /\ UNCHANGED <<inactiveFor, jar, page, requestVars, refreshVars, clientVars, history>>
    BY <1>4 DEF Registered, LoggedIn, UserFound, Granted
  <2>2. TypeOK'
    BY <2>1 DEF TypeOK, Settled, Retried
  <2>3. Out'
    BY <2>1 DEF Out
  <2>4. OlderThanExit'
    BY <2>1 DEF OlderThanExit
  <2> QED BY <2>2, <2>3, <2>4
<1>5. ASSUME Deactivate \/ Reactivate PROVE SInv'
  <2>1. TypeOK'
    BY <1>5 DEF Deactivate, Reactivate, TypeOK
  <2>2. Out'
    BY <1>5 DEF Deactivate, Reactivate, Out
  <2>3. OlderThanExit'
    BY <1>5 DEF Deactivate, Reactivate, OlderThanExit, TypeOK, Age
  <2> QED BY <2>1, <2>2, <2>3
<1>6. ASSUME ClientLogsIn \/ ClientGoesOn PROVE SInv'
  <2>1. TypeOK'
    BY <1>6 DEF ClientLogsIn, UserFound, ClientGoesOn, TypeOK
  <2>2. Out'
    BY <1>6 DEF ClientLogsIn, UserFound, ClientGoesOn, Out
  <2>3. OlderThanExit'
    BY <1>6 DEF ClientLogsIn, UserFound, ClientGoesOn, OlderThanExit
  <2> QED BY <2>1, <2>2, <2>3
<1>7. ASSUME NEW which \in {"access", "refresh"}, ClientCalls(which) PROVE SInv'
  <2>1. TypeOK'
    BY <1>7 DEF ClientCalls, TypeOK
  <2>2. Out'
    BY <1>7 DEF ClientCalls, Out
  <2>3. OlderThanExit'
    BY <1>7 DEF ClientCalls, OlderThanExit, TypeOK
  <2> QED BY <2>1, <2>2, <2>3
<1> QED BY <1>1, <1>2, <1>3, <1>4, <1>5, <1>6, <1>7 DEF ServerStep

LEMMA RequestKeeps == ASSUME SInv, RequestStep PROVE SInv'
<1> USE SessionAssumption, Ages
    DEF SInv, userVars, requestVars, refreshVars, formVars, clientVars, history
<1> PICK r \in Requests : Send(r) \/ Handled(r) \/ RequestFails(r)
  BY DEF RequestStep
<1>1. ASSUME Send(r) \/ Resend(r) PROVE SInv'
  <2>1. TypeOK'
    BY <1>1 DEF Send, Resend, TypeOK, Settled, Retried
  <2>2. Out'
    BY <1>1 DEF Send, Resend, Out
  <2>3. OlderThanExit'
    BY <1>1 DEF Send, Resend, OlderThanExit, TypeOK
  <2> QED BY <2>1, <2>2, <2>3
<1>2. ASSUME Accept(r) \/ Refuse(r) \/ RequestFails(r) PROVE SInv'
  <2>1. PICK s \in {"ok", "refused", "refusedAgain", "idle"} :
            /\ request' = [request EXCEPT ![r] = s]
            /\ token' = [token EXCEPT ![r] = NoPair]
            /\ UNCHANGED <<userVars, jar, page, refreshVars, formVars, clientVars, history>>
    BY <1>2 DEF Accept, Refuse, RequestFails, TypeOK
  <2>2. TypeOK'
    BY <2>1 DEF TypeOK, Settled, Retried
  <2>3. Out'
    BY <2>1 DEF Out
  <2>4. OlderThanExit'
    BY <2>1 DEF OlderThanExit, TypeOK
  <2> QED BY <2>2, <2>3, <2>4
<1>3. ASSUME AwaitRefresh(r) PROVE SInv'
  <2>1. TabOf[r] \in Tabs
    OBVIOUS
  <2>2. TypeOK'
    BY <1>3, <2>1 DEF AwaitRefresh, TypeOK, Settled, Retried
  <2>3. Out'
    BY <1>3, <2>1 DEF AwaitRefresh, Out, TypeOK
  <2>4. OlderThanExit'
    BY <1>3, <2>1 DEF AwaitRefresh, OlderThanExit, TypeOK
  <2> QED BY <2>2, <2>3, <2>4
<1>4. ASSUME ThrownOut(r) PROVE SInv'
  <2>1. TabOf[r] \in Tabs
    OBVIOUS
  <2>2. page' \in [Tabs -> {"app", "login"}] /\ cause' \in BOOLEAN
    BY <1>4, <2>1 DEF ThrownOut, GivesUp, TypeOK
  <2> QED BY <1>4, <2>1, <2>2, GoneKeeps DEF ThrownOut, GivesUp
<1> QED BY <1>1, <1>2, <1>3, <1>4 DEF Handled

LEMMA PageKeeps == ASSUME SInv, PageStep PROVE SInv'
<1> USE SessionAssumption, Ages
    DEF SInv, userVars, requestVars, refreshVars, formVars, clientVars, history
<1>1. PICK t \in Tabs :
        \/ RefreshSucceeds(t) \/ RefreshFails(t) \/ RefreshLost(t) \/ OpenApp(t)
        \/ \E what \in {"login", "register", "logout"} : Submit(t, what)
        \/ SubmitFails(t) \/ SessionStarts(t) \/ SignOut(t) \/ SignOutLost(t)
  BY DEF PageStep
<1>2. ASSUME RefreshSucceeds(t) PROVE SInv'
  <2>1. TypeOK'
    BY <1>2 DEF RefreshSucceeds, TypeOK, Settled, Retried
  <2>2. Out'
    BY <1>2 DEF RefreshSucceeds, TypeOK, Out
  <2>3. OlderThanExit'
    BY <1>2 DEF RefreshSucceeds, TypeOK, OlderThanExit
  <2> QED BY <2>1, <2>2, <2>3
<1>3. ASSUME RefreshFails(t) \/ RefreshLost(t) \/ OpenApp(t) PROVE SInv'
  <2>1. page' \in [Tabs -> {"app", "login"}] /\ cause' \in BOOLEAN
    BY <1>3 DEF RefreshFails, RefreshLost, OpenApp, GivesUp, TypeOK
  <2>2. Gone(t) /\ UNCHANGED <<userVars, clientVars, signedOut>> /\ jar' \in {jar, NoPair}
    BY <1>3 DEF RefreshFails, RefreshLost, OpenApp, GivesUp
  <2> QED BY <2>1, <2>2, GoneKeeps
<1>4. ASSUME NEW what \in {"login", "register", "logout"}, Submit(t, what) PROVE SInv'
  <2>1. TypeOK'
    BY <1>4 DEF Submit, TypeOK
  <2>2. Out' /\ OlderThanExit'
    BY <1>4 DEF Submit, Out, OlderThanExit
  <2> QED BY <2>1, <2>2
<1>5. ASSUME SubmitFails(t) \/ SessionStarts(t) \/ SignOut(t) \/ SignOutLost(t) PROVE SInv'
  <2>1. /\ form' = [form EXCEPT ![t] = "none"] /\ issued' = NoPair
        /\ UNCHANGED <<userVars, requestVars, refreshVars, clientVars>>
        /\ page' \in [Tabs -> {"app", "login"}]
    BY <1>5 DEF SubmitFails, SessionStarts, SignOut, SignOutLost, Ends, TypeOK
  <2>2. /\ jar' \in {jar, issued, NoPair}
        /\ signedOut' \in BOOLEAN /\ racing' \subseteq Tabs /\ cause' \in BOOLEAN
    BY <1>5 DEF SubmitFails, SessionStarts, SignOut, SignOutLost, Overlapping, Leftover, TypeOK
  <2>3. TypeOK'
    BY <2>1, <2>2 DEF TypeOK
  <2>4. Out'
    <3>1. CASE SubmitFails(t) \/ SignOutLost(t)
      BY <3>1, <2>1 DEF SubmitFails, SignOutLost, Out
    <3>2. CASE SessionStarts(t)
      BY <3>2 DEF SessionStarts, Out
    <3>3. CASE SignOut(t)
      BY <3>3, <2>1 DEF SignOut, Out, Overlapping
    <3> QED BY <1>5, <3>1, <3>2, <3>3
  <2>5. OlderThanExit'
    BY <2>1, <2>2 DEF OlderThanExit, TypeOK
  <2> QED BY <2>3, <2>4, <2>5
<1> QED BY <1>1, <1>2, <1>3, <1>4, <1>5

LEMMA TickKeeps == ASSUME SInv, Tick PROVE SInv'
<1> USE SessionAssumption, Ages DEF SInv, Tick
<1>1. TypeOK'
  BY DEF TypeOK, Overtaken
<1>2. Out'
  BY DEF Out, TypeOK
<1>3. OlderThanExit'
  BY DEF OlderThanExit, TypeOK
<1> QED BY <1>1, <1>2, <1>3

LEMMA NextSInv == SInv /\ [Next]_vars => SInv'
<1> SUFFICES ASSUME SInv, [Next]_vars PROVE SInv'
  OBVIOUS
<1>1. CASE UNCHANGED vars
  BY <1>1 DEF SInv, TypeOK, Out, OlderThanExit, vars, userVars, requestVars, refreshVars,
              formVars, clientVars, history
<1>2. CASE Next
  BY <1>2, Steps, ServerKeeps, RequestKeeps, PageKeeps, TickKeeps
<1> QED BY <1>1, <1>2

LEMMA Inductive == Spec => []SInv
BY InitSInv, NextSInv, PTL DEF Spec

-----------------------------------------------------------------------------

\* Every variable keeps its type, and who waits has something to wait for
\* (RefreshSession, lib/api.ts), for any tabs, requests and lifetimes.
THEOREM TypeCorrect == Spec => []TypeOK
BY Inductive, PTL DEF SInv

\* Only a refresh that was under way during the logout brings a pair back
\* (Refresh and Logout of auth_handler.go, lib/api.ts).
THEOREM StaysOut == Spec => []SignedOutStaysOut
<1>1. SInv => SignedOutStaysOut
  BY DEF SInv, Out, SignedOutStaysOut
<1> QED BY <1>1, Inductive, PTL

\* A step that accepts a call finds an access token younger than its
\* lifetime.
LEMMA AcceptedOnly ==
    ASSUME SInv, [Next]_vars
    PROVE  /\ \A r \in Requests :
                  request[r] # "ok" /\ request'[r] = "ok" => token[r] < AccessTokenTTL
           /\ ~accepted /\ accepted' => client < AccessTokenTTL
<1> USE SessionAssumption
    DEF SInv, TypeOK, userVars, requestVars, refreshVars, formVars, clientVars, history
<1>1. CASE UNCHANGED vars
  BY <1>1 DEF vars
<1>2. CASE ServerStep
  <2>1. request' = request
    BY <1>2 DEF ServerStep, RefreshGranted, UserFound, RefreshMissing, RefreshCleared, Registered, LoggedIn,
                Granted, Deactivate, Reactivate, ClientLogsIn, ClientGoesOn, ClientCalls
  <2>2. ~accepted /\ accepted' => client < AccessTokenTTL
    BY <1>2 DEF ServerStep, RefreshGranted, UserFound, RefreshMissing, RefreshCleared, Registered, LoggedIn,
                Granted, Deactivate, Reactivate, ClientLogsIn, ClientGoesOn, ClientCalls,
                Authenticates
  <2> QED BY <2>1, <2>2
<1>3. CASE RequestStep
  <2> PICK r \in Requests : Send(r) \/ Handled(r) \/ RequestFails(r)
    BY <1>3 DEF RequestStep
  <2>1. CASE ThrownOut(r)
    BY <2>1 DEF ThrownOut, GivesUp, Gone
  <2>2. CASE Accept(r)
    BY <2>2 DEF Accept, Authenticates
  <2>3. CASE Send(r) \/ Resend(r) \/ Refuse(r) \/ RequestFails(r) \/ AwaitRefresh(r)
    BY <2>3 DEF Send, Resend, Refuse, RequestFails, AwaitRefresh
  <2> QED BY <2>1, <2>2, <2>3 DEF Handled
<1>4. CASE PageStep
  <2> PICK t \in Tabs :
        \/ RefreshSucceeds(t) \/ RefreshFails(t) \/ RefreshLost(t) \/ OpenApp(t)
        \/ \E what \in {"login", "register", "logout"} : Submit(t, what)
        \/ SubmitFails(t) \/ SessionStarts(t) \/ SignOut(t) \/ SignOutLost(t)
    BY <1>4 DEF PageStep
  <2>1. CASE RefreshSucceeds(t)
    BY <2>1 DEF RefreshSucceeds
  <2>2. CASE RefreshFails(t) \/ RefreshLost(t) \/ OpenApp(t)
    BY <2>2 DEF RefreshFails, RefreshLost, OpenApp, GivesUp, Gone
  <2>3. CASE \E what \in {"login", "register", "logout"} : Submit(t, what)
    BY <2>3 DEF Submit
  <2>4. CASE SubmitFails(t) \/ SessionStarts(t) \/ SignOut(t) \/ SignOutLost(t)
    BY <2>4 DEF SubmitFails, SessionStarts, SignOut, SignOutLost, Ends
  <2> QED BY <2>1, <2>2, <2>3, <2>4
<1>5. CASE Tick
  BY <1>5 DEF Tick
<1> QED BY <1>1, <1>2, <1>3, <1>4, <1>5, Steps

\* One access token's lifetime after the deactivation nothing is accepted
\* (RefreshSession, ValidateAccessToken).
THEOREM DeactivationEnds == Spec => DeactivatedIsOut
<1>1. SInv /\ [Next]_vars =>
          \/ user # "inactive" \/ inactiveFor < AccessTokenTTL
          \/ /\ \A r \in Requests : request[r] # "ok" => request'[r] # "ok"
             /\ ~accepted => ~accepted'
  <2> SUFFICES ASSUME SInv, [Next]_vars, user = "inactive", ~(inactiveFor < AccessTokenTTL)
               PROVE  /\ \A r \in Requests : request[r] # "ok" => request'[r] # "ok"
                      /\ ~accepted => ~accepted'
    OBVIOUS
  <2>1. /\ client >= AccessTokenTTL
        /\ \A r \in Requests : token[r] >= AccessTokenTTL
    BY SessionAssumption DEF SInv, TypeOK, OlderThanExit, Age
  <2>2. client \in Nat /\ token \in [Requests -> Nat]
    BY SessionAssumption DEF SInv, TypeOK, Age
  <2> QED BY <2>1, <2>2, AcceptedOnly, SessionAssumption
<1> QED BY <1>1, Inductive, PTL DEF Spec, DeactivatedIsOut

-----------------------------------------------------------------------------

\* While nothing has ended the session, every call can still do its part:
\* a refresh carries a pair, and who is sent again carries a live token.
Kept ==
    ~cause =>
        /\ user = "active" /\ jar # NoPair
        /\ \A t \in Tabs :
               /\ refresh[t] \in {"none", "sent", "granted"}
               /\ refresh[t] = "sent" => pair[t] # NoPair
               /\ refresh[t] = "granted" => pair[t] < AccessTokenTTL
        /\ \A r \in Requests :
               /\ request[r] # "refusedAgain"
               /\ request[r] = "resume" => jar < AccessTokenTTL
               /\ request[r] = "resent" => token[r] < AccessTokenTTL

LEMMA InitKept == Init => Kept
BY DEF Init, Kept

LEMMA ServerKept == ASSUME SInv, Kept, ServerStep PROVE Kept'
<1> USE SessionAssumption
    DEF SInv, Kept, userVars, requestVars, refreshVars, formVars, clientVars, history
<1>1. ASSUME NEW t \in Tabs, RefreshGranted(t) PROVE Kept'
  BY <1>1 DEF RefreshGranted, UserFound, TypeOK
<1>2. ASSUME NEW t \in Tabs, RefreshMissing(t) PROVE Kept'
  BY <1>2 DEF RefreshMissing, TypeOK
<1>3. ASSUME NEW t \in Tabs, RefreshCleared(t) PROVE Kept'
  BY <1>3 DEF RefreshCleared
<1>4. ASSUME NEW t \in Tabs, Registered(t) \/ LoggedIn(t) PROVE Kept'
  BY <1>4 DEF Registered, LoggedIn, UserFound, Granted
<1>5. ASSUME Deactivate \/ Reactivate PROVE Kept'
  BY <1>5 DEF Deactivate, Reactivate
<1>6. ASSUME ClientLogsIn \/ ClientGoesOn PROVE Kept'
  BY <1>6 DEF ClientLogsIn, UserFound, ClientGoesOn
<1>7. ASSUME NEW which \in {"access", "refresh"}, ClientCalls(which) PROVE Kept'
  BY <1>7 DEF ClientCalls
<1> QED BY <1>1, <1>2, <1>3, <1>4, <1>5, <1>6, <1>7 DEF ServerStep

\* A page is loaded anew only where cause is set, or no request is lost.
LEMMA GoneKept ==
    ASSUME SInv, Kept, NEW t \in Tabs, Gone(t),
           UNCHANGED <<user, jar, cause>>
    PROVE  Kept'
<1> USE DEF SInv, Kept
<1>1. /\ request' = [r \in Requests |-> IF TabOf[r] = t THEN "idle" ELSE request[r]]
      /\ token' = [r \in Requests |-> IF TabOf[r] = t THEN NoPair ELSE token[r]]
      /\ refresh' = [refresh EXCEPT ![t] = "none"]
      /\ pair' = [pair EXCEPT ![t] = NoPair]
  BY DEF Gone
<1> QED BY <1>1 DEF TypeOK

LEMMA RequestKept == ASSUME SInv, Kept, RequestStep PROVE Kept'
<1> USE SessionAssumption
    DEF SInv, Kept, userVars, requestVars, refreshVars, formVars, clientVars, history
<1> PICK r \in Requests : Send(r) \/ Handled(r) \/ RequestFails(r)
  BY DEF RequestStep
<1>1. ASSUME Send(r) \/ Resend(r) PROVE Kept'
  BY <1>1 DEF Send, Resend, TypeOK
<1>2. ASSUME Accept(r) \/ RequestFails(r) PROVE Kept'
  BY <1>2 DEF Accept, RequestFails, TypeOK
<1>3. ASSUME Refuse(r) PROVE Kept'
  <2>1. ~cause => request[r] = "sent"
    BY <1>3 DEF Refuse, Authenticates
  <2> QED BY <1>3, <2>1 DEF Refuse, TypeOK
<1>4. ASSUME AwaitRefresh(r) PROVE Kept'
  <2>1. TabOf[r] \in Tabs
    OBVIOUS
  <2> QED BY <1>4, <2>1 DEF AwaitRefresh, TypeOK
<1>5. ASSUME ThrownOut(r) PROVE Kept'
  BY <1>5 DEF ThrownOut
<1> QED BY <1>1, <1>2, <1>3, <1>4, <1>5 DEF Handled

LEMMA PageKept == ASSUME SInv, Kept, PageStep PROVE Kept'
<1> USE SessionAssumption
    DEF SInv, Kept, userVars, requestVars, refreshVars, formVars, clientVars, history
<1> PICK t \in Tabs :
        \/ RefreshSucceeds(t) \/ RefreshFails(t) \/ RefreshLost(t) \/ OpenApp(t)
        \/ \E what \in {"login", "register", "logout"} : Submit(t, what)
        \/ SubmitFails(t) \/ SessionStarts(t) \/ SignOut(t) \/ SignOutLost(t)
  BY DEF PageStep
<1>1. CASE RefreshSucceeds(t)
  <2>1. ~cause => pair[t] < AccessTokenTTL /\ pair[t] # NoPair
    BY <1>1 DEF RefreshSucceeds, TypeOK, Age, NoPair
  <2> QED BY <1>1, <2>1 DEF RefreshSucceeds, TypeOK
<1>2. CASE RefreshFails(t)
  BY <1>2 DEF RefreshFails
<1>3. CASE RefreshLost(t)
  BY <1>3 DEF RefreshLost
<1>4. CASE OpenApp(t)
  BY <1>4, GoneKept DEF OpenApp
<1>5. CASE \E what \in {"login", "register", "logout"} : Submit(t, what)
  BY <1>5 DEF Submit
<1>6. CASE SubmitFails(t) \/ SignOut(t) \/ SignOutLost(t)
  BY <1>6 DEF SubmitFails, SignOut, SignOutLost, Ends
<1>7. CASE SessionStarts(t)
  BY <1>7 DEF SessionStarts, Ends, Leftover, Settled
<1> QED BY <1>1, <1>2, <1>3, <1>4, <1>5, <1>6, <1>7

LEMMA TickKept == ASSUME SInv, Kept, Tick PROVE Kept'
<1> SUFFICES ASSUME ~cause' PROVE Kept'
  BY DEF Kept
<1>1. ~cause /\ ~Overtaken
  BY DEF Tick
<1>2. UNCHANGED <<user, refresh, request>>
  BY DEF Tick
<1>3. jar' \in Age /\ token' \in [Requests -> Age] /\ pair' \in [Tabs -> Age]
  BY TickKeeps DEF SInv, TypeOK
<1> QED BY <1>1, <1>2, <1>3, SessionAssumption DEF Kept, Overtaken, Age

LEMMA NextKept == SInv /\ Kept /\ [Next]_vars => Kept'
<1> SUFFICES ASSUME SInv, Kept, [Next]_vars PROVE Kept'
  OBVIOUS
<1>1. CASE UNCHANGED vars
  BY <1>1 DEF Kept, vars, userVars, requestVars, refreshVars, history
<1>2. CASE Next
  BY <1>2, Steps, ServerKept, RequestKept, PageKept, TickKept
<1> QED BY <1>1, <1>2

\* A page leaves the app only with a 401 nobody can repair, or a logout.
LEMMA PageStays ==
    ASSUME SInv, Kept, [Next]_vars, ~cause, ~cause', NEW t \in Tabs, page[t] = "app"
    PROVE  page'[t] = "app"
<1> USE DEF SInv, TypeOK, userVars, requestVars, refreshVars, formVars, clientVars, history
<1>1. CASE UNCHANGED vars
  BY <1>1 DEF vars
<1>2. CASE ServerStep
  BY <1>2 DEF ServerStep, RefreshGranted, UserFound, RefreshMissing, RefreshCleared, Registered, LoggedIn,
              Granted, Deactivate, Reactivate, ClientLogsIn, ClientGoesOn, ClientCalls
<1>3. CASE RequestStep
  <2> PICK r \in Requests : Send(r) \/ Handled(r) \/ RequestFails(r)
    BY <1>3 DEF RequestStep
  <2>1. ~ThrownOut(r)
    BY DEF ThrownOut, Kept
  <2> QED BY <2>1 DEF Handled, Send, Resend, Accept, Refuse, RequestFails, AwaitRefresh
<1>4. CASE PageStep
  <2> PICK u \in Tabs :
        \/ RefreshSucceeds(u) \/ RefreshFails(u) \/ RefreshLost(u) \/ OpenApp(u)
        \/ \E what \in {"login", "register", "logout"} : Submit(u, what)
        \/ SubmitFails(u) \/ SessionStarts(u) \/ SignOut(u) \/ SignOutLost(u)
    BY <1>4 DEF PageStep
  <2>1. ~RefreshFails(u) /\ ~RefreshLost(u) /\ ~SignOut(u) /\ ~SignOutLost(u)
    BY DEF RefreshFails, RefreshLost, SignOut, SignOutLost, Kept
  <2>2. CASE RefreshSucceeds(u) \/ \E what \in {"login", "register", "logout"} : Submit(u, what)
    BY <2>2 DEF RefreshSucceeds, Submit
  <2>3. CASE OpenApp(u)
    BY <2>3 DEF OpenApp
  <2>4. CASE SubmitFails(u) \/ SessionStarts(u)
    BY <2>4 DEF SubmitFails, SessionStarts, Ends
  <2> QED BY <2>1, <2>2, <2>3, <2>4
<1>5. CASE Tick
  BY <1>5 DEF Tick
<1> QED BY <1>1, <1>2, <1>3, <1>4, <1>5, Steps

\* Requests that fail together and answers in any order do not cost the user
\* a session (the interceptor of lib/api.ts against RefreshSession).
THEOREM NothingLost == Spec => SessionKept
<1>1. SInv /\ Kept /\ [Next]_vars =>
          (~cause /\ ~cause' =>
              /\ jar' # NoPair
              /\ \A t \in Tabs : page[t] = "app" => page'[t] = "app")
  <2> SUFFICES ASSUME SInv, Kept, [Next]_vars, ~cause, ~cause'
               PROVE  /\ jar' # NoPair
                      /\ \A t \in Tabs : page[t] = "app" => page'[t] = "app"
    OBVIOUS
  <2>1. jar' # NoPair'
    BY NextKept DEF Kept
  <2>2. NoPair' = NoPair
    BY DEF NoPair
  <2> QED BY <2>1, <2>2, PageStays
<1>2. Spec => []Kept
  BY InitKept, NextKept, Inductive, PTL DEF Spec
<1> QED BY <1>1, <1>2, Inductive, PTL DEF Spec, SessionKept

-----------------------------------------------------------------------------
(* The form for links (module LinkForm).                                      *)

Stages == {"idle", "create", "add", "update", "write"}
Started(s) == save[s].stage # "idle"

\* FormTypeOK in parts: the page, the saves and the links.
PageTyped ==
    /\ opened \in 0..MaxForms /\ current \in {None, opened}
    /\ kind \in [Forms -> {"none", "create", "edit"}]
    /\ status \in [Forms -> {"none", "open", "saved", "cancelled", "abandoned", "closed"}]
    /\ rows \in 0..MaxRows /\ target \in Links \cup {None}
    /\ \A f \in Forms : status[f] = "open" <=> f = current

SaveRecords ==
    [form : 0..opened, stage : Stages, link : Links \cup {None},
     rows : 0..MaxRows, next : 1..MaxRows + 1]

StoreTyped ==
    /\ link \in [Links -> {"free", "there", "deleted"}]
    /\ posted \in [Links -> Seq(1..MaxRows)]
    /\ shown \subseteq Links /\ done \subseteq Links
    /\ owner \in [Links -> 0..opened] /\ wanted \in [Links -> 0..MaxRows]

\* A save under way belongs to a form that did not end by it, and a link it has
\* created is its own: as many rows as it has inserted, and not done.
SaveKept(s) ==
    /\ ~Started(s) => save[s] = Idle
    /\ Started(s) =>
           /\ save[s].form \in Forms
           /\ status[save[s].form] \in {"open", "abandoned", "closed"}
           /\ save[s].stage \in {"create", "add"} <=> kind[save[s].form] = "create"
    /\ save[s].stage = "create" => save[s].next = 1
    /\ save[s].stage = "add" =>
           /\ save[s].link \in Links \ done /\ link[save[s].link] # "free"
           /\ owner[save[s].link] = save[s].form /\ wanted[save[s].link] = save[s].rows
           /\ save[s].next <= save[s].rows + 1
           /\ Len(posted[save[s].link]) = save[s].next - 1

SavesKept ==
    /\ save \in [Saves -> SaveRecords]
    /\ \A s \in Saves : SaveKept(s)
    /\ \A s, t \in Saves : s # t /\ Started(s) => save[s].form # save[t].form

\* The rows of a link are the first ones. One that is done is the only such link
\* of its form, which has no save under way and takes no other.
LinkKept(l) ==
    /\ posted[l] = [i \in 1..Len(posted[l]) |-> i]
    /\ Len(posted[l]) <= wanted[l]
    /\ link[l] = "free" => posted[l] = <<>> /\ l \notin done
    /\ l \in done =>
           /\ Len(posted[l]) = wanted[l]
           /\ owner[l] \in Forms /\ status[owner[l]] # "open"
           /\ \A s \in Saves : Started(s) => save[s].form # owner[l]
           /\ \A k \in done : owner[k] = owner[l] => k = l

LinksKept == \A l \in Links : LinkKept(l)

\* What became of each form.
FormsKept ==
    /\ \A f \in Forms : f > opened => status[f] = "none" /\ kind[f] = "none"
    /\ \A f \in Forms :
           status[f] = "saved" /\ kind[f] = "create" => \E l \in done : owner[l] = f
    /\ FormKept

FormInv == PageTyped /\ StoreTyped /\ SavesKept /\ LinksKept /\ FormsKept

-----------------------------------------------------------------------------
LEMMA FormTyped == FormInv => FormTypeOK
<1> SUFFICES ASSUME FormInv PROVE FormTypeOK
  OBVIOUS
<1> USE DEF FormInv, None
<1>1. \A s \in Saves : save[s] # Idle => Started(s)
  BY DEF SavesKept, SaveKept
<1>2. \A s, t \in Saves : s # t /\ save[s] # Idle => save[s].form # save[t].form
  BY <1>1 DEF SavesKept
<1>3. current \in 0..opened
  BY DEF PageTyped
<1>4. save \in [Saves -> [form : 0..opened, stage : {"idle", "create", "add", "update", "write"},
                          link : Links \cup {None}, rows : 0..MaxRows, next : 1..MaxRows + 1]]
  BY DEF SavesKept, SaveRecords, Stages
<1> QED BY <1>2, <1>3, <1>4 DEF PageTyped, StoreTyped, FormTypeOK

\* Saves under way at the same time have links of their own.
LEMMA OwnLinks ==
  ASSUME SavesKept, NEW s \in Saves, NEW t \in Saves, s # t,
         save[s].stage = "add", save[t].stage = "add"
  PROVE  save[s].link # save[t].link
  BY DEF SavesKept, SaveKept, Started

LEMMA InitFormInv == ASSUME FormInit PROVE FormInv
<1> USE LinkFormAssumption DEF FormInit, None, Idle, Forms, Links
<1>1. PageTyped
  BY DEF PageTyped
<1>2. StoreTyped
  BY EmptySeq DEF StoreTyped
<1>3. SavesKept
  BY DEF SavesKept, SaveRecords, SaveKept, Started, Stages
<1>4. LinksKept
  BY EmptySeq DEF LinksKept, LinkKept
<1>5. FormsKept
  BY DEF FormsKept, FormKept
<1> QED BY <1>1, <1>2, <1>3, <1>4, <1>5 DEF FormInv

-----------------------------------------------------------------------------
\* The page and its list alone.
LEMMA ListLoaded ==
  ASSUME FormInv, UNCHANGED <<pageVars, save, storeVars, done>>,
         shown' \subseteq Links
  PROVE  FormInv'
<1> USE DEF FormInv, pageVars, storeVars
<1>1. PageTyped'
  BY DEF PageTyped
<1>2. StoreTyped'
  BY DEF StoreTyped
<1>3. SavesKept'
  BY DEF SavesKept, SaveRecords, SaveKept, Started
<1>4. LinksKept'
  BY DEF LinksKept, LinkKept, Started
<1>5. FormsKept'
  BY DEF FormsKept, FormKept
<1> QED BY <1>1, <1>2, <1>3, <1>4, <1>5

\* A form opens: its number is new.
LEMMA Opens ==
  ASSUME FormInv, NEW what \in {"create", "edit"}, Open(what),
         target' \in Links \cup {None}
  PROVE  FormInv'
<1> USE LinkFormAssumption DEF FormInv, None, Forms
<1>1. /\ current = 0 /\ opened \in 0..MaxForms /\ opened < MaxForms
      /\ opened' = opened + 1 /\ current' = opened + 1 /\ opened + 1 \in Forms
      /\ kind' = [kind EXCEPT ![opened + 1] = what]
      /\ status' = [status EXCEPT ![opened + 1] = "open"] /\ rows' = 0
      /\ UNCHANGED <<save, link, posted, owner, wanted, shown, done>>
  BY DEF Open, storeVars, PageTyped
<1>2. \A f \in Forms : f <= opened => status'[f] = status[f] /\ kind'[f] = kind[f]
  BY <1>1 DEF PageTyped
<1>3. PageTyped'
  BY <1>1 DEF PageTyped
<1>4. StoreTyped'
  <2>1. owner' \in [Links -> 0..opened']
    BY <1>1 DEF StoreTyped
  <2> QED BY <1>1, <2>1 DEF StoreTyped
<1>5. SavesKept'
  <2>1. ASSUME NEW s \in Saves PROVE save[s].form \in 0..opened
    BY DEF SavesKept, SaveRecords
  <2>2. ASSUME NEW s \in Saves PROVE SaveKept(s)'
    BY <1>1, <1>2, <2>1 DEF SavesKept, SaveKept, Started
  <2>3. save' \in [Saves -> SaveRecords']
    <3>1. ASSUME NEW s \in Saves
          PROVE  save[s] \in [form : 0..opened + 1, stage : Stages, link : Links \cup {None},
                              rows : 0..MaxRows, next : 1..MaxRows + 1]
      BY <1>1 DEF SavesKept, SaveRecords
    <3> QED BY <1>1, <3>1 DEF SavesKept, SaveRecords
  <2> QED BY <1>1, <2>2, <2>3 DEF SavesKept, Started
<1>6. LinksKept'
  <2> SUFFICES ASSUME NEW l \in Links PROVE LinkKept(l)'
    BY <1>1 DEF LinksKept, Links
  <2>1. owner[l] \in 0..opened
    BY DEF StoreTyped
  <2> QED BY <1>1, <1>2, <2>1 DEF LinksKept, LinkKept, Started
<1>7. FormsKept'
  <2>1. \A f \in Forms : status'[f] = IF f = opened + 1 THEN "open" ELSE status[f]
    BY <1>1 DEF PageTyped
  <2>2. FormKept'
    <3> SUFFICES ASSUME NEW f \in Forms, status'[f] = "closed"
                 PROVE  \E g \in 1..f - 1 : status'[g] = "abandoned"
      BY DEF FormKept
    <3>1. PICK g \in 1..f - 1 : status[g] = "abandoned"
      BY <2>1 DEF FormsKept, FormKept
    <3>2. g \in Forms /\ status'[g] = "abandoned"
      BY <1>1, <2>1, <3>1 DEF FormsKept
    <3> QED BY <3>1, <3>2
  <2>3. \A f \in Forms : f > opened' => status'[f] = "none" /\ kind'[f] = "none"
    BY <1>1 DEF FormsKept, PageTyped
  <2>4. \A f \in Forms :
            status'[f] = "saved" /\ kind'[f] = "create" => \E l \in done' : owner'[l] = f
    BY <1>1, <1>2, <2>1 DEF FormsKept, PageTyped
  <2> QED BY <2>2, <2>3, <2>4 DEF FormsKept
<1> QED BY <1>3, <1>4, <1>5, <1>6, <1>7

\* What the user types into an open form.
LEMMA Edits ==
  ASSUME FormInv, rows' \in 0..MaxRows,
         UNCHANGED <<opened, current, kind, status, target, save, storeVars, shown, done>>
  PROVE  FormInv'
<1> USE DEF FormInv, storeVars
<1>1. PageTyped'
  BY DEF PageTyped
<1>2. StoreTyped'
  BY DEF StoreTyped
<1>3. SavesKept'
  BY DEF SavesKept, SaveRecords, SaveKept, Started
<1>4. LinksKept'
  BY DEF LinksKept, LinkKept, Started
<1>5. FormsKept'
  BY DEF FormsKept, FormKept
<1> QED BY <1>1, <1>2, <1>3, <1>4, <1>5

\* A form that is closed on the user's order keeps its saves; it is abandoned if
\* it has any.
LEMMA Cancels == ASSUME FormInv, Cancel PROVE FormInv'
<1> USE LinkFormAssumption DEF FormInv, None, Forms
<1> DEFINE how == IF UnderWay(current) THEN "abandoned" ELSE "cancelled"
<1>1. /\ current # 0 /\ current = opened /\ current \in Forms
      /\ status' = [status EXCEPT ![current] = how] /\ current' = 0 /\ rows' = 0
      /\ target' = 0 /\ how \in {"abandoned", "cancelled"}
      /\ UNCHANGED <<opened, kind, save, link, posted, owner, wanted, shown, done>>
  BY DEF Cancel, CloseWith, storeVars, PageTyped
<1>2. \A s \in Saves : Started(s) /\ save[s].form = current => how = "abandoned"
  BY DEF Started, UnderWay
<1> HIDE DEF how
<1>3. \A f \in Forms : status'[f] = IF f = current THEN how ELSE status[f]
  BY <1>1 DEF PageTyped
<1>4. PageTyped'
  BY <1>1, <1>3 DEF PageTyped
<1>5. StoreTyped'
  BY <1>1 DEF StoreTyped
<1>6. SavesKept'
  <2>1. ASSUME NEW s \in Saves PROVE SaveKept(s)'
    BY <1>1, <1>2, <1>3 DEF SavesKept, SaveKept, Started
  <2> QED BY <1>1, <2>1 DEF SavesKept, SaveRecords, Started
<1>7. LinksKept'
  BY <1>1, <1>3 DEF LinksKept, LinkKept, Started, Links
<1>8. FormsKept'
  <2>1. status[current] = "open"
    BY <1>1 DEF PageTyped
  <2>2. FormKept'
    <3> SUFFICES ASSUME NEW f \in Forms, status'[f] = "closed"
                 PROVE  \E g \in 1..f - 1 : status'[g] = "abandoned"
      BY DEF FormKept
    <3>1. PICK g \in 1..f - 1 : status[g] = "abandoned"
      BY <1>1, <1>3 DEF FormsKept, FormKept
    <3> QED BY <1>1, <1>3, <2>1, <3>1
  <2> QED BY <1>1, <1>3, <2>2 DEF FormsKept
<1> QED BY <1>4, <1>5, <1>6, <1>7, <1>8

LEMMA Deletes == ASSUME FormInv, NEW l \in Links, DeleteLink(l) PROVE FormInv'
<1> USE DEF FormInv
<1>1. /\ link' = [link EXCEPT ![l] = "deleted"]
      /\ UNCHANGED <<opened, current, kind, status, rows, target, save, posted, owner,
                     wanted, shown, done>>
  BY DEF DeleteLink, pageVars
<1>2. \A k \in Links : link'[k] = IF k = l THEN "deleted" ELSE link[k]
  BY <1>1 DEF StoreTyped
<1>3. PageTyped'
  BY <1>1 DEF PageTyped
<1>4. StoreTyped'
  BY <1>1 DEF StoreTyped
<1>5. SavesKept'
  BY <1>1, <1>2 DEF SavesKept, SaveRecords, SaveKept, Started
<1>6. LinksKept'
  BY <1>1, <1>2 DEF LinksKept, LinkKept, Started
<1>7. FormsKept'
  BY <1>1 DEF FormsKept, FormKept
<1> QED BY <1>3, <1>4, <1>5, <1>6, <1>7

-----------------------------------------------------------------------------
\* A save begins: the first under way of the form that is open.
LEMMA Begins == ASSUME FormInv, NEW s \in Saves, HandleSubmit(s) PROVE FormInv'
<1> USE DEF FormInv, None
<1> DEFINE x == save'[s]
<1>1. /\ current # 0 /\ save[s] = Idle /\ ~UnderWay(current)
      /\ UNCHANGED <<opened, current, kind, status, rows, target, link, posted, owner,
                     wanted, shown, done>>
  BY DEF HandleSubmit, pageVars, storeVars
<1>2. /\ x.form = current /\ x.link = target /\ x.rows = rows /\ x.next = 1
      /\ x.stage = IF kind[current] = "create" THEN "create" ELSE "update"
      /\ save' \in [Saves -> SaveRecords]
      /\ \A t \in Saves : t # s => save'[t] = save[t]
  <2> DEFINE stage == IF kind[current] = "create" THEN "create" ELSE "update"
             y == [form |-> current, link |-> target, rows |-> rows, next |-> 1, stage |-> stage]
  <2>1. save' = [save EXCEPT ![s] = y]
    BY DEF HandleSubmit, Begun
  <2>2. y \in SaveRecords
    BY LinkFormAssumption DEF PageTyped, SaveRecords, Stages
  <2>3. /\ y.form = current /\ y.link = target /\ y.rows = rows /\ y.next = 1
        /\ y.stage = stage
    OBVIOUS
  <2> HIDE DEF y
  <2>4. save \in [Saves -> SaveRecords]
    BY DEF SavesKept
  <2>5. x = y /\ \A t \in Saves : t # s => save'[t] = save[t]
    BY <2>1, <2>4
  <2> QED BY <2>1, <2>2, <2>3, <2>4, <2>5
<1> HIDE DEF x
<1>3. ASSUME NEW t \in Saves, Started(t) PROVE save[t].form # current
  BY <1>1, <1>3 DEF UnderWay, Started
<1>4. current \in Forms /\ status[current] = "open"
  BY <1>1 DEF PageTyped, Forms
<1>5. PageTyped'
  BY <1>1 DEF PageTyped
<1>6. StoreTyped'
  BY <1>1 DEF StoreTyped
<1>7. SavesKept'
  <2>1. SaveKept(s)'
    BY <1>1, <1>2, <1>4 DEF SaveKept, Started, x
  <2>2. ASSUME NEW t \in Saves, t # s PROVE SaveKept(t)'
    BY <1>1, <1>2, <2>2 DEF SavesKept, SaveKept, Started
  <2>3. ASSUME NEW t \in Saves, ~Started(t) PROVE save[t].form = 0
    BY <2>3 DEF SavesKept, SaveKept, Idle
  <2>4. ASSUME NEW t \in Saves, NEW u \in Saves, t # u, Started(t)'
        PROVE  save'[t].form # save'[u].form
    <3>1. \A v \in Saves : save[v].form # current
      BY <1>1, <1>3, <2>3
    <3>2. CASE t = s
      BY <1>2, <2>4, <3>1, <3>2 DEF x
    <3>3. CASE u = s
      BY <1>2, <2>4, <3>1, <3>3 DEF x
    <3>4. CASE t # s /\ u # s
      BY <1>2, <2>4, <3>4 DEF SavesKept, Started
    <3> QED BY <3>2, <3>3, <3>4
  <2> QED BY <1>1, <1>2, <2>1, <2>2, <2>4 DEF SavesKept, SaveRecords
<1>8. LinksKept'
  <2> SUFFICES ASSUME NEW l \in Links PROVE LinkKept(l)'
    BY <1>1 DEF LinksKept, Links
  <2>1. l \in done => owner[l] # current
    BY <1>4 DEF LinksKept, LinkKept
  <2>2. ASSUME l \in done, NEW t \in Saves, Started(t)' PROVE save'[t].form # owner[l]
    BY <1>1, <1>2, <2>1, <2>2 DEF LinksKept, LinkKept, Started, x
  <2> QED BY <1>1, <2>2 DEF LinksKept, LinkKept
<1>9. FormsKept'
  BY <1>1 DEF FormsKept, FormKept
<1> QED BY <1>5, <1>6, <1>7, <1>8, <1>9

-----------------------------------------------------------------------------
\* One save goes on, or comes to its end; the forms of the saves stay apart.
LEMMA SaveGoesOn ==
  ASSUME SavesKept, NEW s \in Saves, Started(s), NEW y \in SaveRecords,
         save' = [save EXCEPT ![s] = y], opened' = opened,
         y = Idle \/ y.form = save[s].form
  PROVE  /\ save' \in [Saves -> SaveRecords'] /\ save'[s] = y
         /\ \A t \in Saves : t # s => save'[t] = save[t]
         /\ \A t, u \in Saves : t # u /\ Started(t)' => save'[t].form # save'[u].form
<1>1. save \in [Saves -> SaveRecords] /\ SaveRecords' = SaveRecords
  BY DEF SavesKept, SaveRecords, Links
<1>2. /\ save' \in [Saves -> SaveRecords'] /\ save'[s] = y
      /\ \A t \in Saves : t # s => save'[t] = save[t]
  BY <1>1
<1>3. Idle.form = 0 /\ Idle.stage = "idle"
  BY DEF Idle, None
<1>4. ASSUME NEW t \in Saves, NEW u \in Saves, t # u, Started(t)'
      PROVE  save'[t].form # save'[u].form
  <2>1. save'[t].stage # "idle"
    BY <1>4 DEF Started
  <2>2. CASE t = s
    <3>1. y.form = save[s].form
      BY <1>2, <1>3, <2>1, <2>2
    <3> QED BY <1>2, <1>4, <2>2, <3>1 DEF SavesKept
  <2>3. CASE u = s
    <3>1. Started(t) /\ save'[t] = save[t]
      BY <1>2, <1>4, <2>1, <2>3 DEF Started
    <3>2. save[t].form \in Forms /\ save[t].form # save[s].form
      BY <1>4, <2>3, <3>1 DEF SavesKept, SaveKept
    <3> QED BY <1>2, <1>3, <2>3, <3>1, <3>2 DEF Forms
  <2>4. CASE t # s /\ u # s
    BY <1>2, <1>4, <2>4 DEF SavesKept, Started
  <2> QED BY <2>2, <2>3, <2>4
<1> QED BY <1>2, <1>4

LEMMA IdleTyped == ASSUME PageTyped PROVE Idle \in SaveRecords
  BY LinkFormAssumption DEF PageTyped, Idle, None, SaveRecords, Stages

\* A link that is done stays one, while the saves that go on keep their forms.
LEMMA DoneStays ==
  ASSUME SavesKept, NEW s \in Saves, Started(s), NEW y \in SaveRecords,
         save' = [save EXCEPT ![s] = y], opened' = opened,
         y = Idle \/ y.form = save[s].form,
         NEW f, \A t \in Saves : Started(t) => save[t].form # f
  PROVE  \A t \in Saves : Started(t)' => save'[t].form # f
<1>1. save'[s] = y /\ \A t \in Saves : t # s => save'[t] = save[t]
  BY SaveGoesOn
<1>2. Idle.stage = "idle"
  BY DEF Idle
<1> QED BY <1>1, <1>2 DEF Started

\* The save throws, and its form keeps what it shows.
LEMMA ThrowStep ==
  ASSUME FormInv, NEW s \in Saves, Started(s), Throws(s), UNCHANGED storeVars
  PROVE  FormInv'
<1> USE DEF FormInv, storeVars
<1>1. /\ save' = [save EXCEPT ![s] = Idle]
      /\ UNCHANGED <<opened, current, kind, status, rows, target, shown, done, link, posted,
                     owner, wanted>>
  BY DEF Throws, pageVars
<1>2. Idle \in SaveRecords
  BY IdleTyped
<1>3. PageTyped'
  BY <1>1 DEF PageTyped
<1>4. StoreTyped'
  BY <1>1 DEF StoreTyped
<1>5. SavesKept'
  <2>1. SaveKept(s)'
    BY <1>1, <1>2, SaveGoesOn DEF SaveKept, Started, Idle
  <2>2. ASSUME NEW t \in Saves, t # s PROVE SaveKept(t)'
    <3>1. save'[t] = save[t] /\ SaveKept(t)
      BY <1>1, <1>2, <2>2, SaveGoesOn DEF SavesKept
    <3> QED BY <1>1, <3>1 DEF SaveKept, Started
  <2> QED BY <1>1, <1>2, <2>1, <2>2, SaveGoesOn DEF SavesKept
<1>6. LinksKept'
  <2> SUFFICES ASSUME NEW l \in Links PROVE LinkKept(l)'
    BY <1>1 DEF LinksKept, Links
  <2>1. LinkKept(l)
    BY DEF LinksKept
  <2>2. l \in done => \A t \in Saves : Started(t)' => save'[t].form # owner[l]
    BY <1>1, <1>2, <2>1, DoneStays DEF LinkKept
  <2> QED BY <1>1, <2>1, <2>2 DEF LinkKept
<1>7. FormsKept'
  BY <1>1 DEF FormsKept, FormKept
<1> QED BY <1>3, <1>4, <1>5, <1>6, <1>7

\* The link that is edited has been read.
LEMMA Reads == ASSUME FormInv, NEW s \in Saves, GetLink(s) PROVE FormInv'
<1> USE DEF FormInv
<1> DEFINE y == [save[s] EXCEPT !.stage = "write"]
<1>1. /\ save[s].stage = "update" /\ Started(s) /\ save' = [save EXCEPT ![s] = y]
      /\ UNCHANGED <<opened, current, kind, status, rows, target, shown, done, link, posted,
                     owner, wanted>>
  BY DEF GetLink, pageVars, storeVars, Started
<1>2. y \in SaveRecords /\ y.form = save[s].form /\ y.stage = "write"
  BY DEF SavesKept, SaveRecords, Stages
<1> HIDE DEF y
<1>3. PageTyped'
  BY <1>1 DEF PageTyped
<1>4. StoreTyped'
  BY <1>1 DEF StoreTyped
<1>5. SavesKept'
  <2>1. SaveKept(s)'
    <3>1. save'[s] = y /\ SaveKept(s)
      BY <1>1, <1>2, SaveGoesOn DEF SavesKept
    <3> QED BY <1>1, <1>2, <3>1 DEF SaveKept, Started
  <2>2. ASSUME NEW t \in Saves, t # s PROVE SaveKept(t)'
    <3>1. save'[t] = save[t] /\ SaveKept(t)
      BY <1>1, <1>2, <2>2, SaveGoesOn DEF SavesKept
    <3> QED BY <1>1, <3>1 DEF SaveKept, Started
  <2> QED BY <1>1, <1>2, <2>1, <2>2, SaveGoesOn DEF SavesKept
<1>6. LinksKept'
  <2> SUFFICES ASSUME NEW l \in Links PROVE LinkKept(l)'
    BY <1>1 DEF LinksKept, Links
  <2>1. LinkKept(l)
    BY DEF LinksKept
  <2>2. l \in done => \A t \in Saves : Started(t)' => save'[t].form # owner[l]
    BY <1>1, <1>2, <2>1, DoneStays DEF LinkKept
  <2> QED BY <1>1, <2>1, <2>2 DEF LinkKept
<1>7. FormsKept'
  BY <1>1 DEF FormsKept, FormKept
<1> QED BY <1>3, <1>4, <1>5, <1>6, <1>7

\* A new link, of the form of the save, whether or not the answer arrives.
LEMMA Inserts ==
  ASSUME FormInv, NEW s \in Saves, NEW l \in Links,
         CreateLink(s, l) \/ CreateUnanswered(s, l)
  PROVE  FormInv'
<1> USE DEF FormInv
<1> DEFINE x == [save[s] EXCEPT !.stage = "add", !.link = l]
<1>1. /\ save[s].stage = "create" /\ Started(s) /\ link[l] = "free"
      /\ link' = [link EXCEPT ![l] = "there"]
      /\ owner' = [owner EXCEPT ![l] = save[s].form]
      /\ wanted' = [wanted EXCEPT ![l] = save[s].rows]
      /\ UNCHANGED <<opened, current, kind, status, rows, target, shown, done, posted>>
  BY DEF CreateLink, CreateUnanswered, Inserted, Throws, pageVars, Started
<1>2. /\ save' = [save EXCEPT ![s] = x] \/ save' = [save EXCEPT ![s] = Idle]
      /\ x \in SaveRecords /\ Idle \in SaveRecords
  <2>1. save' = [save EXCEPT ![s] = x] \/ save' = [save EXCEPT ![s] = Idle]
    BY DEF CreateLink, CreateUnanswered, Throws
  <2>2. x \in SaveRecords
    BY DEF SavesKept, SaveRecords, Stages
  <2> QED BY <2>1, <2>2, IdleTyped
<1>3. /\ x.form = save[s].form /\ x.stage = "add" /\ x.link = l
      /\ x.rows = save[s].rows /\ x.next = save[s].next
  BY DEF SavesKept, SaveRecords
<1> HIDE DEF x
<1>4. PICK y \in SaveRecords : /\ save' = [save EXCEPT ![s] = y]
                               /\ y = x \/ y = Idle
  BY <1>2
<1>5. /\ y = Idle \/ y.form = save[s].form
      /\ save[s] \in SaveRecords
  BY <1>3, <1>4 DEF SavesKept
<1>6. PageTyped'
  BY <1>1 DEF PageTyped
<1>7. save[s].form \in 0..opened /\ save[s].rows \in 0..MaxRows
  BY <1>5 DEF SaveRecords
<1>8. StoreTyped'
  BY <1>1, <1>7 DEF StoreTyped
<1>9. posted[l] = <<>> /\ l \notin done /\ Len(posted[l]) = 0
  <2>1. posted[l] = <<>> /\ l \notin done
    BY <1>1 DEF LinksKept, LinkKept
  <2> QED BY <2>1, EmptySeq
<1>10. \A k \in Links : k # l => link'[k] = link[k] /\ owner'[k] = owner[k] /\ wanted'[k] = wanted[k]
  BY <1>1 DEF StoreTyped
<1>11. link'[l] = "there" /\ owner'[l] = save[s].form /\ wanted'[l] = save[s].rows
  BY <1>1 DEF StoreTyped
<1>12. SavesKept'
  <2>1. SaveKept(s)'
    <3>1. save'[s] = y /\ SaveKept(s)
      BY <1>1, <1>4, <1>5, SaveGoesOn DEF SavesKept
    <3>2. CASE y = Idle
      BY <1>1, <3>1, <3>2 DEF SaveKept, Started, Idle
    <3>3. CASE y = x
      <4>1. x.next = 1
        BY <1>1, <1>3, <3>1 DEF SaveKept
      <4> QED BY <1>1, <1>3, <1>7, <1>9, <1>11, <3>1, <3>3, <4>1 DEF SaveKept, Started, Links
    <3> QED BY <1>4, <3>2, <3>3
  <2>2. ASSUME NEW t \in Saves, t # s PROVE SaveKept(t)'
    <3>1. save'[t] = save[t] /\ SaveKept(t)
      BY <1>1, <1>4, <1>5, <2>2, SaveGoesOn DEF SavesKept
    <3>2. save[t].stage = "add" => save[t].link # l /\ save[t].link \in Links
      BY <1>1, <3>1 DEF SaveKept
    <3> QED BY <1>1, <1>10, <3>1, <3>2 DEF SaveKept, Started, Links
  <2> QED BY <1>1, <1>4, <1>5, <2>1, <2>2, SaveGoesOn DEF SavesKept
<1>13. LinksKept'
  <2> SUFFICES ASSUME NEW k \in Links PROVE LinkKept(k)'
    BY <1>1 DEF LinksKept, Links
  <2>1. LinkKept(k)
    BY DEF LinksKept
  <2>2. CASE k = l
    BY <1>1, <1>7, <1>9, <1>11, <2>1, <2>2 DEF LinkKept
  <2>3. CASE k # l
    <3>1. k \in done => \A t \in Saves : Started(t)' => save'[t].form # owner[k]
      BY <1>1, <1>4, <1>5, <2>1, DoneStays DEF LinkKept
    <3>2. \A j \in done : j \in Links /\ j # l
      BY <1>9 DEF StoreTyped
    <3> QED BY <1>1, <1>10, <2>1, <2>3, <3>1, <3>2 DEF LinkKept
  <2> QED BY <2>2, <2>3
<1>14. FormsKept'
  <2>1. \A j \in done : owner'[j] = owner[j]
    BY <1>9, <1>10 DEF StoreTyped
  <2> QED BY <1>1, <2>1 DEF FormsKept, FormKept
<1> QED BY <1>6, <1>8, <1>12, <1>13, <1>14

\* The next row, inserted whether or not the answer arrives.
LEMMA Adds ==
  ASSUME FormInv, NEW s \in Saves, AddDestination(s) \/ AddUnanswered(s)
  PROVE  FormInv'
<1> USE DEF FormInv
<1> DEFINE l == save[s].link
           n == save[s].next
           x == [save[s] EXCEPT !.next = @ + 1]
<1>1. /\ save[s].stage = "add" /\ Started(s) /\ n <= save[s].rows
      /\ posted' = [posted EXCEPT ![l] = Append(@, n)]
      /\ UNCHANGED <<opened, current, kind, status, rows, target, shown, done, link, owner, wanted>>
  BY DEF AddDestination, AddUnanswered, RowInserted, Throws, pageVars, Started
<1>2. /\ save[s] \in SaveRecords /\ SaveKept(s)
      /\ n \in 1..MaxRows /\ save[s].rows \in 0..MaxRows
  <2>1. save[s] \in SaveRecords /\ SaveKept(s)
    BY DEF SavesKept
  <2>2. n \in 1..MaxRows + 1 /\ save[s].rows \in 0..MaxRows
    BY <2>1 DEF SaveRecords
  <2> QED BY <1>1, <2>1, <2>2, LinkFormAssumption
<1>3. /\ l \in Links \ done /\ link[l] # "free" /\ owner[l] = save[s].form
      /\ wanted[l] = save[s].rows /\ Len(posted[l]) = n - 1
  BY <1>1, <1>2 DEF SaveKept
<1>4. /\ save' = [save EXCEPT ![s] = x] \/ save' = [save EXCEPT ![s] = Idle]
      /\ x \in SaveRecords /\ Idle \in SaveRecords
      /\ x.form = save[s].form /\ x.stage = "add" /\ x.link = l
      /\ x.rows = save[s].rows /\ x.next = n + 1
  <2>1. save' = [save EXCEPT ![s] = x] \/ save' = [save EXCEPT ![s] = Idle]
    BY DEF AddDestination, AddUnanswered, Throws
  <2>2. n + 1 \in 1..MaxRows + 1
    BY <1>2, LinkFormAssumption
  <2>3. x \in SaveRecords
    BY <1>2, <2>2 DEF SaveRecords
  <2>4. /\ x.form = save[s].form /\ x.stage = "add" /\ x.link = l
        /\ x.rows = save[s].rows /\ x.next = n + 1
    BY <1>1, <1>2 DEF SaveRecords
  <2> QED BY <2>1, <2>3, <2>4, IdleTyped
<1> HIDE DEF x
<1>5. PICK y \in SaveRecords : /\ save' = [save EXCEPT ![s] = y]
                               /\ y = x \/ y = Idle
                               /\ y = Idle \/ y.form = save[s].form
  BY <1>4
<1>6. /\ posted[l] \in Seq(1..MaxRows) /\ posted' \in [Links -> Seq(1..MaxRows)]
      /\ posted'[l] = Append(posted[l], n)
      /\ \A k \in Links : k # l => posted'[k] = posted[k]
  BY <1>1, <1>2, <1>3, AppendProperties DEF StoreTyped
<1>7. Len(posted'[l]) = n /\ posted'[l] = [i \in 1..Len(posted'[l]) |-> i]
  <2>1. /\ Len(posted'[l]) = n /\ posted'[l] \in Seq(1..MaxRows)
        /\ \A i \in 1..n - 1 : posted'[l][i] = posted[l][i]
        /\ posted'[l][n] = n
    BY <1>2, <1>3, <1>6, AppendProperties
  <2>2. \A i \in 1..n - 1 : posted[l][i] = i
    BY <1>3 DEF LinksKept, LinkKept
  <2>3. \A i \in 1..n : posted'[l][i] = i
    BY <1>2, <2>1, <2>2
  <2>4. DOMAIN posted'[l] = 1..n /\ posted'[l] = [i \in DOMAIN posted'[l] |-> posted'[l][i]]
    BY <2>1, LenProperties
  <2> QED BY <2>1, <2>3, <2>4
<1> HIDE DEF l, n
<1>8. PageTyped'
  BY <1>1 DEF PageTyped
<1>9. StoreTyped'
  BY <1>1, <1>6 DEF StoreTyped
<1>10. SavesKept'
  <2>1. SaveKept(s)'
    <3>1. save'[s] = y
      BY <1>1, <1>5, SaveGoesOn
    <3>2. CASE y = Idle
      BY <1>1, <3>1, <3>2 DEF SaveKept, Started, Idle
    <3>3. CASE y = x
      BY <1>1, <1>2, <1>3, <1>4, <1>7, <3>1, <3>3 DEF SaveKept, Started, Links
    <3> QED BY <1>5, <3>2, <3>3
  <2>2. ASSUME NEW t \in Saves, t # s PROVE SaveKept(t)'
    <3>1. save'[t] = save[t] /\ SaveKept(t)
      BY <1>1, <1>5, <2>2, SaveGoesOn DEF SavesKept
    <3>2. save[t].stage = "add" => save[t].link # l /\ save[t].link \in Links
      BY <1>1, <2>2, <3>1, OwnLinks DEF SaveKept, l
    <3> QED BY <1>1, <1>6, <3>1, <3>2 DEF SaveKept, Started, Links
  <2> QED BY <1>1, <1>5, <2>1, <2>2, SaveGoesOn DEF SavesKept
<1>11. LinksKept'
  <2> SUFFICES ASSUME NEW k \in Links PROVE LinkKept(k)'
    BY <1>1 DEF LinksKept, Links
  <2>1. LinkKept(k)
    BY DEF LinksKept
  <2>2. CASE k = l
    BY <1>1, <1>2, <1>3, <1>7, <2>2 DEF LinkKept
  <2>3. CASE k # l
    <3>1. k \in done => \A t \in Saves : Started(t)' => save'[t].form # owner[k]
      BY <1>1, <1>5, <2>1, DoneStays DEF LinkKept
    <3> QED BY <1>1, <1>6, <2>1, <2>3, <3>1 DEF LinkKept
  <2> QED BY <2>2, <2>3
<1>12. FormsKept'
  BY <1>1 DEF FormsKept, FormKept
<1> QED BY <1>8, <1>9, <1>10, <1>11, <1>12

\* The save comes to its end and closes the form that is shown. That is another
\* one only if the save's own was abandoned, or closed in the same way before.
LEMMA Finishes == ASSUME FormInv, NEW s \in Saves, Finish(s) PROVE FormInv'
<1> USE DEF FormInv, None, Forms
<1> DEFINE f == save[s].form
           l == save[s].link
           how == IF f = current THEN "saved" ELSE "closed"
<1>1. /\ \/ save[s].stage = "add" /\ save[s].next > save[s].rows /\ done' = done \cup {l}
         \/ save[s].stage = "write" /\ done' = done
      /\ Started(s) /\ save' = [save EXCEPT ![s] = Idle]
      /\ UNCHANGED <<opened, kind, link, posted, owner, wanted, shown>>
      /\ current = 0 => UNCHANGED <<current, status, rows, target>>
      /\ current # 0 => status' = [status EXCEPT ![current] = how]
                        /\ current' = 0 /\ rows' = 0 /\ target' = 0
  BY DEF Finish, CloseWith, pageVars, storeVars, Started
<1>2. /\ save[s] \in SaveRecords /\ SaveKept(s) /\ Idle \in SaveRecords
      /\ save[s].next \in 1..MaxRows + 1 /\ save[s].rows \in 0..MaxRows
  <2>1. save[s] \in SaveRecords /\ SaveKept(s) /\ Idle \in SaveRecords
    BY IdleTyped DEF SavesKept
  <2> QED BY <2>1 DEF SaveRecords
<1>3. /\ f \in Forms /\ f <= opened
      /\ status[f] \in {"open", "abandoned", "closed"}
      /\ (save[s].stage = "add" <=> kind[f] = "create")
  BY <1>1, <1>2 DEF SaveKept, SaveRecords
<1>4. save[s].stage = "add" =>
        /\ l \in Links \ done /\ link[l] # "free" /\ owner[l] = f
        /\ Len(posted[l]) = wanted[l]
  <2> SUFFICES ASSUME save[s].stage = "add"
               PROVE  /\ l \in Links \ done /\ link[l] # "free" /\ owner[l] = f
                      /\ Len(posted[l]) = wanted[l]
    OBVIOUS
  <2>1. /\ l \in Links \ done /\ link[l] # "free" /\ owner[l] = f
        /\ wanted[l] = save[s].rows /\ save[s].next <= save[s].rows + 1
        /\ Len(posted[l]) = save[s].next - 1
    BY <1>2 DEF SaveKept
  <2>2. save[s].next > save[s].rows
    BY <1>1
  <2> QED BY <1>2, <2>1, <2>2, LinkFormAssumption
<1>5. /\ save'[s] = Idle /\ \A t \in Saves : t # s => save'[t] = save[t]
      /\ \A t \in Saves : t # s => save[t].form # f
      /\ \A t \in Saves : Started(t)' => save'[t].form # f
  <2>1. save'[s] = Idle /\ \A t \in Saves : t # s => save'[t] = save[t]
    BY <1>1, <1>2, SaveGoesOn
  <2>2. \A t \in Saves : t # s => save[t].form # f
    BY <1>1 DEF SavesKept
  <2>3. Idle.stage = "idle"
    BY DEF Idle
  <2> QED BY <2>1, <2>2, <2>3 DEF Started
<1>6. /\ current # 0 => current = opened /\ current \in Forms /\ status[current] = "open"
      /\ \A g \in Forms :
             status'[g] = IF current # 0 /\ g = current THEN how ELSE status[g]
  <2>1. CASE current = 0
    BY <1>1, <2>1
  <2>2. CASE current # 0
    <3>1. current = opened /\ current \in Forms /\ status[current] = "open"
      BY <2>2 DEF PageTyped
    <3> HIDE DEF how
    <3>2. \A g \in Forms : status'[g] = IF g = current THEN how ELSE status[g]
      BY <1>1, <2>2 DEF PageTyped
    <3> QED BY <2>2, <3>1, <3>2
  <2> QED BY <2>1, <2>2
<1>7. PageTyped'
  <2>1. CASE current = 0
    BY <1>1, <2>1 DEF PageTyped
  <2>2. CASE current # 0
    <3>1. how \in {"saved", "closed"}
      OBVIOUS
    <3> HIDE DEF how
    <3>2. status' \in [Forms -> {"none", "open", "saved", "cancelled", "abandoned", "closed"}]
      BY <1>1, <2>2, <3>1 DEF PageTyped
    <3>3. ASSUME NEW g \in Forms PROVE (status'[g] = "open" <=> g = current')
      <4>1. (status[g] = "open" <=> g = current) /\ g # 0
        BY DEF PageTyped
      <4>2. status'[g] = IF g = current THEN how ELSE status[g]
        BY <1>6, <2>2
      <4>3. current' = 0
        BY <1>1, <2>2
      <4>4. status'[g] # "open"
        <5>1. CASE g = current
          BY <3>1, <4>2, <5>1
        <5>2. CASE g # current
          BY <4>1, <4>2, <5>2
        <5> QED BY <5>1, <5>2
      <4> QED BY <4>1, <4>3, <4>4
    <3>4. /\ opened' \in 0..MaxForms /\ current' \in {0, opened'} /\ rows' \in 0..MaxRows
          /\ target' \in Links \cup {0}
          /\ kind' \in [Forms -> {"none", "create", "edit"}]
      BY <1>1, <2>2, LinkFormAssumption DEF PageTyped
    <3> QED BY <3>2, <3>3, <3>4 DEF PageTyped, Links
  <2> QED BY <2>1, <2>2
<1> HIDE DEF f, l
<1>8. StoreTyped'
  BY <1>1, <1>4 DEF StoreTyped
<1>9. SavesKept'
  <2>1. SaveKept(s)'
    BY <1>5 DEF SaveKept, Started, Idle
  <2>2. ASSUME NEW t \in Saves, t # s PROVE SaveKept(t)'
    <3>1. save'[t] = save[t] /\ SaveKept(t) /\ save[t].form # f
      BY <1>5, <2>2 DEF SavesKept
    <3>2. save[t].stage = "add" => save[t].link \notin done'
      <4> SUFFICES ASSUME save[t].stage = "add" PROVE save[t].link \notin done'
        OBVIOUS
      <4>1. save[t].link \notin done /\ owner[save[t].link] = save[t].form
        BY <3>1 DEF SaveKept
      <4> QED BY <1>1, <1>4, <3>1, <4>1
    <3>3. Started(t) => status'[save[t].form] \in {"open", "abandoned", "closed"}
      BY <1>6, <3>1 DEF SaveKept
    <3> QED BY <1>1, <3>1, <3>2, <3>3 DEF SaveKept, Started, Links
  <2> QED BY <1>1, <1>2, <2>1, <2>2, SaveGoesOn DEF SavesKept
<1>10. LinksKept'
  <2> SUFFICES ASSUME NEW k \in Links PROVE LinkKept(k)'
    BY <1>1 DEF LinksKept, Links
  <2>1. LinkKept(k)
    BY DEF LinksKept
  <2>2. \A j \in done : owner[j] # f /\ j \in Links
    BY <1>1 DEF LinksKept, LinkKept, StoreTyped, f
  <2>3. CASE k \in done
    <3>1. \A t \in Saves : Started(t)' => save'[t].form # owner[k]
      BY <1>1, <1>2, <2>1, <2>3, DoneStays DEF LinkKept
    <3>2. \A j \in done' : owner[j] = owner[k] => j = k
      BY <1>1, <1>4, <2>1, <2>2, <2>3 DEF LinkKept
    <3>3. owner[k] \in Forms /\ status'[owner[k]] # "open"
      BY <1>6, <2>1, <2>3 DEF LinkKept
    <3> QED BY <1>1, <2>1, <2>3, <3>1, <3>2, <3>3 DEF LinkKept
  <2>4. CASE k \in done' /\ k \notin done
    <3>1. k = l /\ save[s].stage = "add"
      BY <1>1, <2>4
    <3>2. owner[k] = f /\ status'[f] # "open"
      BY <1>3, <1>4, <1>6, <3>1 DEF PageTyped
    <3>3. \A j \in done' : owner[j] = owner[k] => j = k
      BY <1>1, <2>2, <3>1, <3>2
    <3> QED BY <1>1, <1>3, <1>4, <1>5, <2>1, <3>1, <3>2, <3>3 DEF LinkKept
  <2>5. CASE k \notin done'
    BY <1>1, <2>1, <2>5 DEF LinkKept
  <2> QED BY <2>3, <2>4, <2>5
<1>11. FormsKept'
  <2>1. \A g \in Forms : g > opened' => status'[g] = "none" /\ kind'[g] = "none"
    BY <1>1, <1>6 DEF FormsKept, PageTyped
  <2>2. ASSUME NEW g \in Forms, status'[g] = "saved", kind'[g] = "create"
        PROVE  \E k \in done' : owner'[k] = g
    <3>1. CASE status[g] = "saved"
      BY <1>1, <2>2, <3>1 DEF FormsKept
    <3>2. CASE status[g] # "saved"
      <4>1. g = f /\ kind[f] = "create"
        BY <1>1, <1>6, <2>2, <3>2
      <4> QED BY <1>1, <1>3, <1>4, <4>1
    <3> QED BY <3>1, <3>2
  <2>3. FormKept'
    <3> SUFFICES ASSUME NEW g \in Forms, status'[g] = "closed"
                 PROVE  \E h \in 1..g - 1 : status'[h] = "abandoned"
      BY DEF FormKept
    <3>1. \A h \in Forms : status[h] = "abandoned" => status'[h] = "abandoned"
      BY <1>6
    <3>2. CASE status[g] = "closed"
      BY <3>1, <3>2, LinkFormAssumption DEF FormsKept, FormKept
    <3>3. CASE status[g] # "closed"
      <4>1. g = current /\ current # 0 /\ f # current /\ f < g
        BY <1>3, <1>6, <3>3 DEF PageTyped
      <4>2. status[f] \in {"abandoned", "closed"}
        BY <1>3, <4>1 DEF PageTyped
      <4>3. PICK h \in 1..g - 1 : status[h] = "abandoned"
        <5>1. CASE status[f] = "abandoned"
          BY <1>3, <4>1, <5>1
        <5>2. CASE status[f] = "closed"
          BY <1>3, <4>1, <5>2 DEF FormsKept, FormKept
        <5> QED BY <4>2, <5>1, <5>2
      <4> QED BY <3>1, <4>3, LinkFormAssumption
    <3> QED BY <3>2, <3>3
  <2> QED BY <2>1, <2>2, <2>3 DEF FormsKept
<1> QED BY <1>7, <1>8, <1>9, <1>10, <1>11

LEMMA NextFormInv == ASSUME FormInv, [FormNext]_linkFormVars PROVE FormInv'
<1>1. CASE NewLink
  <2>1. Open("create") /\ target' = 0
    BY <1>1 DEF NewLink, None
  <2> QED BY <2>1, Opens DEF None
<1>2. ASSUME NEW l \in Links, Edit(l) PROVE FormInv'
  <2>1. Open("edit") /\ target' = l
    BY <1>2 DEF Edit
  <2> QED BY <2>1, Opens
<1>3. CASE Cancel
  BY <1>3, Cancels
<1>4. CASE LoadLinks \/ UNCHANGED linkFormVars
  <2>1. UNCHANGED <<pageVars, save, storeVars, done>>
    BY <1>4 DEF LoadLinks, linkFormVars
  <2>2. shown' \subseteq Links
    BY <1>4 DEF LoadLinks, linkFormVars, FormInv, StoreTyped
  <2> QED BY <2>1, <2>2, ListLoaded
<1>5. ASSUME NEW l \in Links, DeleteLink(l) PROVE FormInv'
  BY <1>5, Deletes
<1>6. ASSUME NEW n \in 0..MaxRows, EditRows(n) PROVE FormInv'
  BY <1>6, Edits DEF EditRows
<1>7. ASSUME NEW s \in Saves, HandleSubmit(s) PROVE FormInv'
  BY <1>7, Begins
<1>8. ASSUME NEW s \in Saves, Save(s) PROVE FormInv'
  <2>1. ASSUME NEW l \in Links, CreateLink(s, l) \/ CreateUnanswered(s, l)
        PROVE  FormInv'
    BY <2>1, Inserts
  <2>2. CASE AddDestination(s) \/ AddUnanswered(s)
    BY <2>2, Adds
  <2>3. CASE CreateFails(s) \/ AddFails(s) \/ UpdateFails(s)
    <3>1. Started(s) /\ Throws(s) /\ UNCHANGED storeVars
      BY <2>3 DEF CreateFails, AddFails, UpdateFails, Started
    <3> QED BY <3>1, ThrowStep
  <2>4. CASE GetLink(s)
    BY <2>4, Reads
  <2>5. CASE Finish(s)
    BY <2>5, Finishes
  <2> QED BY <1>8, <2>1, <2>2, <2>3, <2>4, <2>5 DEF Save
<1> QED BY <1>1, <1>2, <1>3, <1>4, <1>5, <1>6, <1>7, <1>8 DEF FormNext

LEMMA FormInvariant == FormSpec => []FormInv
<1>1. FormInit => FormInv
  BY InitFormInv
<1>2. FormInv /\ [FormNext]_linkFormVars => FormInv'
  BY NextFormInv
<1> QED BY <1>1, <1>2, PTL DEF FormSpec

\* One link of a form is done at most, so one that says saved has exactly one.
LEMMA OneEach == FormInv => LinksWhole
<1> SUFFICES ASSUME FormInv PROVE LinksWhole
  OBVIOUS
<1>1. ASSUME NEW l \in Links
      PROVE  /\ posted[l] = [i \in 1..Len(posted[l]) |-> i]
             /\ Len(posted[l]) <= wanted[l]
             /\ l \in done => Len(posted[l]) = wanted[l]
  BY DEF FormInv, LinksKept, LinkKept
<1>2. ASSUME NEW f \in Forms, status[f] = "saved" /\ kind[f] = "create"
      PROVE  Cardinality({l \in done : owner[l] = f}) = 1
  <2>1. PICK l \in done : owner[l] = f
    BY <1>2 DEF FormInv, FormsKept
  <2>2. LinkKept(l)
    BY <2>1 DEF FormInv, LinksKept, StoreTyped
  <2>3. {k \in done : owner[k] = f} = {l}
    BY <2>1, <2>2 DEF LinkKept
  <2>4. Cardinality({l}) = 1
    BY FS_Singleton
  <2> QED BY <2>3, <2>4
<1> QED BY <1>1, <1>2 DEF LinksWhole

\* Forms, saves and links keep their types. One form is open, and its button
\* starts one save at a time (useLinkForm, LinkForm's isPending).
THEOREM FormTypeCorrect == FormSpec => []FormTypeOK
BY FormInvariant, FormTyped, PTL

\* Whatever fails or goes unanswered, whichever forms are open meanwhile: a link
\* has the first rows of its form in order, all of them if its save came to its
\* end, and a form that says saved has made one such link (handleSubmit).
THEOREM LinksAreWhole == FormSpec => []LinksWhole
BY FormInvariant, OneEach, PTL

\* The page closes no form that has not been abandoned, cancelled or saved,
\* but after the user abandoned an earlier one in the middle of its save
\* (onClose and handleClose of LinksPage).
THEOREM FormIsKept == FormSpec => []FormKept
<1>1. FormInv => FormKept
  BY DEF FormInv, FormsKept
<1> QED BY <1>1, FormInvariant, PTL

=============================================================================
