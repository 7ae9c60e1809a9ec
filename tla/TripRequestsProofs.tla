-------------------------- MODULE TripRequestsProofs --------------------------
(***************************************************************************)
(* What a traveler may rely on, for any number of browsers, forms, secrets *)
(* and deployments: private pages need a live session, "not accepted"      *)
(* means that nothing is or will be recorded, and a trip that is shown is  *)
(* recorded.                                                               *)
(*                                                                         *)
(* Three invariants, each about its own variables: SessionInv ties the     *)
(* cookie to the sign-in, SubmissionInv a form's answer to its             *)
(* transaction, and PagesInv what a page, a redirect or a request under    *)
(* way says to the submission it is about.                                 *)
(***************************************************************************)
EXTENDS TripRequests, TLAPS

-------------------------------------------------------------------------------
(* Sessions *)

\* A cookie that is still kept is the last sign-in's, and not kept beyond the session's life.
SessionInv ==
  /\ AccessTypeOK
  /\ \A b \in Browser : jar[b].token # NoToken =>
       /\ jar[b].left >= 1
       /\ signed_in[b].ago + jar[b].left <= SESSION_TTL
       /\ signed_in[b].key = jar[b].token.key

session_side == <<now, env, jar, signed_in>>

\* The initial cookies and sign-ins satisfy it.
LEMMA InitSessionInv == Init => SessionInv
BY ClockAssumption DEF Init, AccessInit, SessionInv, AccessTypeOK, EmptyJar, Never, NoToken, Time

\* A kept cookie is the same cookie, a tick nearer to its end.
LEMMA KeptCookie ==
  ASSUME NEW kept \in [token : Token \cup {NoToken}, left : 0..SESSION_TTL]
  PROVE  /\ Kept(kept) \in [token : Token \cup {NoToken}, left : 0..SESSION_TTL]
         /\ Kept(kept).token # NoToken =>
              kept.left > 1 /\ Kept(kept).left = kept.left - 1 /\ Kept(kept).token = kept.token
<1> USE ClockAssumption
<1>1. kept.left \in 0..SESSION_TTL /\ kept.token \in Token \cup {NoToken}
  OBVIOUS
<1>2. CASE kept.left <= 1
  <2>1. Kept(kept) = [token |-> NoToken, left |-> 0]
    BY <1>2 DEF Kept, EmptyJar
  <2>2. QED
    BY <2>1
<1>3. CASE kept.left > 1
  <2>1. ~(kept.left <= 1) /\ kept.left - 1 \in 0..SESSION_TTL
    BY <1>1, <1>3
  <2>2. Kept(kept) = [kept EXCEPT !.left = kept.left - 1]
    BY <2>1 DEF Kept
  <2>3. QED
    BY <1>1, <1>3, <2>1, <2>2
<1>4. QED
  BY <1>1, <1>2, <1>3

\* Time passing for every cookie and every sign-in alike keeps it.
LEMMA TickSessionInv == SessionInv /\ Tick => SessionInv'
<1> SUFFICES ASSUME SessionInv, Tick PROVE SessionInv'
  OBVIOUS
<1>1. jar' = [b \in Browser |-> Kept(jar[b])]
  BY DEF Tick
<1>2. ASSUME NEW b \in Browser
      PROVE  /\ jar[b] \in [token : Token \cup {NoToken}, left : 0..SESSION_TTL]
             /\ signed_in[b] \in [ago : 0..SESSION_TTL + 1, key : Secret \cup {Missing}]
  BY DEF SessionInv, AccessTypeOK
<1>3. ASSUME NEW b \in Browser
      PROVE  /\ signed_in'[b] \in [ago : 0..SESSION_TTL + 1, key : Secret \cup {Missing}]
             /\ signed_in[b].ago <= SESSION_TTL =>
                  signed_in'[b].ago = signed_in[b].ago + 1 /\ signed_in'[b].key = signed_in[b].key
  <2>1. CASE signed_in[b].ago > SESSION_TTL
    BY <1>2, <2>1, ClockAssumption DEF Tick, Never
  <2>2. CASE signed_in[b].ago <= SESSION_TTL
    <3>1. ~(signed_in[b].ago > SESSION_TTL) /\ signed_in[b].ago + 1 \in 0..SESSION_TTL + 1
      BY <1>2, <2>2, ClockAssumption
    <3>2. signed_in'[b] = [signed_in[b] EXCEPT !.ago = signed_in[b].ago + 1]
      BY <3>1 DEF Tick
    <3>3. QED
      BY <1>2, <3>1, <3>2
  <2>3. QED
    BY <1>2, <2>1, <2>2, ClockAssumption
<1>4. ASSUME NEW b \in Browser, jar'[b].token # NoToken
      PROVE  /\ jar'[b].left >= 1
             /\ signed_in'[b].ago + jar'[b].left <= SESSION_TTL
             /\ signed_in'[b].key = jar'[b].token.key
  <2>1. /\ jar[b].left > 1 /\ jar'[b].left = jar[b].left - 1 /\ jar'[b].token = jar[b].token
    BY <1>1, <1>2, <1>4, KeptCookie
  <2>2. signed_in[b].ago + jar[b].left <= SESSION_TTL /\ signed_in[b].key = jar[b].token.key
    BY <1>4, <2>1 DEF SessionInv
  <2>3. jar[b].left \in Nat /\ signed_in[b].ago \in Nat
    BY <1>2, ClockAssumption
  <2>4. signed_in[b].ago <= SESSION_TTL
    BY <2>1, <2>2, <2>3, ClockAssumption
  <2>5. QED
    BY <1>3, <2>1, <2>2, <2>3, <2>4, ClockAssumption
<1>5. jar' \in [Browser -> [token : Token \cup {NoToken}, left : 0..SESSION_TTL]]
  BY <1>1, <1>2, KeptCookie
<1>6. signed_in' \in [Browser -> [ago : 0..SESSION_TTL + 1, key : Secret \cup {Missing}]]
  BY <1>3 DEF Tick
<1>7. now' \in Time /\ env' \in Environments
  BY ClockAssumption DEF Tick, SessionInv, AccessTypeOK, Time
<1>8. QED
  BY <1>4, <1>5, <1>6, <1>7 DEF SessionInv, AccessTypeOK

\* An accepted sign-in starts cookie and session together; nothing else gives a cookie.
LEMMA SignInSessionInv == ASSUME SessionInv, NEW b \in Browser, SignIn(b) PROVE SessionInv'
<1> USE ClockAssumption
<1>1. CASE UNCHANGED <<jar, signed_in>>
  BY <1>1 DEF SignIn, SessionInv, AccessTypeOK
<1>2. CASE /\ accessConfig(env) = "configured"
           /\ jar' = [jar EXCEPT ![b] = [token |-> issueSession(env.secret, now), left |-> SESSION_TTL]]
           /\ signed_in' = [signed_in EXCEPT ![b] = [ago |-> 0, key |-> env.secret]]
  <2>1. env \in Environment /\ env.secret \notin {Missing, TooShort}
    BY <1>2, EnvironmentAssumption DEF SessionInv, AccessTypeOK, accessConfig, Environment
  <2>2. env.secret \in Secret
    BY <2>1 DEF Environment
  <2>3. issueSession(env.secret, now) \in Token /\ issueSession(env.secret, now).key = env.secret
    BY <2>2 DEF issueSession, Token, SessionInv, AccessTypeOK
  <2>4. UNCHANGED <<now, env>>
    BY DEF SignIn
  <2>5. /\ jar' \in [Browser -> [token : Token \cup {NoToken}, left : 0..SESSION_TTL]]
        /\ signed_in' \in [Browser -> [ago : 0..SESSION_TTL + 1, key : Secret \cup {Missing}]]
    BY <1>2, <2>2, <2>3 DEF SessionInv, AccessTypeOK
  <2>6. ASSUME NEW c \in Browser, jar'[c].token # NoToken
        PROVE  /\ jar'[c].left >= 1
               /\ signed_in'[c].ago + jar'[c].left <= SESSION_TTL
               /\ signed_in'[c].key = jar'[c].token.key
    BY <1>2, <2>3, <2>6 DEF SessionInv, AccessTypeOK
  <2>7. QED
    BY <2>4, <2>5, <2>6 DEF SessionInv, AccessTypeOK
<1>3. QED
  BY <1>1, <1>2 DEF SignIn

\* Every step keeps it.
LEMMA NextSessionInv == SessionInv /\ [Next]_vars => SessionInv'
<1> SUFFICES ASSUME SessionInv, [Next]_vars PROVE SessionInv'
  OBVIOUS
<1>1. CASE UNCHANGED session_side
  BY <1>1 DEF session_side, SessionInv, AccessTypeOK
<1>2. CASE Clock
  BY <1>2, TickSessionInv DEF Clock, StepBack, SessionInv, AccessTypeOK
<1>3. CASE Redeploy
  BY <1>3 DEF Redeploy, SessionInv, AccessTypeOK
<1>4. ASSUME NEW b \in Browser, SignInOrOut(b) PROVE SessionInv'
  <2>1. CASE SignIn(b)
    BY <2>1, SignInSessionInv
  <2>2. CASE SignOut(b)
    <3>1. /\ jar' \in [Browser -> [token : Token \cup {NoToken}, left : 0..SESSION_TTL]]
          /\ signed_in' \in [Browser -> [ago : 0..SESSION_TTL + 1, key : Secret \cup {Missing}]]
      BY <2>2, ClockAssumption DEF SignOut, EmptyJar, Never, SessionInv, AccessTypeOK
    <3>2. QED
      BY <2>2, <3>1 DEF SignOut, EmptyJar, SessionInv, AccessTypeOK
  <2>3. QED
    BY <1>4, <2>1, <2>2 DEF SignInOrOut
<1>5. ASSUME NEW b \in Browser, OpenPage(b) \/ SubmitForm(b) \/ Wait(b) PROVE UNCHANGED session_side
  BY <1>5 DEF OpenPage, SubmitForm, Wait, FollowRedirect, RenderPage, LoseAnswer, Arrive, session_side
<1>6. ASSUME NEW n \in Submission, Handle(n) \/ ServeApi(n) PROVE UNCHANGED session_side
  BY <1>6 DEF Handle, ServeApi, POST, Answered, create_trip_request, create_trip,
              get_write_connection, ApiFails, Api, access, session_side
<1>7. ASSUME NEW t \in Terminal, Register(t) PROVE UNCHANGED session_side
  BY <1>7 DEF Register, access, session_side
<1>8. UNCHANGED vars => UNCHANGED session_side
  BY DEF vars, access, session_side
<1>9. QED
  BY <1>1, <1>2, <1>3, <1>4, <1>5, <1>6, <1>7, <1>8 DEF Next, Travel

\* A verified cookie is a live session of this deployment.
LEMMA VerifiedIsLive ==
  ASSUME SessionInv, NEW b \in Browser, NEW p, proxy(b, p) = "allow", ~isPublicPath(p)
  PROVE  (env.development /\ env.passphrase = Missing /\ env.secret = Missing) \/ LiveSession(b)
<1>1. CASE accessConfig(env) = "development_open"
  BY <1>1 DEF accessConfig
<1>2. CASE accessConfig(env) # "development_open"
  <2>1. verifySession(env.secret, jar[b].token, now)
    BY <1>2 DEF proxy, guard
  <2>2. jar[b].token # NoToken /\ jar[b].token.key = env.secret
    BY <2>1 DEF verifySession, signed_with
  <2>3. jar[b].left >= 1 /\ signed_in[b].ago + jar[b].left <= SESSION_TTL
        /\ signed_in[b].key = env.secret
    BY <2>2 DEF SessionInv
  <2>4. jar[b].left \in Nat /\ signed_in[b].ago \in Nat
    BY ClockAssumption DEF SessionInv, AccessTypeOK
  <2>5. QED
    BY <2>3, <2>4, ClockAssumption DEF LiveSession
<1>3. QED
  BY <1>1, <1>2

\* Requests under way belong to browsers, and only the guard lets one through.
LEMMA ArrivalsAreGuarded ==
  ASSUME SessionInv, DOMAIN flight = Browser, [Next]_vars
  PROVE  /\ DOMAIN flight' = Browser
         /\ \A b \in Browser : flight'[b] \notin {NoPath, flight[b]} => proxy(b, flight'[b]) = "allow"
<1>1. ASSUME NEW b \in Browser, NEW p, Arrive(b, p)
      PROVE  /\ DOMAIN flight' = Browser
             /\ \A c \in Browser : flight'[c] # flight[c] => proxy(c, flight'[c]) = "allow"
  BY <1>1 DEF Arrive
<1>2. ASSUME NEW b \in Browser, Travel(b) \/ Wait(b)
      PROVE  /\ DOMAIN flight' = Browser
             /\ \A c \in Browser : flight'[c] \notin {NoPath, flight[c]} => proxy(c, flight'[c]) = "allow"
  <2>1. CASE OpenPage(b)
    BY <2>1, <1>1 DEF OpenPage
  <2>2. CASE FollowRedirect(b)
    BY <2>2, <1>1 DEF FollowRedirect
  <2>3. CASE SubmitForm(b)
    BY <2>3 DEF SubmitForm, proxy, guard, isPublicPath, NewTripPath, Path
  <2>4. CASE SignInOrOut(b) \/ RenderPage(b) \/ LoseAnswer(b)
    BY <2>4 DEF SignInOrOut, trips_side, RenderPage, LoseAnswer
  <2>5. QED
    BY <1>2, <2>1, <2>2, <2>3, <2>4 DEF Travel, Wait
<1>3. ASSUME NEW n \in Submission, Handle(n)
      PROVE  DOMAIN flight' = Browser /\ \A c \in Browser : flight'[c] \in {NoPath, flight[c]}
  BY <1>3 DEF Handle, POST, Answered, RedirectTo, Respond
<1>4. ASSUME NEW n \in Submission, ServeApi(n) PROVE UNCHANGED flight
  BY <1>4 DEF ServeApi, create_trip_request, create_trip, get_write_connection, ApiFails, Api
<1>5. ASSUME NEW t \in Terminal, Register(t) PROVE UNCHANGED flight
  BY <1>5 DEF Register
<1>6. Clock => UNCHANGED flight
  BY DEF Clock, trips_side
<1>7. Redeploy => flight' = [b \in Browser |-> NoPath]
  BY DEF Redeploy
<1>8. UNCHANGED vars => UNCHANGED flight
  BY DEF vars, trips_side
<1>9. QED
  BY <1>2, <1>3, <1>4, <1>5, <1>6, <1>7, <1>8 DEF Next

\* No clock that is stepped back, no kept cookie, no secret that was rotated lets a request through
\* to a private page: its browser has a live session (proxy.ts, lib/auth/session.ts).
THEOREM PrivatePagesNeedALiveSession == Spec => PrivateNeedsALiveSession
<1>1. Init => SessionInv /\ DOMAIN flight = Browser
  BY InitSessionInv DEF Init
<1>2. SessionInv /\ DOMAIN flight = Browser /\ [Next]_vars => (SessionInv /\ DOMAIN flight = Browser)'
  BY NextSessionInv, ArrivalsAreGuarded
<1>3. SessionInv /\ DOMAIN flight = Browser /\ [Next]_vars =>
        [\A b \in Browser :
           flight'[b] \notin {NoPath, flight[b]} /\ ~isPublicPath(flight'[b]) =>
           \/ env.development /\ env.passphrase = Missing /\ env.secret = Missing
           \/ LiveSession(b)]_vars
  BY ArrivalsAreGuarded, VerifiedIsLive
<1>4. QED
  BY <1>1, <1>2, <1>3, PTL DEF Spec, PrivateNeedsALiveSession

-------------------------------------------------------------------------------
(* Submissions *)

SubmissionRow == [by : Browser \cup {"nobody"}, form : Form \cup {NoForm},
                  web : WebStage, tx : TxStage, answer : ApiAnswer]

\* A refusal is answered only for a transaction that is over, an insert only with its success, and
\* the API is not called before the form's handler is done reading.
Lawful(s) ==
  /\ s.answer = "422" => s.tx = "rolled_back"
  /\ s.tx = "inserted" => s.answer = "ok"
  /\ s.web = "handling" => s.tx = "none"

SubmissionInv ==
  /\ submission \in [Submission -> SubmissionRow]
  /\ \A n \in Submission : Lawful(submission[n])

\* Nothing is recorded for s and nothing will be.
Final(s) == s.tx = "rolled_back" \/ (s.tx = "none" /\ s.web \notin {"unsent", "handling"})

\* What a step may make of s: what is final stays so, and what is recorded stays as it was sent.
Follows(s, t) ==
  /\ t \in SubmissionRow /\ Lawful(t)
  /\ Final(s) => Final(t)
  /\ s.tx = "committed" => t.tx = "committed" /\ t.form = s.form

\* No form was sent.
LEMMA InitSubmissionInv == Init => SubmissionInv
BY DEF Init, SubmissionInv, SubmissionRow, Lawful, Unsent, NoForm, WebStage, TxStage, ApiAnswer

\* A submission that a step leaves alone follows itself.
LEMMA FollowsItself == SubmissionInv => \A n \in Submission : Follows(submission[n], submission[n])
BY DEF SubmissionInv, Follows

\* A step of the API on one submission.
LEMMA ApiFollows ==
  ASSUME SubmissionInv, NEW n \in Submission, NEW stage \in TxStage, NEW status \in ApiAnswer,
         submission' = [submission EXCEPT ![n].tx = stage, ![n].answer = status],
         submission[n].tx \in {"called", "checked"}
           \/ (submission[n].tx = "inserted" /\ status = submission[n].answer),
         status = "422" => stage = "rolled_back",
         stage = "inserted" => status = "ok"
  PROVE  /\ submission' = [m \in Submission |-> submission'[m]]
         /\ \A m \in Submission : Follows(submission[m], submission'[m])
<1>1. submission[n] \in SubmissionRow /\ Lawful(submission[n])
  BY DEF SubmissionInv
<1>2. submission'[n] = [submission[n] EXCEPT !.tx = stage, !.answer = status]
  BY DEF SubmissionInv
<1>3. \A m \in Submission \ {n} : submission'[m] = submission[m]
  BY DEF SubmissionInv
<1>4. /\ submission'[n] \in SubmissionRow
      /\ submission'[n].tx = stage /\ submission'[n].answer = status
      /\ submission'[n].web = submission[n].web /\ submission'[n].form = submission[n].form
  <2>1. PICK u : u = [submission[n] EXCEPT !.tx = stage]
    OBVIOUS
  <2>2. u \in SubmissionRow /\ u.tx = stage /\ u.web = submission[n].web /\ u.form = submission[n].form
    BY <1>1, <2>1 DEF SubmissionRow
  <2>3. PICK t : t = [u EXCEPT !.answer = status]
    OBVIOUS
  <2>4. t \in SubmissionRow /\ t.tx = stage /\ t.answer = status /\ t.web = u.web /\ t.form = u.form
    BY <2>2, <2>3 DEF SubmissionRow
  <2>5. submission'[n] = t
    BY <1>2, <2>1, <2>3
  <2>6. QED
    BY <2>2, <2>4, <2>5
<1>5. Follows(submission[n], submission'[n])
  BY <1>1, <1>4 DEF Follows, Lawful, Final
<1>6. QED
  BY <1>3, <1>5, FollowsItself DEF SubmissionInv

\* The form's handler calls the API, or is done without.
LEMMA HandlerFollows ==
  ASSUME SubmissionInv, NEW n \in Submission, Handle(n)
  PROVE  /\ submission' = [m \in Submission |-> submission'[m]]
         /\ \A m \in Submission : Follows(submission[m], submission'[m])
<1>1. submission[n] \in SubmissionRow /\ Lawful(submission[n])
  BY DEF SubmissionInv
<1>2. CASE /\ submission[n].web \in {"handling", "calling"}
           /\ submission' = [submission EXCEPT ![n].web = "answered"]
  <2>1. submission'[n] = [submission[n] EXCEPT !.web = "answered"]
    BY <1>2 DEF SubmissionInv
  <2>2. /\ submission'[n] \in SubmissionRow
        /\ submission'[n].tx = submission[n].tx /\ submission'[n].answer = submission[n].answer
        /\ submission'[n].web = "answered" /\ submission'[n].form = submission[n].form
    BY <1>1, <2>1 DEF SubmissionRow, WebStage
  <2>3. Follows(submission[n], submission'[n])
    BY <1>1, <2>2 DEF Follows, Lawful, Final
  <2>4. QED
    BY <1>2, <2>3, FollowsItself DEF SubmissionInv
<1>3. CASE /\ submission[n].web = "handling"
           /\ submission' = [submission EXCEPT ![n].web = "calling", ![n].tx = "called"]
  <2>1. submission'[n] = [submission[n] EXCEPT !.web = "calling", !.tx = "called"]
    BY <1>3 DEF SubmissionInv
  <2>2. /\ submission'[n] \in SubmissionRow
        /\ submission'[n].tx = "called" /\ submission'[n].answer = submission[n].answer
        /\ submission'[n].web = "calling" /\ submission'[n].form = submission[n].form
    BY <1>1, <2>1 DEF SubmissionRow, WebStage, TxStage
  <2>3. Follows(submission[n], submission'[n])
    BY <1>1, <1>3, <2>2 DEF Follows, Lawful, Final
  <2>4. QED
    BY <1>3, <2>3, FollowsItself DEF SubmissionInv
<1>4. QED
  BY <1>2, <1>3 DEF Handle, POST, Answered

\* Every step.
LEMMA SubmissionsFollow ==
  ASSUME SubmissionInv, [Next]_vars
  PROVE  SubmissionInv' /\ \A m \in Submission : Follows(submission[m], submission'[m])
<1> DEFINE Good == /\ submission' = [m \in Submission |-> submission'[m]]
                   /\ \A m \in Submission : Follows(submission[m], submission'[m])
<1>1. UNCHANGED submission => Good
  BY FollowsItself DEF SubmissionInv
<1>2. ASSUME Redeploy PROVE Good
  <2>1. ASSUME NEW m \in Submission PROVE Follows(submission[m], submission'[m])
    <3>1. submission[m] \in SubmissionRow /\ Lawful(submission[m])
      BY DEF SubmissionInv
    <3>2. PICK web \in WebStage : /\ submission'[m] = [submission[m] EXCEPT !.web = web]
                                  /\ web \in {submission[m].web, "killed"}
      BY <1>2, <3>1 DEF Redeploy, SubmissionRow, WebStage
    <3>3. /\ submission'[m] \in SubmissionRow
          /\ submission'[m].tx = submission[m].tx /\ submission'[m].answer = submission[m].answer
          /\ submission'[m].web = web /\ submission'[m].form = submission[m].form
      BY <3>1, <3>2 DEF SubmissionRow
    <3>4. QED
      BY <3>1, <3>2, <3>3 DEF Follows, Lawful, Final
  <2>2. QED
    BY <1>2, <2>1 DEF Redeploy
<1>3. ASSUME NEW b \in Browser, SubmitForm(b)
      PROVE  Good
  <2>1. PICK n \in Submission, form \in Form, web \in {"handling", "turned_away"} :
          /\ submission[n] = Unsent
          /\ submission' = [submission EXCEPT ![n] = [Unsent EXCEPT !.by = b, !.form = form, !.web = web]]
    BY <1>3 DEF SubmitForm
  <2>2. submission'[n] = [by |-> b, form |-> form, web |-> web, tx |-> "none", answer |-> "none"]
    BY <2>1 DEF SubmissionInv, Unsent
  <2>3. Follows(submission[n], submission'[n])
    BY <2>1, <2>2 DEF Follows, Lawful, Final, SubmissionRow, WebStage, TxStage, ApiAnswer, Unsent
  <2>4. QED
    BY <2>1, <2>3, FollowsItself DEF SubmissionInv
<1>4. ASSUME NEW n \in Submission, ServeApi(n)
      PROVE  Good
  <2>1. \A m \in Submission : submission[m].answer \in ApiAnswer
    BY DEF SubmissionInv, SubmissionRow
  <2>2. CASE create_trip_request(n)
    BY <2>2, ApiFollows DEF create_trip_request, Api, TxStage, ApiAnswer
  <2>3. CASE create_trip(n)
    BY <2>3, ApiFollows DEF create_trip, Api, TxStage, ApiAnswer
  <2>4. CASE get_write_connection(n)
    BY <2>1, <2>4, ApiFollows DEF get_write_connection, Api, TxStage, SubmissionInv, Lawful
  <2>5. CASE ApiFails(n)
    BY <2>5, ApiFollows DEF ApiFails, Api, TxStage, ApiAnswer
  <2>6. QED
    BY <1>4, <2>2, <2>3, <2>4, <2>5 DEF ServeApi
<1>5. ASSUME NEW b \in Browser, OpenPage(b) \/ SignInOrOut(b) \/ Wait(b) PROVE UNCHANGED submission
  BY <1>5 DEF OpenPage, SignInOrOut, Wait, FollowRedirect, RenderPage, LoseAnswer, Arrive, trips_side
<1>6. Clock \/ (\E t \in Terminal : Register(t)) \/ UNCHANGED vars => UNCHANGED submission
  BY DEF Clock, Register, vars, trips_side
<1>7. Good
  BY <1>1, <1>2, <1>3, <1>4, <1>5, <1>6, HandlerFollows DEF Next, Travel
<1>8. QED
  BY <1>7 DEF Follows, SubmissionInv

-------------------------------------------------------------------------------
(* What pages, redirects and requests under way say *)

\* A path that carries a refusal is about a submission that is over.
PathIsTrue(p) == p.error = "invalid" => p.about \in Submission /\ Final(submission[p.about])

\* So is a page, and a trip on a page is recorded as it was sent.
ViewIsTrue(v) ==
  /\ v.screen = "redirecting" => PathIsTrue(v.to)
  /\ v.screen = "login" => PathIsTrue(v.next)
  /\ v.screen = "plan" /\ v.notice = "invalid" => v.about \in Submission /\ Final(submission[v.about])
  /\ v.screen = "trip" => /\ v.detail.trip \in recorded
                          /\ v.detail.origin = submission[v.detail.trip].form.origin

PagesInv ==
  /\ DOMAIN flight = Browser /\ DOMAIN view = Browser
  /\ \A b \in Browser : PathIsTrue(flight[b]) /\ ViewIsTrue(view[b])

\* What was true of a submission stays true.
LEMMA TrueStaysTrue ==
  ASSUME SubmissionInv, [Next]_vars
  PROVE  /\ \A p : PathIsTrue(p) => PathIsTrue(p)'
         /\ \A v : ViewIsTrue(v) => ViewIsTrue(v)'
<1>1. \A m \in Submission : Follows(submission[m], submission'[m])
  BY SubmissionsFollow
<1>2. \A p : PathIsTrue(p) => PathIsTrue(p)'
  BY <1>1 DEF Follows, PathIsTrue
<1>3. QED
  BY <1>1, <1>2 DEF Follows, ViewIsTrue, recorded

\* The pages of a request that is turned away, the sign-in and the blank page say nothing else.
LEMMA BoundaryPagesAreTrue ==
  ASSUME NEW p, PathIsTrue(p), NEW b \in Browser, NEW failed
  PROVE  /\ ViewIsTrue(TurnedAway(b, p)) /\ ViewIsTrue(LoginPage(p, failed))
         /\ ViewIsTrue(redirectTo(p)) /\ ViewIsTrue(redirectTo(safeNextPath(p)))
         /\ ViewIsTrue(Refused) /\ ViewIsTrue(Blank) /\ ViewIsTrue([screen |-> "sending"])
<1>1. PathIsTrue(safeNextPath(p))
  BY DEF safeNextPath, Home, Path, PathIsTrue
<1>2. \A f : ViewIsTrue(LoginPage(p, f))
  BY <1>1 DEF LoginPage, ViewIsTrue
<1>3. ViewIsTrue(redirectTo(p)) /\ ViewIsTrue(redirectTo(safeNextPath(p)))
  BY <1>1 DEF redirectTo, ViewIsTrue
<1>4. ViewIsTrue(Refused) /\ ViewIsTrue(Blank) /\ ViewIsTrue([screen |-> "sending"])
  BY DEF Refused, Blank, ViewIsTrue
<1>5. QED
  BY <1>2, <1>3, <1>4 DEF TurnedAway

\* Paths that carry no refusal.
LEMMA PlainPathsAreTrue ==
  /\ PathIsTrue(NoPath) /\ PathIsTrue(LoginPath) /\ PathIsTrue(TripsPath)
  /\ \A n : PathIsTrue(TripPath(n)) /\ PathIsTrue(NewTripPath(n)) /\ PathIsTrue(PlanPath("none", n))
            /\ PathIsTrue(PlanPath("unavailable", n))
BY DEF PathIsTrue, NoPath, LoginPath, TripsPath, TripPath, NewTripPath, PlanPath, Path

\* It is enough to look at what changed.
LEMMA PagesStep ==
  ASSUME SubmissionInv, PagesInv, [Next]_vars,
         DOMAIN flight' = Browser, DOMAIN view' = Browser,
         \A b \in Browser : /\ flight'[b] = flight[b] \/ PathIsTrue(flight[b])'
                            /\ view'[b] = view[b] \/ ViewIsTrue(view[b])'
  PROVE  PagesInv'
<1>1. ASSUME NEW b \in Browser, flight'[b] = flight[b] PROVE PathIsTrue(flight[b])'
  <2>1. PICK p : p = flight[b]
    OBVIOUS
  <2>2. PathIsTrue(p)'
    BY <2>1, TrueStaysTrue DEF PagesInv
  <2>3. QED
    BY <1>1, <2>1, <2>2 DEF PathIsTrue
<1>2. ASSUME NEW b \in Browser, view'[b] = view[b] PROVE ViewIsTrue(view[b])'
  <2>1. PICK v : v = view[b]
    OBVIOUS
  <2>2. ViewIsTrue(v)'
    BY <2>1, TrueStaysTrue DEF PagesInv
  <2>3. QED
    BY <1>2, <2>1, <2>2 DEF ViewIsTrue
<1>3. QED
  BY <1>1, <1>2 DEF PagesInv

\* The same, for what is true already before the step.
LEMMA PagesStepNow ==
  ASSUME SubmissionInv, PagesInv, [Next]_vars,
         DOMAIN flight' = Browser, DOMAIN view' = Browser,
         \A b \in Browser : /\ flight'[b] = flight[b] \/ PathIsTrue(flight'[b])
                            /\ view'[b] = view[b] \/ ViewIsTrue(view'[b])
  PROVE  PagesInv'
<1>1. ASSUME NEW b \in Browser, PathIsTrue(flight'[b]) PROVE PathIsTrue(flight[b])'
  <2>1. PICK p : p = flight'[b]
    OBVIOUS
  <2>2. PathIsTrue(p)'
    BY <1>1, <2>1, TrueStaysTrue
  <2>3. QED
    BY <2>1, <2>2 DEF PathIsTrue
<1>2. ASSUME NEW b \in Browser, ViewIsTrue(view'[b]) PROVE ViewIsTrue(view[b])'
  <2>1. PICK v : v = view'[b]
    OBVIOUS
  <2>2. ViewIsTrue(v)'
    BY <1>2, <2>1, TrueStaysTrue
  <2>3. QED
    BY <2>1, <2>2 DEF ViewIsTrue
<1>3. QED
  BY <1>1, <1>2, PagesStep

\* What a page makes of its read: a trip only if it is recorded, a notice only if its path had it.
LEMMA RenderedIsTrue ==
  ASSUME NEW p, PathIsTrue(p), NEW answer \in Faults \cup {"ok"}, NEW result,
         result = callApi(IF answer = "ok" /\ p.page = "/trips/id" THEN get_trip_request(p.about)
                          ELSE answer)
  PROVE  /\ ViewIsTrue(PlanPage(result, p.error, p.about))
         /\ ViewIsTrue(TripsPage(result))
         /\ p.page = "/trips/id" => ViewIsTrue(TripPage(result, p.about))
         /\ ViewIsTrue([screen |-> "method_not_allowed", about |-> p.about])
<1>1. ViewIsTrue(PlanPage(result, p.error, p.about))
  BY DEF PlanPage, NewTripForm, NotConfigured, OurFailure, ViewIsTrue, PathIsTrue
<1>2. ViewIsTrue(TripsPage(result))
  <2>1. \A m : TripsScreen(m).screen \in {"our_failure", "no_trips", "trips"}
    BY DEF TripsScreen, OurFailure
  <2>2. TripsPage(result).screen \in {"not_configured", "our_failure", "no_trips", "trips"}
    BY <2>1 DEF TripsPage, NotConfigured
  <2>3. QED
    BY <2>2 DEF ViewIsTrue
<1>3. ASSUME p.page = "/trips/id" PROVE ViewIsTrue(TripPage(result, p.about))
  <2>1. result = "ok" => p.about \in recorded
    BY <1>3 DEF callApi, get_trip_request, Faults
  <2>2. CASE result = "ok"
    <3>1. /\ TripPage(result, p.about).screen = "trip"
          /\ TripPage(result, p.about).detail = toTripDetailModel(p.about)
      BY <2>2 DEF TripPage
    <3>2. QED
      BY <2>1, <2>2, <3>1 DEF toTripDetailModel, ViewIsTrue
  <2>3. CASE result # "ok"
    <3>1. TripPage(result, p.about).screen \in {"not_found", "not_configured", "our_failure"}
      BY <2>3 DEF TripPage, NotFound, NotConfigured, OurFailure
    <3>2. QED
      BY <3>1 DEF ViewIsTrue
  <2>4. QED
    BY <2>2, <2>3
<1>4. QED
  BY <1>1, <1>2, <1>3 DEF ViewIsTrue

\* A page is opened, by the traveler or by a redirect.
LEMMA ArrivePages ==
  ASSUME SubmissionInv, PagesInv, [Next]_vars, NEW b \in Browser, NEW p, PathIsTrue(p), Arrive(b, p)
  PROVE  PagesInv'
<1>1. PathIsTrue(NoPath)
  BY PlainPathsAreTrue
<1>2. ViewIsTrue(LoginPage(NoPath, FALSE)) /\ ViewIsTrue(TurnedAway(b, p))
  BY <1>1, BoundaryPagesAreTrue
<1>3. /\ flight' = flight \/ flight' = [flight EXCEPT ![b] = p]
      /\ \/ view' = view \/ view' = [view EXCEPT ![b] = LoginPage(NoPath, FALSE)]
         \/ view' = [view EXCEPT ![b] = TurnedAway(b, p)]
  BY DEF Arrive
<1>4. QED
  BY <1>2, <1>3, PagesStepNow DEF PagesInv

\* What browsers do.
LEMMA BrowserPages ==
  ASSUME SubmissionInv, PagesInv, [Next]_vars, NEW b \in Browser, Travel(b) \/ Wait(b)
  PROVE  PagesInv'
<1>1. PathIsTrue(flight[b]) /\ ViewIsTrue(view[b]) /\ PathIsTrue(NoPath)
  BY PlainPathsAreTrue DEF PagesInv
<1>2. CASE OpenPage(b)
  <2>1. PICK p \in Visitable : Arrive(b, p)
    BY <1>2 DEF OpenPage
  <2>2. PathIsTrue(p)
    BY PlainPathsAreTrue DEF Visitable
  <2>3. QED
    BY <2>1, <2>2, ArrivePages
<1>3. CASE FollowRedirect(b)
  BY <1>1, <1>3, ArrivePages DEF FollowRedirect, ViewIsTrue
<1>4. CASE SubmitForm(b)
  <2>1. PICK n \in Submission :
          /\ flight' = [flight EXCEPT ![b] = NoPath] \/ flight' = [flight EXCEPT ![b] = NewTripPath(n)]
          /\ \/ view' = [view EXCEPT ![b] = [screen |-> "sending"]]
             \/ view' = [view EXCEPT ![b] = TurnedAway(b, NewTripPath(n))]
    BY <1>4 DEF SubmitForm
  <2>2. PathIsTrue(NewTripPath(n))
    BY PlainPathsAreTrue
  <2>3. ViewIsTrue(TurnedAway(b, NewTripPath(n))) /\ ViewIsTrue([screen |-> "sending"])
    BY <2>2, BoundaryPagesAreTrue
  <2>4. QED
    BY <1>1, <2>1, <2>2, <2>3, PagesStepNow DEF PagesInv
<1>5. CASE SignInOrOut(b)
  <2>1. UNCHANGED flight
    BY <1>5 DEF SignInOrOut, trips_side
  <2>2. CASE SignIn(b)
    <3>1. PathIsTrue(view[b].next)
      BY <1>1, <2>2 DEF SignIn, ViewIsTrue
    <3>2. /\ ViewIsTrue(Refused) /\ ViewIsTrue(LoginPage(view[b].next, TRUE))
          /\ ViewIsTrue(redirectTo(safeNextPath(view[b].next)))
      BY <3>1, BoundaryPagesAreTrue
    <3>3. \/ view' = [view EXCEPT ![b] = Refused]
          \/ view' = [view EXCEPT ![b] = LoginPage(view[b].next, TRUE)]
          \/ view' = [view EXCEPT ![b] = redirectTo(safeNextPath(view[b].next))]
      BY <2>2 DEF SignIn
    <3>4. QED
      BY <2>1, <3>2, <3>3, PagesStepNow DEF PagesInv
  <2>3. CASE SignOut(b)
    <3>1. ViewIsTrue(LoginPage(NoPath, FALSE))
      BY <1>1, BoundaryPagesAreTrue
    <3>2. QED
      BY <2>1, <2>3, <3>1, PagesStepNow DEF SignOut, PagesInv
  <2>4. QED
    BY <1>5, <2>2, <2>3 DEF SignInOrOut
<1>6. CASE RenderPage(b)
  <2>1. flight' = [flight EXCEPT ![b] = NoPath]
    BY <1>6 DEF RenderPage
  <2> DEFINE Result(answer) == callApi(IF answer = "ok" /\ flight[b].page = "/trips/id"
                                       THEN get_trip_request(flight[b].about) ELSE answer)
  <2>2. PICK answer \in Faults \cup {"ok"} :
          \/ view' = [view EXCEPT ![b] = PlanPage(Result(answer), flight[b].error, flight[b].about)]
          \/ view' = [view EXCEPT ![b] = TripsPage(Result(answer))]
          \/ /\ flight[b].page = "/trips/id"
             /\ view' = [view EXCEPT ![b] = TripPage(Result(answer), flight[b].about)]
          \/ view' = [view EXCEPT ![b] = [screen |-> "method_not_allowed", about |-> flight[b].about]]
    BY <1>6 DEF RenderPage
  <2>3. /\ ViewIsTrue(PlanPage(Result(answer), flight[b].error, flight[b].about))
        /\ ViewIsTrue(TripsPage(Result(answer)))
        /\ flight[b].page = "/trips/id" => ViewIsTrue(TripPage(Result(answer), flight[b].about))
        /\ ViewIsTrue([screen |-> "method_not_allowed", about |-> flight[b].about])
    BY <1>1, <2>2, RenderedIsTrue
  <2>4. QED
    BY <1>1, <2>1, <2>2, <2>3, PagesStepNow DEF PagesInv
<1>7. CASE LoseAnswer(b)
  <2>1. ViewIsTrue(Blank)
    BY DEF Blank, ViewIsTrue
  <2>2. QED
    BY <1>1, <1>7, <2>1, PagesStepNow DEF LoseAnswer, PagesInv
<1>8. QED
  BY <1>2, <1>3, <1>4, <1>5, <1>6, <1>7 DEF Travel, Wait

\* What the form's handler redirects to: "invalid" only if it did not call the API, or was told 422.
LEMMA HandlerPages ==
  ASSUME SubmissionInv, PagesInv, [Next]_vars, NEW n \in Submission, Handle(n)
  PROVE  PagesInv'
<1>1. ASSUME NEW v, Respond(n, v), ViewIsTrue(v)' PROVE PagesInv'
  <2>1. /\ DOMAIN flight' = Browser /\ DOMAIN view' = Browser
        /\ \A b \in Browser : flight'[b] \in {NoPath, flight[b]} /\ view'[b] \in {v, view[b]}
    BY <1>1 DEF Respond, PagesInv
  <2>2. ASSUME NEW b \in Browser, view'[b] = v PROVE ViewIsTrue(view[b])'
    BY <1>1, <2>2 DEF ViewIsTrue
  <2>3. ASSUME NEW b \in Browser, flight'[b] = NoPath PROVE PathIsTrue(flight[b])'
    BY <2>3 DEF PathIsTrue, NoPath, Path
  <2>4. QED
    BY <2>1, <2>2, <2>3, PagesStep
<1>2. ASSUME NEW p, RedirectTo(n, p), PathIsTrue(p)' PROVE PagesInv'
  <2>1. ViewIsTrue(redirectTo(p))'
    BY <1>2 DEF ViewIsTrue, redirectTo
  <2>2. QED
    BY <1>2, <1>1, <2>1 DEF RedirectTo
<1>3. \A p : PathIsTrue(p) => PathIsTrue(p)'
  BY TrueStaysTrue
<1>4. PathIsTrue(PlanPath("unavailable", n))' /\ PathIsTrue(TripPath(n))'
  BY <1>3, PlainPathsAreTrue
<1>5. CASE POST(n)
  <2>1. CASE UNCHANGED <<flight, view>>
    BY <2>1, PagesStep DEF PagesInv
  <2>2. CASE /\ submission' = [submission EXCEPT ![n].web = "answered"]
             /\ RedirectTo(n, PlanPath("invalid", n))
    <3>1. submission[n].tx = "none" /\ submission[n] \in SubmissionRow
      BY <1>5 DEF POST, SubmissionInv, Lawful
    <3>2. submission'[n].tx = "none" /\ submission'[n].web = "answered"
      <4>1. submission'[n] = [submission[n] EXCEPT !.web = "answered"]
        BY <2>2 DEF SubmissionInv
      <4>2. QED
        BY <3>1, <4>1 DEF SubmissionRow
    <3>3. PathIsTrue(PlanPath("invalid", n))'
      BY <3>2 DEF PathIsTrue, PlanPath, Path, Final
    <3>4. QED
      BY <1>2, <2>2, <3>3
  <2>3. CASE RedirectTo(n, PlanPath("unavailable", n))
    BY <1>2, <1>4, <2>3
  <2>4. CASE Respond(n, BadRequest)
    <3>1. ViewIsTrue(BadRequest)'
      BY DEF BadRequest, ViewIsTrue
    <3>2. QED
      BY <1>1, <2>4, <3>1
  <2>5. QED
    BY <1>5, <2>1, <2>2, <2>3, <2>4 DEF POST
<1>6. CASE Answered(n)
  <2>1. PICK answer \in {submission[n].answer, "no_response"} \cup
                        (IF submission[n].answer = "ok" THEN {"unreadable"} ELSE {}) :
          RedirectTo(n, CASE callApi(answer) = "ok" -> TripPath(n)
                          [] callApi(answer) = "invalid" -> PlanPath("invalid", n)
                          [] OTHER -> PlanPath("unavailable", n))
    BY <1>6 DEF Answered
  <2>2. CASE callApi(answer) = "invalid"
    <3>1. submission[n].answer = "422"
      BY <2>1, <2>2 DEF callApi
    <3>2. PathIsTrue(PlanPath("invalid", n))
      BY <3>1 DEF SubmissionInv, Lawful, Final, PathIsTrue, PlanPath, Path
    <3>3. RedirectTo(n, PlanPath("invalid", n))
      BY <2>1, <2>2
    <3>4. QED
      BY <1>2, <1>3, <3>2, <3>3
  <2>3. CASE callApi(answer) # "invalid"
    BY <1>2, <1>4, <2>1, <2>3
  <2>4. QED
    BY <2>2, <2>3
<1>7. QED
  BY <1>5, <1>6 DEF Handle

\* Every step keeps pages true.
LEMMA NextPagesInv == SubmissionInv /\ PagesInv /\ [Next]_vars => PagesInv'
<1> SUFFICES ASSUME SubmissionInv, PagesInv, [Next]_vars PROVE PagesInv'
  OBVIOUS
<1>1. UNCHANGED <<flight, view>> => PagesInv'
  BY PagesStep DEF PagesInv
<1>2. CASE Redeploy
  <2>1. PathIsTrue(NoPath) /\ ViewIsTrue(Blank)
    BY PlainPathsAreTrue DEF Blank, ViewIsTrue
  <2>2. QED
    BY <1>2, <2>1, PagesStepNow DEF Redeploy, PagesInv
<1>3. ASSUME NEW n \in Submission, ServeApi(n) PROVE UNCHANGED <<flight, view>>
  BY <1>3 DEF ServeApi, create_trip_request, create_trip, get_write_connection, ApiFails, Api, access
<1>4. Clock \/ (\E t \in Terminal : Register(t)) \/ UNCHANGED vars => UNCHANGED <<flight, view>>
  BY DEF Clock, Tick, StepBack, Register, vars, access, trips_side
<1>5. QED
  BY <1>1, <1>2, <1>3, <1>4, BrowserPages, HandlerPages DEF Next

\* The empty start.
LEMMA InitPagesInv == Init => PagesInv
BY DEF Init, AccessInit, PagesInv, PathIsTrue, ViewIsTrue, Blank, NoPath, Path

\* Both invariants hold together.
LEMMA PagesAlwaysTrue == Spec => [](SubmissionInv /\ PagesInv)
<1>1. SubmissionInv /\ PagesInv /\ [Next]_vars => (SubmissionInv /\ PagesInv)'
  BY SubmissionsFollow, NextPagesInv
<1>2. QED
  BY <1>1, InitSubmissionInv, InitPagesInv, PTL DEF Spec

\* "That request was not accepted" is final, whatever was lost, posted again, deployed or signed in
\* to on the way from the form to the notice (NewTripForm.tsx ERROR_TEXT, app/trips/new/route.ts).
THEOREM RefusalsAreFinal == Spec => []RefusedRecordsNothing
<1>1. SubmissionInv /\ PagesInv => RefusedRecordsNothing
  BY DEF PagesInv, ViewIsTrue, Final, RefusedRecordsNothing
<1>2. QED
  BY <1>1, PagesAlwaysTrue, PTL

\* A trip on a page is recorded, and stays recorded as its traveler sent it, although the API
\* answers before it commits (api.py get_write_connection, app/trips/[tripId]/page.tsx).
THEOREM ShownTripsAreDurable == Spec => []ShownTripsAreRecorded
<1>1. SubmissionInv /\ PagesInv => ShownTripsAreRecorded
  BY DEF PagesInv, ViewIsTrue, ShownTripsAreRecorded
<1>2. QED
  BY <1>1, PagesAlwaysTrue, PTL

-------------------------------------------------------------------------------
(* Types of pages, and the shelf of trips *)

PrivatePages == {"/", "/trips", "/trips/id", "/trips/new"}
Shelf == {"trips", "no_trips"}

PathTyped(p) == p.page \in PrivatePages /\ p.error \in {"none", "invalid", "unavailable"}

ViewTyped(v) ==
  /\ v.screen = "redirecting" => PathTyped(v.to)
  /\ v.screen = "login" => PathTyped(v.next)
  /\ v.screen = "plan" => /\ v.notice \in {"none", "invalid", "unavailable"}
                          /\ v.offered \in (SUBSET Terminal) \ {{}}

\* What a browser waits for, and shows meanwhile.
BrowserTyped(path, page) ==
  /\ path = NoPath \/ PathTyped(path)
  /\ ViewTyped(page)
  /\ page.screen = "sending" => path.page = "/trips/new"

PagesTyped ==
  /\ DOMAIN flight = Browser /\ DOMAIN view = Browser
  /\ \A b \in Browser : BrowserTyped(flight[b], view[b])
  /\ terminals \subseteq Terminal

\* What a browser was shown is recorded, and the shelf it shows has all of it.
ShelfInv ==
  /\ seen \in [Browser -> SUBSET Submission]
  /\ \A b \in Browser : seen[b] \subseteq recorded
  /\ ShelfKeepsWhatWasShown

\* What a step other than rendering does to a browser: it shows no other shelf.
Moved(b) ==
  /\ BrowserTyped(flight'[b], view'[b])
  /\ view'[b] = view[b] \/ view'[b].screen \notin Shelf

\* The pages at the boundary, and where they lead.
LEMMA BoundaryTyped ==
  ASSUME NEW p, PathTyped(p) \/ p = NoPath, NEW b \in Browser, NEW failed
  PROVE  /\ PathTyped(safeNextPath(p)) /\ ViewTyped(redirectTo(safeNextPath(p)))
         /\ ViewTyped(LoginPage(p, failed)) /\ ViewTyped(TurnedAway(b, p))
         /\ LoginPage(p, failed).screen \in {"login", "sign_in_unavailable"}
         /\ TurnedAway(b, p).screen \in {"login", "sign_in_unavailable", "refused"}
         /\ redirectTo(safeNextPath(p)).screen = "redirecting"
<1>1. PathTyped(safeNextPath(p))
  BY DEF safeNextPath, Home, Path, PathTyped, PrivatePages
<1>2. \A f : /\ ViewTyped(LoginPage(p, f))
             /\ LoginPage(p, f).screen \in {"login", "sign_in_unavailable"}
  BY <1>1 DEF LoginPage, ViewTyped
<1>3. ViewTyped(Refused) /\ Refused.screen = "refused"
  BY DEF Refused, ViewTyped
<1>4. ViewTyped(redirectTo(safeNextPath(p))) /\ redirectTo(safeNextPath(p)).screen = "redirecting"
  BY <1>1 DEF redirectTo, ViewTyped
<1> QED
  BY <1>1, <1>2, <1>3, <1>4 DEF TurnedAway

\* The paths of this site.
LEMMA PathsTyped ==
  /\ PathTyped(TripsPath)
  /\ \A n : /\ PathTyped(TripPath(n)) /\ PathTyped(NewTripPath(n)) /\ PathTyped(PlanPath("none", n))
            /\ PathTyped(PlanPath("invalid", n)) /\ PathTyped(PlanPath("unavailable", n))
            /\ NewTripPath(n).page = "/trips/new"
BY DEF PathTyped, PrivatePages, TripsPath, TripPath, NewTripPath, PlanPath, Path

\* A page is opened.
LEMMA ArriveMoves ==
  ASSUME PagesTyped, NEW b \in Browser, idle(b), NEW p, PathTyped(p) \/ p.page = "/login", Arrive(b, p)
  PROVE  /\ DOMAIN flight' = Browser /\ DOMAIN view' = Browser
         /\ \A c \in Browser : Moved(c)
<1>1. \A c \in Browser : BrowserTyped(flight[c], view[c])
  BY DEF PagesTyped
<1>2. view[b].screen # "sending" /\ flight[b] = NoPath
  <2>1. NoPath.page # "/trips/new"
    BY DEF NoPath, Path
  <2> QED
    BY <1>1, <2>1 DEF idle, BrowserTyped
<1>3. CASE p.page = "/login"
  <2>1. flight' = flight /\ view' = [view EXCEPT ![b] = LoginPage(NoPath, FALSE)]
    BY <1>3 DEF Arrive
  <2>2. /\ ViewTyped(LoginPage(NoPath, FALSE))
        /\ LoginPage(NoPath, FALSE).screen \in {"login", "sign_in_unavailable"}
    BY BoundaryTyped
  <2> QED
    BY <1>1, <2>1, <2>2 DEF PagesTyped, Moved, BrowserTyped, Shelf
<1>4. CASE p.page # "/login" /\ proxy(b, p) = "allow"
  <2>1. flight' = [flight EXCEPT ![b] = p] /\ view' = view
    BY <1>4 DEF Arrive
  <2> QED
    BY <1>1, <1>2, <1>4, <2>1 DEF PagesTyped, Moved, BrowserTyped
<1>5. CASE p.page # "/login" /\ proxy(b, p) # "allow"
  <2>1. flight' = flight /\ view' = [view EXCEPT ![b] = TurnedAway(b, p)]
    BY <1>5 DEF Arrive
  <2>2. /\ ViewTyped(TurnedAway(b, p))
        /\ TurnedAway(b, p).screen \in {"login", "sign_in_unavailable", "refused"}
    BY <1>5, BoundaryTyped
  <2> QED
    BY <1>1, <2>1, <2>2 DEF PagesTyped, Moved, BrowserTyped, Shelf
<1> QED
  BY <1>3, <1>4, <1>5

\* What a browser does, other than rendering.
LEMMA BrowserMoves ==
  ASSUME PagesTyped, NEW b \in Browser, Travel(b) \/ FollowRedirect(b) \/ LoseAnswer(b)
  PROVE  /\ DOMAIN flight' = Browser /\ DOMAIN view' = Browser
         /\ \A c \in Browser : Moved(c)
<1>1. \A c \in Browser : BrowserTyped(flight[c], view[c])
  BY DEF PagesTyped
<1>2. CASE OpenPage(b)
  <2>1. PICK p \in Visitable : Arrive(b, p)
    BY <1>2 DEF OpenPage
  <2>2. PathTyped(p) \/ p.page = "/login"
    BY PathsTyped DEF Visitable, LoginPath, Path
  <2> QED
    BY <1>2, <2>1, <2>2, ArriveMoves DEF OpenPage
<1>3. CASE FollowRedirect(b)
  BY <1>1, <1>3, ArriveMoves DEF FollowRedirect, BrowserTyped, ViewTyped
<1>4. CASE LoseAnswer(b)
  <2>1. ViewTyped(Blank) /\ Blank.screen = "blank"
    BY DEF Blank, ViewTyped
  <2> QED
    BY <1>1, <1>4, <2>1 DEF LoseAnswer, PagesTyped, Moved, BrowserTyped, Shelf
<1>5. CASE SubmitForm(b)
  <2>1. PICK n \in Submission :
          \/ /\ flight' = [flight EXCEPT ![b] = NewTripPath(n)]
             /\ view' = [view EXCEPT ![b] = [screen |-> "sending"]]
          \/ /\ flight' = [flight EXCEPT ![b] = NoPath]
             /\ view' = [view EXCEPT ![b] = TurnedAway(b, NewTripPath(n))]
    BY <1>5 DEF SubmitForm
  <2>2. PathTyped(NewTripPath(n)) /\ NewTripPath(n).page = "/trips/new"
    BY PathsTyped
  <2>3. /\ ViewTyped(TurnedAway(b, NewTripPath(n)))
        /\ TurnedAway(b, NewTripPath(n)).screen \in {"login", "sign_in_unavailable", "refused"}
    BY <2>2, BoundaryTyped
  <2>4. ViewTyped([screen |-> "sending"])
    BY DEF ViewTyped
  <2> QED
    BY <1>1, <2>1, <2>2, <2>3, <2>4 DEF PagesTyped, Moved, BrowserTyped, Shelf
<1>6. CASE SignInOrOut(b)
  <2>1. flight' = flight
    BY <1>6 DEF SignInOrOut, trips_side
  <2>2. CASE SignIn(b)
    <3> DEFINE next == view[b].next
    <3>1. PathTyped(next)
      BY <1>1, <2>2 DEF SignIn, BrowserTyped, ViewTyped
    <3>2. /\ ViewTyped(LoginPage(next, TRUE)) /\ ViewTyped(redirectTo(safeNextPath(next)))
          /\ LoginPage(next, TRUE).screen \in {"login", "sign_in_unavailable"}
          /\ redirectTo(safeNextPath(next)).screen = "redirecting"
          /\ ViewTyped(Refused) /\ Refused.screen = "refused"
      BY <3>1, BoundaryTyped DEF Refused, ViewTyped
    <3>3. \/ view' = [view EXCEPT ![b] = Refused]
          \/ view' = [view EXCEPT ![b] = LoginPage(next, TRUE)]
          \/ view' = [view EXCEPT ![b] = redirectTo(safeNextPath(next))]
      BY <2>2 DEF SignIn
    <3> HIDE DEF next
    <3> QED
      BY <1>1, <2>1, <3>2, <3>3 DEF PagesTyped, Moved, BrowserTyped, Shelf
  <2>3. CASE SignOut(b)
    <3>1. /\ ViewTyped(LoginPage(NoPath, FALSE))
          /\ LoginPage(NoPath, FALSE).screen \in {"login", "sign_in_unavailable"}
      BY BoundaryTyped
    <3>2. view' = [view EXCEPT ![b] = LoginPage(NoPath, FALSE)]
      BY <2>3 DEF SignOut
    <3> QED
      BY <1>1, <2>1, <3>1, <3>2 DEF PagesTyped, Moved, BrowserTyped, Shelf
  <2> QED
    BY <1>6, <2>2, <2>3 DEF SignInOrOut
<1> QED
  BY <1>2, <1>3, <1>4, <1>5, <1>6 DEF Travel

\* What the server and the operator do to browsers.
LEMMA ServerMoves ==
  ASSUME PagesTyped, Redeploy \/ \E n \in Submission : Handle(n)
  PROVE  /\ DOMAIN flight' = Browser /\ DOMAIN view' = Browser
         /\ \A c \in Browser : Moved(c)
<1>1. \A c \in Browser : BrowserTyped(flight[c], view[c])
  BY DEF PagesTyped
<1>2. CASE Redeploy
  <2>1. ViewTyped(Blank) /\ Blank.screen = "blank"
    BY DEF Blank, ViewTyped
  <2>2. \A c \in Browser : idle(c) => view[c].screen # "sending"
    BY <1>1 DEF idle, BrowserTyped, NoPath, Path
  <2> QED
    BY <1>1, <1>2, <2>1, <2>2 DEF Redeploy, PagesTyped, Moved, BrowserTyped, Shelf
<1>3. ASSUME NEW n \in Submission, Handle(n)
      PROVE  /\ DOMAIN flight' = Browser /\ DOMAIN view' = Browser
             /\ \A c \in Browser : Moved(c)
  <2>1. ASSUME NEW v, Respond(n, v), ViewTyped(v), v.screen \notin Shelf \cup {"sending"}
        PROVE  /\ DOMAIN flight' = Browser /\ DOMAIN view' = Browser
               /\ \A c \in Browser : Moved(c)
    <3>1. /\ DOMAIN flight' = Browser /\ DOMAIN view' = Browser
          /\ \A c \in Browser : \/ flight'[c] = flight[c] /\ view'[c] = view[c]
                                \/ flight'[c] = NoPath /\ view'[c] = v
      BY <2>1 DEF Respond, PagesTyped
    <3> QED
      BY <1>1, <2>1, <3>1 DEF Moved, BrowserTyped
  <2>2. ASSUME NEW p, RedirectTo(n, p), PathTyped(p)
        PROVE  /\ DOMAIN flight' = Browser /\ DOMAIN view' = Browser
               /\ \A c \in Browser : Moved(c)
    <3>1. ViewTyped(redirectTo(p)) /\ redirectTo(p).screen \notin Shelf \cup {"sending"}
      BY <2>2 DEF redirectTo, ViewTyped, Shelf
    <3> QED
      BY <2>1, <2>2, <3>1 DEF RedirectTo
  <2>3. CASE UNCHANGED <<flight, view>>
    BY <1>1, <2>3 DEF PagesTyped, Moved
  <2>4. CASE Respond(n, BadRequest)
    <3>1. ViewTyped(BadRequest) /\ BadRequest.screen \notin Shelf \cup {"sending"}
      BY DEF BadRequest, ViewTyped, Shelf
    <3> QED
      BY <2>1, <2>4, <3>1
  <2>5. CASE \E p \in {PlanPath("invalid", n), PlanPath("unavailable", n), TripPath(n)} :
               RedirectTo(n, p)
    BY <2>2, <2>5, PathsTyped
  <2>6. POST(n) => \/ UNCHANGED <<flight, view>> \/ Respond(n, BadRequest)
                   \/ \E p \in {PlanPath("invalid", n), PlanPath("unavailable", n), TripPath(n)} :
                        RedirectTo(n, p)
    BY DEF POST
  <2>7. Answered(n) => \E p \in {PlanPath("invalid", n), PlanPath("unavailable", n), TripPath(n)} :
                         RedirectTo(n, p)
    BY DEF Answered
  <2> QED
    BY <1>3, <2>3, <2>4, <2>5, <2>6, <2>7 DEF Handle
<1> QED
  BY <1>2, <1>3

\* What a page makes of its one read: a form offers registered terminals, a shelf is all that is
\* recorded, and a trip is one of those.
LEMMA RenderedPage ==
  ASSUME PagesTyped, NEW p, PathTyped(p), NEW answer \in Faults \cup {"ok"}, NEW result,
         result = callApi(IF answer = "ok" /\ p.page = "/trips/id" THEN get_trip_request(p.about)
                          ELSE answer),
         NEW shown,
         shown = CASE p.page = "/" -> PlanPage(result, p.error, p.about)
                   [] p.page = "/trips" -> TripsPage(result)
                   [] p.page = "/trips/id" -> TripPage(result, p.about)
                   [] OTHER -> [screen |-> "method_not_allowed", about |-> p.about]
  PROVE  /\ ViewTyped(shown) /\ shown.screen # "sending"
         /\ shown.screen = "trip" => p.about \in recorded
         /\ shown.screen = "trips" => recorded \subseteq { card.trip : card \in shown.cards }
         /\ shown.screen = "no_trips" => recorded = {}
<1>1. CASE p.page = "/"
  <2>1. shown = PlanPage(result, p.error, p.about)
    BY <1>1
  <2>2. CASE result = "ok" /\ terminals # {}
    <3>1. shown = [screen |-> "plan", offered |-> terminals, notice |-> p.error, about |-> p.about]
      BY <2>1, <2>2 DEF PlanPage, NewTripForm
    <3> QED
      <4>1. terminals \in (SUBSET Terminal) \ {{}}
        BY <2>2 DEF PagesTyped
      <4>2. p.error \in {"none", "invalid", "unavailable"}
        BY DEF PathTyped
      <4>3. shown.screen = "plan" /\ shown.offered = terminals /\ shown.notice = p.error
        BY <3>1
      <4> QED
        BY <4>1, <4>2, <4>3 DEF ViewTyped
  <2>3. CASE ~(result = "ok" /\ terminals # {})
    <3>1. shown.screen \in {"not_configured", "no_terminals", "our_failure"}
      BY <2>1, <2>3 DEF PlanPage, NotConfigured, OurFailure
    <3> QED
      BY <3>1 DEF ViewTyped
  <2> QED
    BY <2>2, <2>3
<1>2. CASE p.page = "/trips"
  <2>1. shown = TripsPage(result)
    BY <1>2
  <2>2. CASE result = "ok" /\ recorded # {}
    <3>1. shown = [screen |-> "trips", cards |-> { toTripCardView(n) : n \in recorded }]
      BY <2>1, <2>2 DEF TripsPage, TripsScreen, toTripsScreenModel
    <3>2. \A n \in recorded : toTripCardView(n).trip = n
      BY DEF toTripCardView
    <3>3. recorded \subseteq { card.trip : card \in shown.cards }
      <4> SUFFICES ASSUME NEW n \in recorded PROVE n \in { card.trip : card \in shown.cards }
        OBVIOUS
      <4>1. toTripCardView(n) \in shown.cards /\ toTripCardView(n).trip = n
        BY <3>1, <3>2
      <4> QED
        BY <4>1
    <3> QED
      BY <3>1, <3>3 DEF ViewTyped
  <2>3. CASE result = "ok" /\ recorded = {}
    <3>1. shown = [screen |-> "no_trips"]
      BY <2>1, <2>3 DEF TripsPage, TripsScreen, emptyTrips
    <3> QED
      BY <2>3, <3>1 DEF ViewTyped
  <2>4. CASE result # "ok"
    <3>1. shown.screen \in {"not_configured", "our_failure"}
      BY <2>1, <2>4 DEF TripsPage, TripsScreen, emptyTrips, NotConfigured, OurFailure
    <3> QED
      BY <3>1 DEF ViewTyped
  <2> QED
    BY <2>2, <2>3, <2>4
<1>3. CASE p.page = "/trips/id"
  <2>1. shown = TripPage(result, p.about)
    BY <1>3
  <2>2. result = "ok" => p.about \in recorded
    BY <1>3 DEF callApi, get_trip_request, Faults
  <2>3. shown.screen \in {"trip", "not_found", "not_configured", "our_failure"}
    BY <2>1 DEF TripPage, NotFound, NotConfigured, OurFailure
  <2>4. shown.screen = "trip" => result = "ok"
    BY <2>1 DEF TripPage, NotFound, NotConfigured, OurFailure
  <2> QED
    BY <2>2, <2>3, <2>4 DEF ViewTyped
<1>4. CASE p.page = "/trips/new"
  <2>1. shown = [screen |-> "method_not_allowed", about |-> p.about]
    BY <1>4
  <2> QED
    BY <2>1 DEF ViewTyped
<1> QED
  BY <1>1, <1>2, <1>3, <1>4 DEF PathTyped, PrivatePages

LEMMA RenderKeeps ==
  ASSUME SubmissionInv, PagesTyped, ShelfInv, NEW b \in Browser, RenderPage(b)
  PROVE  PagesTyped' /\ ShelfInv'
<1>1. \A c \in Browser : BrowserTyped(flight[c], view[c])
  BY DEF PagesTyped
<1>2. PathTyped(flight[b])
  BY <1>1 DEF RenderPage, idle, BrowserTyped
<1>3. PICK shown :
        /\ ViewTyped(shown) /\ shown.screen # "sending"
        /\ shown.screen = "trip" => flight[b].about \in recorded
        /\ shown.screen = "trips" => recorded \subseteq { card.trip : card \in shown.cards }
        /\ shown.screen = "no_trips" => recorded = {}
        /\ view' = [view EXCEPT ![b] = shown]
        /\ seen' = [seen EXCEPT ![b] = IF shown.screen = "trip" THEN @ \cup {flight[b].about} ELSE @]
  <2> DEFINE p == flight[b]
             Result(answer) == callApi(IF answer = "ok" /\ p.page = "/trips/id"
                                       THEN get_trip_request(p.about) ELSE answer)
             Shown(answer) == CASE p.page = "/" -> PlanPage(Result(answer), p.error, p.about)
                                [] p.page = "/trips" -> TripsPage(Result(answer))
                                [] p.page = "/trips/id" -> TripPage(Result(answer), p.about)
                                [] OTHER -> [screen |-> "method_not_allowed", about |-> p.about]
  <2>1. PICK answer \in Faults \cup {"ok"} :
          /\ view' = [view EXCEPT ![b] = Shown(answer)]
          /\ seen' = [seen EXCEPT ![b] = IF Shown(answer).screen = "trip" THEN @ \cup {p.about} ELSE @]
    BY Zenon DEF RenderPage
  <2>2. PICK result : result = Result(answer)
    OBVIOUS
  <2>3. PICK shown : shown = Shown(answer)
    OBVIOUS
  <2>4. /\ ViewTyped(shown) /\ shown.screen # "sending"
        /\ shown.screen = "trip" => p.about \in recorded
        /\ shown.screen = "trips" => recorded \subseteq { card.trip : card \in shown.cards }
        /\ shown.screen = "no_trips" => recorded = {}
    BY <1>2, <2>2, <2>3, RenderedPage
  <2>5. /\ view' = [view EXCEPT ![b] = shown]
        /\ seen' = [seen EXCEPT ![b] = IF shown.screen = "trip" THEN @ \cup {p.about} ELSE @]
    BY <2>1, <2>3, Zenon
  <2> HIDE DEF Shown, Result
  <2> QED
    BY <2>4, <2>5, Zenon
<1>4. flight' = [flight EXCEPT ![b] = NoPath] /\ UNCHANGED <<submission, terminals>>
  BY DEF RenderPage
<1>5. recorded' = recorded /\ recorded \subseteq Submission
  BY <1>4 DEF recorded
<1>6. PagesTyped'
  BY <1>1, <1>3, <1>4 DEF PagesTyped, BrowserTyped
<1>7. seen' \in [Browser -> SUBSET Submission] /\ \A c \in Browser : seen'[c] \subseteq recorded'
  BY <1>3, <1>5 DEF ShelfInv
<1>8. \A c \in Browser \ {b} : view'[c] = view[c] /\ seen'[c] = seen[c]
  BY <1>3 DEF PagesTyped, ShelfInv
<1>9. view'[b] = shown /\ (shown.screen # "trip" => seen'[b] = seen[b])
  BY <1>3 DEF PagesTyped, ShelfInv
<1>10. ShelfKeepsWhatWasShown'
  BY <1>3, <1>5, <1>8, <1>9 DEF ShelfInv, ShelfKeepsWhatWasShown
<1> QED
  BY <1>6, <1>7, <1>10 DEF ShelfInv

\* Every other step: what was recorded stays, and no other shelf is shown.
LEMMA MovesKeep ==
  ASSUME SubmissionInv, PagesTyped, ShelfInv, [Next]_vars, UNCHANGED seen, terminals' \subseteq Terminal,
         DOMAIN flight' = Browser, DOMAIN view' = Browser, \A b \in Browser : Moved(b)
  PROVE  PagesTyped' /\ ShelfInv'
<1>1. recorded \subseteq recorded'
  BY SubmissionsFollow DEF recorded, Follows
<1>2. PagesTyped'
  BY DEF PagesTyped, Moved
<1>3. ShelfKeepsWhatWasShown'
  BY DEF Moved, Shelf, ShelfInv, ShelfKeepsWhatWasShown
<1> QED
  BY <1>1, <1>2, <1>3 DEF ShelfInv

LEMMA NextShelfInv ==
  ASSUME SubmissionInv, PagesTyped, ShelfInv, [Next]_vars
  PROVE  PagesTyped' /\ ShelfInv'
<1>1. CASE UNCHANGED <<flight, view, seen>> /\ terminals' \subseteq Terminal
  BY <1>1, MovesKeep DEF PagesTyped, Moved
<1>2. ASSUME NEW b \in Browser, Travel(b) \/ FollowRedirect(b) \/ LoseAnswer(b)
      PROVE  PagesTyped' /\ ShelfInv'
  <2>1. UNCHANGED <<seen, terminals>>
    BY <1>2 DEF Travel, OpenPage, SubmitForm, SignInOrOut, FollowRedirect, LoseAnswer, Arrive, trips_side
  <2> QED
    BY <1>2, <2>1, BrowserMoves, MovesKeep DEF PagesTyped
<1>3. CASE Redeploy \/ \E n \in Submission : Handle(n)
  <2>1. UNCHANGED <<seen, terminals>>
    BY <1>3 DEF Redeploy, Handle, POST, Answered
  <2> QED
    BY <1>3, <2>1, ServerMoves, MovesKeep DEF PagesTyped
<1>4. ASSUME NEW n \in Submission, ServeApi(n) PROVE UNCHANGED <<flight, view, seen, terminals>>
  BY <1>4 DEF ServeApi, create_trip_request, create_trip, get_write_connection, ApiFails, Api, access
<1>5. ASSUME NEW t \in Terminal, Register(t)
      PROVE  UNCHANGED <<flight, view, seen>> /\ terminals' \subseteq Terminal
  BY <1>5 DEF Register, access, PagesTyped
<1>6. Clock \/ UNCHANGED vars => UNCHANGED <<flight, view, seen, terminals>>
  BY DEF Clock, Tick, StepBack, vars, access, trips_side
<1>7. terminals \subseteq Terminal
  BY DEF PagesTyped
<1> QED
  BY <1>1, <1>2, <1>3, <1>4, <1>5, <1>6, <1>7, RenderKeeps DEF Next, Wait

\* The empty start.
LEMMA InitShelfInv == Init => PagesTyped /\ ShelfInv
BY DEF Init, AccessInit, PagesTyped, ShelfInv, BrowserTyped, ViewTyped, ShelfKeepsWhatWasShown,
       Blank, NoPath, Path

\* All invariants about types and shelves hold together.
LEMMA ShelvesHold == Spec => [](SessionInv /\ SubmissionInv /\ PagesTyped /\ ShelfInv)
<1>1. SessionInv /\ SubmissionInv /\ PagesTyped /\ ShelfInv /\ [Next]_vars
        => (SessionInv /\ SubmissionInv /\ PagesTyped /\ ShelfInv)'
  BY NextSessionInv, SubmissionsFollow, NextShelfInv
<1> QED
  BY <1>1, InitSessionInv, InitSubmissionInv, InitShelfInv, PTL DEF Spec

\* Types of sessions, forms, transactions and pages; a browser that is sending a form waits for its
\* handler, and a form always offers a terminal.
THEOREM TypeCorrect == Spec => []TypeOK
<1>1. ASSUME SessionInv, SubmissionInv, PagesTyped, ShelfInv PROVE TypeOK
  <2>1. \A b \in Browser :
          /\ flight[b] = NoPath \/ flight[b].page \in PrivatePages
          /\ view[b].screen = "sending" => flight[b].page = "/trips/new"
          /\ view[b].screen = "plan" => /\ view[b].notice \in {"none", "invalid", "unavailable"}
                                        /\ view[b].offered \in (SUBSET Terminal) \ {{}}
    BY <1>1 DEF PagesTyped, BrowserTyped, PathTyped, ViewTyped
  <2> QED
    BY <1>1, <2>1 DEF TypeOK, SessionInv, SubmissionInv, SubmissionRow, PagesTyped, ShelfInv, PrivatePages
<1> QED
  BY <1>1, ShelvesHold, PTL

\* No trip that a browser was shown is missing from a list it is shown later, and no failed read
\* is told as "no trips" (app/trips/page.tsx).
THEOREM ShelvesAreComplete == Spec => []ShelfKeepsWhatWasShown
<1>1. ShelfInv => ShelfKeepsWhatWasShown
  BY DEF ShelfInv
<1> QED
  BY <1>1, ShelvesHold, PTL
===============================================================================
