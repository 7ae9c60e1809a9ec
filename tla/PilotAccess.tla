------------------------------ MODULE PilotAccess ------------------------------
(***************************************************************************)
(* Who may see the pilot: the sign-in of one person, a session that is     *)
(* nothing but a signed time in a cookie, and the guard in front of every  *)
(* private path (ADR-005).  Two clocks matter, the server's, which dates   *)
(* and judges sessions and may be stepped back, and the browser's, which   *)
(* drops the cookie; so do deployments that change the secrets.            *)
(*                                                                         *)
(* Sources: apps/web/lib/auth, proxy.ts, app/auth, app/login.  Requests    *)
(* that were let through, and what they do, are TripRequests' matter.      *)
(***************************************************************************)
EXTENDS Integers

CONSTANTS
  Browser,          \* cookie jars; each shows one page at a time
  Passphrase,       \* passphrases that are long enough
  Secret,           \* session secrets that are long enough
  Missing, TooShort,\* a setting that is unset or empty; one below its minimal length
  Environments,     \* the environments the operator may deploy the web application with
  SESSION_TTL,      \* SESSION_TTL_MS, in ticks
  ClockMayStepBack, \* whether the server's clock may be corrected backwards
  MaxTime           \* bound on the server's clock

\* process.env, as far as the web application reads it; api: URL and token of the API are set.
Environment == [development : BOOLEAN, passphrase : Passphrase \cup {Missing, TooShort},
                secret : Secret \cup {Missing, TooShort}, api : BOOLEAN]

ASSUME EnvironmentAssumption == Environments \subseteq Environment
ASSUME SettingAssumption == {Missing, TooShort} \cap (Passphrase \cup Secret) = {}
ASSUME ClockAssumption == SESSION_TTL \in Nat \ {0} /\ MaxTime \in Nat /\ ClockMayStepBack \in BOOLEAN

VARIABLES
  now,       \* the web server's clock
  env,       \* the environment of the running deployment
  jar,       \* Browser -> the session cookie and how long the browser will still keep it
  view,      \* Browser -> what it shows, or the redirect it is about to follow
  signed_in  \* history, for properties: the last accepted sign-in whose cookie was not cleared

access == <<now, env, jar, view, signed_in>>

Time == 0..MaxTime
NoToken == [issued |-> -1, key |-> Missing]
Token == [issued : Time, key : Secret]
EmptyJar == [token |-> NoToken, left |-> 0]
Never == [ago |-> SESSION_TTL + 1, key |-> Missing]

-------------------------------------------------------------------------------
(* Configuration and sessions *)

accessConfig(e) ==
  CASE {e.passphrase, e.secret} = {Missing} /\ e.development -> "development_open"
    [] {Missing, TooShort} \cap {e.passphrase, e.secret} = {} -> "configured"
    [] OTHER -> "misconfigured"

issueSession(secret, at) == [issued |-> at, key |-> secret]

\* The signature: only a token made with this secret has it.
signed_with(secret, token) == token.key = secret

verifySession(secret, token, at) ==
  /\ token # NoToken
  /\ signed_with(secret, token)
  /\ at - token.issued \in 0..SESSION_TTL

-------------------------------------------------------------------------------
(* The boundary *)

\* A path with what its query carries: the error code of the last form, and which form it was.
Path(page, error, about) == [page |-> page, error |-> error, about |-> about]
Home == Path("/", "none", 0)
LoginPath == Path("/login", "none", 0)
NoPath == Path("none", "none", 0)

isPublicPath(p) == p.page \in {"/login", "/auth/session", "/auth/logout"}

\* Candidates are paths of this site; none at all is the other case that occurs.
safeNextPath(candidate) == IF candidate = NoPath THEN Home ELSE candidate

guard(p, token, e, at) ==
  IF isPublicPath(p) THEN "allow"
  ELSE CASE accessConfig(e) = "development_open" -> "allow"
         [] accessConfig(e) = "misconfigured" -> "refuse"
         [] OTHER -> IF verifySession(e.secret, token, at) THEN "allow" ELSE "login"

redirectTo(p) == [screen |-> "redirecting", to |-> p]
Blank == [screen |-> "blank"]            \* nothing yet, or the browser's own network error page
Refused == [screen |-> "refused"]        \* 503

LoginPage(next, failed) ==
  IF accessConfig(env) = "configured"
  THEN [screen |-> "login", next |-> safeNextPath(next), failed |-> failed]
  ELSE [screen |-> "sign_in_unavailable"]

\* The decision for a request that browser b sends now, with the cookie it still keeps.
proxy(b, p) == guard(p, jar[b].token, env, now)

\* What the browser ends up with when it is not let through.  The redirect to /login keeps the
\* method (307): a form is posted to the login page, which ignores it, and only the path is kept.
TurnedAway(b, p) ==
  IF proxy(b, p) = "refuse" THEN Refused ELSE LoginPage(p, FALSE)

-------------------------------------------------------------------------------
(* Actions *)

AccessInit ==
  /\ now = 0
  /\ env \in Environments
  /\ jar = [b \in Browser |-> EmptyJar]
  /\ view = [b \in Browser |-> Blank]
  /\ signed_in = [b \in Browser |-> Never]

\* Defect: the cookie is set without maxAge, so the browser never drops it.
Kept_for_ever(kept) == kept

\* The browser's side of maxAge: a tick brings every cookie closer to its end.
Kept(kept) ==
  IF kept.left <= 1 THEN EmptyJar ELSE [kept EXCEPT !.left = @ - 1]

Tick ==
  /\ now < MaxTime
  /\ now' = now + 1
  /\ jar' = [b \in Browser |-> Kept(jar[b])]
  /\ signed_in' = [b \in Browser |->
                     IF signed_in[b].ago > SESSION_TTL THEN Never
                     ELSE [signed_in[b] EXCEPT !.ago = @ + 1]]
  /\ UNCHANGED <<env, view>>

\* The server's clock is corrected; no time passes for the browser.
StepBack ==
  /\ ClockMayStepBack
  /\ \E t \in Time : t < now /\ now' = t
  /\ UNCHANGED <<env, jar, view, signed_in>>

\* POST /auth/session.
SignIn(b) ==
  /\ view[b].screen = "login"
  /\ \E passphrase \in Passphrase :
       \/ /\ accessConfig(env) # "configured"
          /\ view' = [view EXCEPT ![b] = Refused]
          /\ UNCHANGED <<jar, signed_in>>
       \/ /\ accessConfig(env) = "configured" /\ passphrase # env.passphrase
          /\ view' = [view EXCEPT ![b] = LoginPage(view[b].next, TRUE)]
          /\ UNCHANGED <<jar, signed_in>>
       \/ /\ accessConfig(env) = "configured" /\ passphrase = env.passphrase
          /\ view' = [view EXCEPT ![b] = redirectTo(safeNextPath(view[b].next))]
          /\ jar' = [jar EXCEPT ![b] = [token |-> issueSession(env.secret, now), left |-> SESSION_TTL]]
          /\ signed_in' = [signed_in EXCEPT ![b] = [ago |-> 0, key |-> env.secret]]
  /\ UNCHANGED <<now, env>>

\* POST /auth/logout clears this browser's cookie and keeps no record of the token.
SignOut(b) ==
  /\ jar[b] # EmptyJar
  /\ jar' = [jar EXCEPT ![b] = EmptyJar]
  /\ signed_in' = [signed_in EXCEPT ![b] = Never]
  /\ view' = [view EXCEPT ![b] = LoginPage(NoPath, FALSE)]
  /\ UNCHANGED <<now, env>>

AccessTypeOK ==
  /\ now \in Time
  /\ env \in Environments
  /\ jar \in [Browser -> [token : Token \cup {NoToken}, left : 0..SESSION_TTL]]
  /\ signed_in \in [Browser -> [ago : 0..SESSION_TTL + 1, key : Secret \cup {Missing}]]

\* A session of the running deployment that this browser signed in to no longer ago than the
\* session's life, by a clock nobody steps back.
LiveSession(b) == signed_in[b].ago <= SESSION_TTL /\ signed_in[b].key = env.secret
===============================================================================
