----------------------------- MODULE TripRequests -----------------------------
(***************************************************************************)
(* A trip request from the form in the browser to the row in the database, *)
(* and back to the pages that show it.  Between them stand the guard, the  *)
(* form's route handler, the API's handler and its transaction, and every  *)
(* answer on the way can get lost while what it answers goes on.  The API  *)
(* commits when its dependency ends, which is after the answer was sent.   *)
(*                                                                         *)
(* Sources: apps/web/app (page.tsx, trips), components/screens, lib/api,   *)
(* lib/presentation/adapters; apps/api/paxpivot/api.py (create_trip),      *)
(* application/trip_service.py.  Every way in goes through PilotAccess.    *)
(***************************************************************************)
EXTENDS PilotAccess

CONSTANTS
  Terminal,         \* terminals that may be registered
  Curated,          \* those whose name CURATED_ORIGIN_AIRPORTS knows
  MaxSubmissions    \* bound on forms sent

ASSUME TerminalAssumption == Curated \subseteq Terminal /\ MaxSubmissions \in Nat

VARIABLES
  flight,     \* Browser -> the private path it waits for, let through the guard
  submission, \* forms sent so far: who sent what, what the web handler and the API made of it
  terminals,  \* registered terminals
  seen        \* history, for properties: Browser -> trips it was shown as recorded

trips_side == <<flight, submission, terminals, seen>>
vars == <<access, trips_side>>

Submission == 1..MaxSubmissions     \* a submission's number is also the id of the trip it makes
Form == [origin : Terminal, fault : {"none", "incomplete", "unacceptable"}]
NoForm == [origin |-> "none", fault |-> "none"]
Unsent == [by |-> "nobody", form |-> NoForm, web |-> "unsent", tx |-> "none", answer |-> "none"]

WebStage == {"unsent", "turned_away", "handling", "calling", "answered", "killed"}
TxStage == {"none", "called", "checked", "inserted", "committed", "rolled_back"}
\* What the web application's fetch ends with: nothing, a status, or a body it cannot read.
ApiAnswer == {"none", "ok", "401", "404", "422", "5xx", "unreadable", "no_response"}
Faults == {"401", "5xx", "unreadable", "no_response"}

recorded == { n \in Submission : submission[n].tx = "committed" }

PlanPath(error, n) == Path("/", error, n)
TripsPath == Path("/trips", "none", 0)
TripPath(n) == Path("/trips/id", "none", n)
NewTripPath(n) == Path("/trips/new", "none", n)

-------------------------------------------------------------------------------
(* The API client: every outcome is explicit *)

\* Defect: a body that cannot be read is taken for a refusal.
callApi_unreadable_is_invalid(answer) ==
  CASE ~env.api -> "not_configured"
    [] answer = "401" -> "unauthorized"
    [] answer = "404" -> "not_found"
    [] answer \in {"422", "unreadable"} -> "invalid"
    [] answer = "ok" -> "ok"
    [] OTHER -> "unavailable"

callApi(answer) ==
  CASE ~env.api -> "not_configured"
    [] answer = "401" -> "unauthorized"
    [] answer = "404" -> "not_found"
    [] answer = "422" -> "invalid"
    [] answer = "ok" -> "ok"
    [] OTHER -> "unavailable"

-------------------------------------------------------------------------------
(* Pages: what is shown for what callApi returned *)

NotConfigured == [screen |-> "not_configured"]
OurFailure == [screen |-> "our_failure"]
NotFound == [screen |-> "not_found"]

\* ERROR_TEXT has a line for two codes; the form offers the terminals registered when it is made.
NewTripForm(offered, error, n) ==
  [screen |-> "plan", offered |-> offered, notice |-> error, about |-> n]

\* Defect: the form is shown even when it has no terminal to start from.
PlanPage_without_terminals(result, error, n) ==
  CASE result = "not_configured" -> NotConfigured
    [] result = "ok" -> NewTripForm(terminals, error, n)
    [] OTHER -> OurFailure

PlanPage(result, error, n) ==
  CASE result = "not_configured" -> NotConfigured
    [] result = "ok" /\ terminals = {} -> [screen |-> "no_terminals"]
    [] result = "ok" /\ terminals # {} -> NewTripForm(terminals, error, n)
    [] OTHER -> OurFailure

\* Nothing about routes or sources is on a card: none has been searched.
toTripCardView(n) == [trip |-> n, origin |-> submission[n].form.origin]

toTripsScreenModel(listed) ==
  [status |-> "ready", trips |-> { toTripCardView(n) : n \in listed }]
emptyTrips == [status |-> "empty", trips |-> {}]

TripsScreen(model) ==
  CASE model.status = "error" -> OurFailure
    [] model.status = "empty" -> [screen |-> "no_trips"]
    [] OTHER -> [screen |-> "trips", cards |-> model.trips]

\* Defect: a failed read falls back to the model without trips.
TripsPage_failure_is_empty(result) ==
  CASE result = "not_configured" -> NotConfigured
    [] result = "ok" /\ recorded # {} -> TripsScreen(toTripsScreenModel(recorded))
    [] OTHER -> TripsScreen(emptyTrips)

TripsPage(result) ==
  CASE result = "not_configured" -> NotConfigured
    [] result = "ok" /\ recorded = {} -> TripsScreen(emptyTrips)
    [] result = "ok" /\ recorded # {} -> TripsScreen(toTripsScreenModel(recorded))
    [] OTHER -> TripsScreen([emptyTrips EXCEPT !.status = "error"])

\* Airports are looked up by the terminal's name, and never guessed.
originAirportsForTerminal(t) == IF t \in Curated THEN "curated" ELSE "unknown"

toCommercialHandoffViewModel(n) ==
  [destination_of |-> n, from |-> originAirportsForTerminal(submission[n].form.origin)]

toTripDetailModel(n) == [trip |-> n, origin |-> submission[n].form.origin]

\* The terminals to check, read after the trip, are EvidencePages' matter.
TripPage(result, n) ==
  CASE result = "ok" -> [screen |-> "trip", detail |-> toTripDetailModel(n),
                         handoff |-> toCommercialHandoffViewModel(n)]
    [] result \in {"not_found", "invalid"} -> NotFound
    [] result = "not_configured" -> NotConfigured
    [] OTHER -> OurFailure

get_trip_request(n) == IF n \in recorded THEN "ok" ELSE "404"

-------------------------------------------------------------------------------
(* The browser *)

idle(b) == flight[b] = NoPath

\* The traveler, or a redirect, opens a page: it is let through or turned away at once.
Arrive(b, p) ==
  /\ IF p.page = "/login" THEN view' = [view EXCEPT ![b] = LoginPage(NoPath, FALSE)] /\ flight' = flight
     ELSE IF proxy(b, p) = "allow" THEN flight' = [flight EXCEPT ![b] = p] /\ view' = view
     ELSE view' = [view EXCEPT ![b] = TurnedAway(b, p)] /\ flight' = flight
  /\ UNCHANGED <<now, env, jar, signed_in, submission, terminals, seen>>

Visitable == {PlanPath("none", 0), TripsPath, LoginPath} \cup
             { TripPath(n) : n \in { m \in Submission : submission[m].web # "unsent" } }

OpenPage(b) == idle(b) /\ view[b].screen # "redirecting" /\ \E p \in Visitable : Arrive(b, p)

FollowRedirect(b) == idle(b) /\ view[b].screen = "redirecting" /\ Arrive(b, view[b].to)

\* The page's one read of the API, and what is shown.  /trips/new has a handler for POST only.
RenderPage(b) ==
  /\ ~idle(b) /\ view[b].screen # "sending"
  /\ \E answer \in Faults \cup {"ok"} :
       LET p == flight[b]
           result == callApi(IF answer = "ok" /\ p.page = "/trips/id" THEN get_trip_request(p.about)
                             ELSE answer)
           shown == CASE p.page = "/" -> PlanPage(result, p.error, p.about)
                      [] p.page = "/trips" -> TripsPage(result)
                      [] p.page = "/trips/id" -> TripPage(result, p.about)
                      [] OTHER -> [screen |-> "method_not_allowed", about |-> p.about]
       IN /\ view' = [view EXCEPT ![b] = shown]
          /\ seen' = [seen EXCEPT ![b] = IF shown.screen = "trip" THEN @ \cup {p.about} ELSE @]
  /\ flight' = [flight EXCEPT ![b] = NoPath]
  /\ UNCHANGED <<now, env, jar, signed_in, submission, terminals>>

\* The browser stops waiting: the traveler left, or the connection broke.  The server goes on.
LoseAnswer(b) ==
  /\ ~idle(b)
  /\ flight' = [flight EXCEPT ![b] = NoPath]
  /\ view' = [view EXCEPT ![b] = Blank]
  /\ UNCHANGED <<now, env, jar, signed_in, submission, terminals, seen>>

\* The form is posted.  Turned away, it is gone: only its path survives the sign-in.
SubmitForm(b) ==
  /\ idle(b) /\ view[b].screen = "plan"
  /\ \E n \in Submission, form \in Form :
       /\ submission[n] = Unsent /\ \A m \in 1..n - 1 : submission[m] # Unsent
       /\ form.origin \in view[b].offered
       /\ LET through == proxy(b, NewTripPath(n)) = "allow" IN
          /\ submission' = [submission EXCEPT ![n] =
               [Unsent EXCEPT !.by = b, !.form = form,
                              !.web = IF through THEN "handling" ELSE "turned_away"]]
          /\ flight' = [flight EXCEPT ![b] = IF through THEN NewTripPath(n) ELSE NoPath]
          /\ view' = [view EXCEPT ![b] = IF through THEN [screen |-> "sending"]
                                         ELSE TurnedAway(b, NewTripPath(n))]
  /\ UNCHANGED <<now, env, jar, signed_in, terminals, seen>>

-------------------------------------------------------------------------------
(* The form's route handler *)

\* The handler ends with an answer; the browser gets it if it still waits.
Respond(n, answer) ==
  LET b == submission[n].by
      waits == flight[b] = NewTripPath(n) /\ view[b].screen = "sending"
  IN /\ flight' = [flight EXCEPT ![b] = IF waits THEN NoPath ELSE @]
     /\ view' = [view EXCEPT ![b] = IF waits THEN answer ELSE @]

RedirectTo(n, p) == Respond(n, redirectTo(p))
BadRequest == [screen |-> "bad_request"]    \* 400

\* Defect: an incomplete form is given up without an answer.
POST_incomplete_is_dropped(n) ==
  /\ submission[n].web = "handling"
  /\ submission[n].form.fault = "incomplete"
  /\ submission' = [submission EXCEPT ![n].web = "answered"]
  /\ UNCHANGED <<access, flight, terminals, seen>>

\* The body may have broken on the way.  toIso and trim: without two times and a destination the
\* API is not called.
POST(n) ==
  /\ submission[n].web = "handling"
  /\ \/ /\ submission' = [submission EXCEPT ![n].web = "answered"]
        /\ Respond(n, BadRequest)
     \/ /\ submission[n].form.fault = "incomplete"
        /\ submission' = [submission EXCEPT ![n].web = "answered"]
        /\ RedirectTo(n, PlanPath("invalid", n))
     \/ /\ submission[n].form.fault # "incomplete" /\ ~env.api
        /\ submission' = [submission EXCEPT ![n].web = "answered"]
        /\ RedirectTo(n, PlanPath("unavailable", n))
     \/ /\ submission[n].form.fault # "incomplete" /\ env.api
        /\ submission' = [submission EXCEPT ![n].web = "calling", ![n].tx = "called"]
        /\ UNCHANGED <<flight, view>>
  /\ UNCHANGED <<now, env, jar, signed_in, terminals, seen>>

\* The answer arrives, or breaks on the way, or never comes: the API may still be at work then.
Answered(n) ==
  /\ submission[n].web = "calling"
  /\ \E answer \in {submission[n].answer, "no_response"} \cup
                   (IF submission[n].answer = "ok" THEN {"unreadable"} ELSE {}) :
       /\ answer # "none"
       /\ RedirectTo(n, CASE callApi(answer) = "ok" -> TripPath(n)
                          [] callApi(answer) = "invalid" -> PlanPath("invalid", n)
                          [] OTHER -> PlanPath("unavailable", n))
  /\ submission' = [submission EXCEPT ![n].web = "answered"]
  /\ UNCHANGED <<now, env, jar, signed_in, terminals, seen>>

-------------------------------------------------------------------------------
(* The API: one write transaction per request *)

Api(n, tx, answer) ==
  /\ submission' = [submission EXCEPT ![n].tx = tx, ![n].answer = answer]
  /\ UNCHANGED <<access, flight, terminals, seen>>

\* The contract is validated and the terminal looked up.
create_trip_request(n) ==
  /\ submission[n].tx = "called"
  /\ IF submission[n].form.fault = "none" /\ submission[n].form.origin \in terminals
     THEN Api(n, "checked", "none")
     ELSE Api(n, "rolled_back", "422")

\* trips.add, then the answer: the foreign key refuses a terminal that vanished since.
create_trip(n) ==
  /\ submission[n].tx = "checked"
  /\ IF submission[n].form.origin \in terminals THEN Api(n, "inserted", "ok")
     ELSE Api(n, "rolled_back", "422")

\* The dependency's exit, after the answer: it commits, or the database is gone by then.
get_write_connection(n) ==
  /\ submission[n].tx = "inserted"
  /\ \/ Api(n, "committed", submission[n].answer)
     \/ Api(n, "rolled_back", submission[n].answer)

\* A credential the API does not accept, an exception, or the end of the process before an answer.
ApiFails(n) ==
  /\ submission[n].tx \in {"called", "checked"}
  /\ \E answer \in {"401", "5xx"} :
       /\ answer = "401" => submission[n].tx = "called"
       /\ Api(n, "rolled_back", answer)

-------------------------------------------------------------------------------
(* Operations *)

\* A deployment replaces the web container: what it was handling ends without an answer.
Redeploy ==
  /\ env' \in Environments \ {env}
  /\ submission' = [n \in Submission |->
       [submission[n] EXCEPT !.web = IF @ \in {"handling", "calling"} THEN "killed" ELSE @]]
  /\ flight' = [b \in Browser |-> NoPath]
  /\ view' = [b \in Browser |-> IF idle(b) THEN view[b] ELSE Blank]
  /\ UNCHANGED <<now, jar, signed_in, terminals, seen>>

\* Terminals come and go by SQL; the foreign key keeps those that a trip names.
Register(t) ==
  /\ t \notin terminals \/ \A n \in Submission :
       submission[n].form.origin = t => submission[n].tx \notin {"inserted", "committed"}
  /\ terminals' = IF t \in terminals THEN terminals \ {t} ELSE terminals \cup {t}
  /\ UNCHANGED <<access, flight, submission, seen>>

-------------------------------------------------------------------------------
Init ==
  /\ AccessInit
  /\ flight = [b \in Browser |-> NoPath]
  /\ submission = [n \in Submission |-> Unsent]
  /\ terminals \in SUBSET Terminal
  /\ seen = [b \in Browser |-> {}]

SignInOrOut(b) == idle(b) /\ (SignIn(b) \/ SignOut(b)) /\ UNCHANGED trips_side
Clock == (Tick \/ StepBack) /\ UNCHANGED trips_side
Handle(n) == POST(n) \/ Answered(n)
ServeApi(n) == create_trip_request(n) \/ create_trip(n) \/ get_write_connection(n) \/ ApiFails(n)
Travel(b) == OpenPage(b) \/ SubmitForm(b) \/ SignInOrOut(b)
Wait(b) == FollowRedirect(b) \/ RenderPage(b) \/ LoseAnswer(b)

Next ==
  \/ Clock \/ Redeploy
  \/ \E t \in Terminal : Register(t)
  \/ \E b \in Browser : Travel(b) \/ Wait(b)
  \/ \E n \in Submission : Handle(n) \/ ServeApi(n)

\* The processes run on; nobody has to open, sign in, deploy or lose anything.
Fairness ==
  /\ \A b \in Browser : WF_vars(FollowRedirect(b)) /\ WF_vars(RenderPage(b))
  /\ \A n \in Submission : WF_vars(Handle(n)) /\ WF_vars(ServeApi(n))

Spec == Init /\ [][Next]_vars /\ Fairness

-------------------------------------------------------------------------------
(* Properties *)

\* Type invariant: cookies, pages, requests under way and submissions stay in their domains.
TypeOK ==
  /\ AccessTypeOK
  /\ \A b \in Browser :
       /\ flight[b] = NoPath \/ flight[b].page \in {"/", "/trips", "/trips/id", "/trips/new"}
       /\ view[b].screen = "sending" => flight[b].page = "/trips/new"
       /\ view[b].screen = "plan" => /\ view[b].notice \in {"none", "invalid", "unavailable"}
                                     /\ view[b].offered \in (SUBSET Terminal) \ {{}}
  /\ submission \in [Submission -> [by : Browser \cup {"nobody"}, form : Form \cup {NoForm},
                                    web : WebStage, tx : TxStage, answer : ApiAnswer]]
  /\ terminals \subseteq Terminal
  /\ seen \in [Browser -> SUBSET Submission]

\* Whatever happens to clocks, cookies and deployments, a request is let through to a private page
\* or handler (proxy.ts) only on a deployment left open for development with neither secret, or
\* for a browser whose last sign-in is to this deployment's secret and not older than the session.
PrivateNeedsALiveSession ==
  [][\A b \in Browser :
       flight'[b] \notin {NoPath, flight[b]} /\ ~isPublicPath(flight'[b]) =>
       \/ env.development /\ env.passphrase = Missing /\ env.secret = Missing
       \/ LiveSession(b)]_vars

\* "That request was not accepted" (NewTripForm ERROR_TEXT.invalid) is final: the request it is
\* about is in no transaction that still could commit, and never was recorded.
RefusedRecordsNothing ==
  \A b \in Browser : view[b].screen = "plan" /\ view[b].notice = "invalid" =>
    submission[view[b].about].tx \in {"none", "rolled_back"}

\* A trip page shows a request that is durably recorded, as its traveler sent it, although the
\* API answers the form before it commits (api.py get_write_connection).
ShownTripsAreRecorded ==
  \A b \in Browser : view[b].screen = "trip" =>
    /\ view[b].detail.trip \in recorded
    /\ view[b].detail.origin = submission[view[b].detail.trip].form.origin

\* No failed read is told as an absence: a list of trips shown later, "no trips" included,
\* contains every trip this browser was shown before (app/trips/page.tsx).
ShelfKeepsWhatWasShown ==
  \A b \in Browser :
    /\ view[b].screen = "trips" => seen[b] \subseteq { card.trip : card \in view[b].cards }
    /\ view[b].screen = "no_trips" => seen[b] = {}

\* A browser that waits gets something in the end: each stage of the request answers, and a
\* container that is replaced breaks the connection.
EveryRequestIsAnswered ==
  \A b \in Browser : flight[b] # NoPath ~> flight[b] = NoPath

\* What NewTripForm.tsx:15 tells the traveler: "nothing was recorded".
UnavailableRecordsNothing ==
  \A b \in Browser : view[b].screen = "plan" /\ view[b].notice = "unavailable" =>
    view[b].about \notin recorded
===============================================================================
