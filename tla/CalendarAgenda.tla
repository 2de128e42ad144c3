--------------------------- MODULE CalendarAgenda ---------------------------
(***************************************************************************)
(* Reads of Google Calendar: tomorrow's agenda (a structured command, or a *)
(* free-form query that a resolver and the route table turn into it), which*)
(* walks the pages of the event list within a page limit, and the manual   *)
(* synchronization of one event.  Composed with GoogleAccounts: every page *)
(* reads the keychain anew, while connect commands may replace what it     *)
(* holds and users edit their calendars.                                   *)
(*                                                                         *)
(* The events of tomorrow are the positions of the list Google orders by   *)
(* start time; an event that moves leaves one position and takes another.  *)
(* An honest Google continues a walk after the position its page token     *)
(* stands for; a faulty one returns arbitrary tokens, padded ones included.*)
(***************************************************************************)
EXTENDS GoogleAccounts, FiniteSetsExt

CONSTANTS
  Requests,     \* HTTP requests and runs of the sync command
  Positions,    \* bound: tomorrow's events are at 1..Positions
  FirstCalendar,\* positions taken in each calendar to begin with
  StrayTokens,  \* bound: what a faulty Google returns as next page token
  Unmappable,   \* positions of events _map_event cannot map
  PageSize,     \* max_results
  MaxPages,     \* max_pages
  MaxEdits      \* bound: edits of calendars in one behaviour

ASSUME AgendaConstants ==
  /\ Positions \in Nat /\ MaxEdits \in Nat
  /\ PageSize \in Nat \ {0} /\ MaxPages \in Nat \ {0}
  /\ Unmappable \subseteq 1..Positions
  /\ FirstCalendar \in [Emails -> SUBSET (1..Positions)]
  /\ StrayTokens \subseteq 0..Positions + 1

VARIABLES
  calendar,     \* external: positions taken in each Google account's list
  honest,       \* external: whether Google's page tokens make sense
  edits,        \* edits so far
  req           \* the requests and the locals of their walks

vars == <<accounts, calendar, honest, edits, req>>

Kinds == {"command", "query", "sync"}
NoToken == 0
PaddedToken == Positions + 1
Tokens == 1..PaddedToken
SyncCodes == {"invalid_input", "reconnect_required", "transport_failure",
  "credential_refresh_failure", "malformed_provider_event", "event_not_found",
  "provider_transient_failure", "provider_permanent_failure",
  "provider_internal_failure", "duplicate_event", "ingress_workflow_failure",
  "synchronized"}

(* Locals of CalendarEventListOrchestrator.execute, the material the last  *)
(* page was read with, the answer, and what is observed of the walk: the   *)
(* tokens asked for, the Google accounts read, the accounts connected and  *)
(* the positions taken all along.                                          *)
Fresh == [pc |-> "idle", kind |-> "none", account |-> "none",
          token |-> NoToken, seen |-> {}, pages |-> 0, events |-> {},
          complete |-> TRUE, material |-> NoMaterial, reason |-> "none",
          answer |-> "none", trouble |-> "none", asked |-> {}, repeated |-> FALSE,
          connected |-> {}, steady |-> [m \in Emails |-> {}]]

Init ==
  /\ AccountsInit
  /\ calendar = FirstCalendar
  /\ honest \in BOOLEAN
  /\ edits = 0
  /\ req = [r \in Requests |-> Fresh]

Google == <<calendar, honest, edits>>

(* An answer without an agenda; the locals of the call are gone.           *)
Reply(r, answer, trouble) ==
  req' = [req EXCEPT ![r] = [Fresh EXCEPT !.pc = "done", !.answer = answer,
                               !.kind = req[r].kind, !.trouble = trouble]]
Answer(r, answer) == Reply(r, answer, "none")
Goto(r, pc) == req' = [req EXCEPT ![r].pc = pc]

-----------------------------------------------------------------------------
(* A request arrives.  Account context and timezone are the caller's; an   *)
(* agenda is asked for by intent or in words.                              *)
Ask(r, kind, a) ==
  /\ req[r].pc = "idle"
  /\ req' = [req EXCEPT ![r] = [Fresh EXCEPT
               !.pc = IF kind = "query" THEN "resolve" ELSE "validate",
               !.kind = kind, !.account = a,
               !.connected = EmailsOf(keychain[a]),
               !.steady = calendar]]
  /\ UNCHANGED <<accounts, Google>>

(* What the two resolvers make of a text.  The bounded one knows a few     *)
(* phrases; the model may fail as well.  Neither knows a second intent.    *)
BoundedResolutions == {"resolved", "unresolved", "input_error"}
OllamaResolutions == BoundedResolutions \cup {"resolver_error"}
Resolutions == BoundedResolutions \cup OllamaResolutions

(* A text that is blank or not understood is the caller's fault, a failing *)
(* model the server's.                                                     *)
QueryAnswer(resolution) == IF resolution = "resolver_error" THEN "500" ELSE "422"

(* The route of the one intent leads to the agenda command.                *)
Dispatch(r) == req' = [req EXCEPT ![r].pc = "validate", ![r].kind = "command"]

Resolve(r) ==
  /\ req[r].pc = "resolve"
  /\ \E resolution \in Resolutions :
       IF resolution = "resolved" THEN Dispatch(r)
       ELSE Answer(r, QueryAnswer(resolution))
  /\ UNCHANGED <<accounts, Google>>

(* _validate_request of the workflow and ManualCalendarSyncRequest: a      *)
(* padded or blank account, principal, timezone or event id goes no        *)
(* further.                                                                *)
Validate(r) ==
  /\ req[r].pc = "validate"
  /\ \/ Goto(r, "credentials")
     \/ Answer(r, IF req[r].kind = "sync" THEN "invalid_input" ELSE "422")
  /\ UNCHANGED <<accounts, Google>>

(* ManualCalendarSyncService._provider_error: the code for a failure.      *)
SyncCode(failure) ==
  CASE failure.reason = "reconnectRequired" -> "reconnect_required"
    [] failure.reason = "credentialRefreshUnavailable" ->
         "credential_refresh_failure"
    [] failure.reason \in {"transportUnavailable", "internalTransportError"} ->
         "transport_failure"
    [] failure.reason = "invalidProviderResponse" -> "malformed_provider_event"
    [] OTHER -> [transient |-> "provider_transient_failure",
                 permanent |-> "provider_permanent_failure",
                 internal |-> "provider_internal_failure"][failure.category]

(* A failed page ends the walk: what was gathered so far is dropped and    *)
(* the endpoint answers 500 without retrying.  What went wrong is noted    *)
(* for the sync command, whose code depends on it.                         *)
FailureAnswer(kind, failure) ==
  IF kind = "sync" THEN SyncCode(failure) ELSE "500"

Noted(kind, trouble) == IF kind = "sync" THEN trouble ELSE "none"

PageFails_RetriesTransient(r, failure, trouble) ==
  IF failure.category = "transient" THEN Goto(r, "credentials")
  ELSE Reply(r, FailureAnswer(req[r].kind, failure), Noted(req[r].kind, trouble))

PageFails_KeepsPartialWalk(r, failure, trouble) ==
  IF req[r].pages > 0
  THEN req' = [req EXCEPT ![r].pc = "done", ![r].answer = "200"]
  ELSE Reply(r, FailureAnswer(req[r].kind, failure), Noted(req[r].kind, trouble))

PageFails(r, failure, trouble) ==
  Reply(r, FailureAnswer(req[r].kind, failure), Noted(req[r].kind, trouble))

(* A page is read: CalendarEventListRequest refuses a padded token, and    *)
(* get_credentials reads the keychain for every page anew.                 *)
RefuseToken(r) ==
  /\ req[r].pc = "credentials" /\ req[r].token = PaddedToken
  /\ PageFails(r, Failure("permanent", "none"), "padded_token")
  /\ UNCHANGED <<accounts, Google>>

CredentialsFail(r) ==
  /\ req[r].pc = "credentials" /\ req[r].token # PaddedToken
  /\ \E trouble \in Troubles(keychain[req[r].account]) :
       PageFails(r, CredentialFailure(trouble), trouble)
  /\ UNCHANGED <<accounts, Google>>

ReadCredentials(r) ==
  LET w == req[r]
  IN /\ w.pc = "credentials" /\ w.token # PaddedToken
     /\ Usable(keychain[w.account])
     /\ req' = [req EXCEPT ![r] = [w EXCEPT
                  !.pc = "http", !.material = keychain[w.account],
                  !.repeated = @ \/ w.token \in w.asked,
                  !.asked = @ \cup {w.token}]]
     /\ UNCHANGED <<accounts, Google>>

-----------------------------------------------------------------------------
(* HttpxCalendarTransportClient.execute: failures by status class, a rate  *)
(* limit told from other 403s by the reason in the body; a body that is no *)
(* event list counts as an internal failure.                               *)
HttpTroubles == {"timeout", "raises", "400", "401", "403", "403_rate_limit",
                 "429", "5xx", "other_status", "invalid_body"}

HttpFailure(trouble) ==
  CASE trouble = "timeout" -> Failure("transient", "transportUnavailable")
    [] trouble = "raises" -> Failure("internal", "internalTransportError")
    [] trouble = "400" -> Failure("permanent", "invalidRequest")
    [] trouble = "401" -> Failure("permanent", "reconnectRequired")
    [] trouble = "403" -> Failure("permanent", "forbidden")
    [] trouble \in {"403_rate_limit", "429"} ->
         Failure("transient", "rateLimitExceeded")
    [] trouble = "5xx" -> Failure("transient", "providerUnavailable")
    [] trouble = "other_status" -> Failure("permanent", "providerRequestFailed")
    [] trouble = "invalid_body" -> Failure("internal", "invalidProviderResponse")

HttpFails(r) ==
  /\ req[r].pc = "http"
  /\ \E trouble \in HttpTroubles : PageFails(r, HttpFailure(trouble), trouble)
  /\ UNCHANGED <<accounts, Google>>

(* External: the page after a token, and the token of the page after it.   *)
Rest(email, token) == {p \in calendar[email] : p > token}
PageOf(email, token) ==
  {p \in Rest(email, token) :
     Cardinality({q \in Rest(email, token) : q <= p}) <= PageSize}
NextTokens(email, token) ==
  IF ~honest THEN StrayTokens
  ELSE IF PageOf(email, token) = Rest(email, token) THEN {NoToken}
  ELSE {Max(PageOf(email, token))}

(* Why the walk stops after a page, "none" when it goes on.                *)
Termination_NeverRepeated(pages, seen, next) ==
  IF next = NoToken THEN "exhausted"
  ELSE IF pages >= MaxPages THEN "page_limit" ELSE "none"

Termination(pages, seen, next) ==
  IF next = NoToken THEN "exhausted"
  ELSE IF pages >= MaxPages THEN "page_limit"
  ELSE IF next \in seen THEN "repeated_page_token" ELSE "none"

(* _parse_event_list maps what _map_event can and counts what it skips.    *)
Mapped(page) == page \ Unmappable
PageComplete(page) == Mapped(page) = page

(* The walk goes on with the next token, or becomes the agenda.            *)
Continue(w, next) ==
  [w EXCEPT !.pc = "credentials", !.token = next, !.seen = @ \cup {next}]

Conclude(w, reason) ==
  [w EXCEPT !.pc = "done", !.answer = "200", !.reason = reason,
            !.complete = @ /\ reason = "exhausted"]

(* One iteration of the loop of CalendarEventListOrchestrator.execute.     *)
FetchPage(r) ==
  LET email == req[r].material
      page == PageOf(email, req[r].token)
      w == [req[r] EXCEPT
              !.events = @ \cup {<<email, p>> : p \in Mapped(page)},
              !.pages = @ + 1, !.complete = @ /\ PageComplete(page),
              !.material = NoMaterial]
  IN /\ req[r].pc = "http" /\ req[r].kind # "sync"
     /\ \E next \in NextTokens(email, req[r].token) :
          LET reason == Termination(w.pages, w.seen, next)
          IN req' = [req EXCEPT ![r] = IF reason = "none" THEN Continue(w, next)
                                       ELSE Conclude(w, reason)]
     /\ UNCHANGED <<accounts, Google>>

(* ManualCalendarSyncService.sync: a single event, absent (404), malformed *)
(* or handed to the calendar ingress, which EventFlow models.              *)
SyncOutcomes == {"malformed_provider_event", "duplicate_event",
                 "ingress_workflow_failure", "synchronized"}

SyncEvent(r) ==
  /\ req[r].pc = "http" /\ req[r].kind = "sync"
  /\ \/ Answer(r, "event_not_found")
     \/ /\ calendar[req[r].material] # {}
        /\ \E outcome \in SyncOutcomes : Answer(r, outcome)
  /\ UNCHANGED <<accounts, Google>>

(* External: a user adds an event to a calendar or removes one.            *)
Edit(email, p) ==
  /\ edits < MaxEdits
  /\ edits' = edits + 1
  /\ calendar' = [calendar EXCEPT ![email] = IF p \in @ THEN @ \ {p} ELSE @ \cup {p}]
  /\ req' = [r \in Requests |->
               [req[r] EXCEPT !.steady[email] = @ \cap calendar'[email]]]
  /\ UNCHANGED <<accounts, honest>>

(* A connect command; requests remember which accounts were connected.     *)
ConnectStep ==
  /\ ConnectNext
  /\ req' = [r \in Requests |->
               IF req[r].pc \in {"idle", "done"} THEN req[r]
               ELSE [req[r] EXCEPT !.connected =
                       @ \cup EmailsOf(keychain'[req[r].account])]]
  /\ UNCHANGED Google

RequestStep(r) ==
  \/ Resolve(r) \/ Validate(r)
  \/ RefuseToken(r) \/ CredentialsFail(r) \/ ReadCredentials(r)
  \/ HttpFails(r) \/ FetchPage(r) \/ SyncEvent(r)

Next ==
  \/ \E r \in Requests : \E kind \in Kinds, a \in Accounts : Ask(r, kind, a)
  \/ \E r \in Requests : RequestStep(r)
  \/ \E email \in Emails, p \in 1..Positions : Edit(email, p)
  \/ ConnectStep

Spec == Init /\ [][Next]_vars

(* Every call a request makes has a timeout, so a request keeps moving.    *)
FairSpec == Spec /\ \A r \in Requests : WF_vars(RequestStep(r))

-----------------------------------------------------------------------------
WalkTroubles == HttpTroubles \cup {"none", "padded_token", "keychain_down",
  "keychain_raises", "missing", "unparsable", "refresh_unreachable",
  "refresh_rejected", "refresh_raises"}

Walk ==
  [pc : {"idle", "resolve", "validate", "credentials", "http", "done"},
   kind : Kinds \cup {"none"}, account : Accounts \cup {"none"},
   token : Tokens \cup {NoToken}, seen : SUBSET Tokens, pages : 0..MaxPages,
   events : SUBSET (Emails \X ((1..Positions) \ Unmappable)),
   complete : BOOLEAN, material : Material,
   reason : {"none", "exhausted", "page_limit", "repeated_page_token"},
   answer : {"none", "200", "422", "500"} \cup SyncCodes,
   trouble : WalkTroubles,
   asked : SUBSET (Tokens \cup {NoToken}), repeated : BOOLEAN,
   connected : SUBSET Emails, steady : [Emails -> SUBSET (1..Positions)]]

TypeOK ==
  /\ AccountsTypeOK
  /\ calendar \in [Emails -> SUBSET (1..Positions)]
  /\ honest \in BOOLEAN /\ edits \in 0..MaxEdits
  /\ req \in [Requests -> Walk]

(* An agenda that says aggregate_complete lists every event that stayed in *)
(* its place for the whole walk, whatever was added or removed around it,  *)
(* as long as Google's tokens make sense and no connect switched the walk  *)
(* to another Google account half-way (FetchPage, Termination).            *)
CompleteMeansAll ==
  \A r \in Requests : \A email \in Emails :
    LET w == req[r]
    IN w.answer = "200" /\ w.complete /\ honest /\ w.connected = {email} =>
         w.steady[email] \subseteq {p \in 1..Positions : <<email, p>> \in w.events}

(* Whatever tokens Google returns, a walk asks for no page twice and for   *)
(* no more than MaxPages (Termination, ReadCredentials).                   *)
WalkIsBounded ==
  \A r \in Requests :
    ~req[r].repeated /\ Cardinality(req[r].asked) <= MaxPages

(* The events of an agenda come from Google accounts that were connected   *)
(* to the requested VELOX account while the walk ran, and that an operator *)
(* named for it: nobody else's calendar shows up (Connect, StoreMaterial,  *)
(* ReadCredentials).                                                       *)
EventsOfNamedAccounts ==
  \A r \in Requests : \A e \in req[r].events :
    e[1] \in req[r].connected /\ e[1] \in named[req[r].account]

(* The sync command asks for a reconnect exactly when a reconnect can      *)
(* help: no usable material, or Google turned down the credential.  An     *)
(* unreachable keychain or network is never blamed on the credential       *)
(* (CredentialFailure, HttpFailure, SyncCode).                             *)
ReconnectCanHelp ==
  \A r \in Requests : req[r].kind = "sync" =>
    (req[r].answer = "reconnect_required" <=>
       req[r].trouble \in {"missing", "unparsable", "refresh_rejected", "401"})

(* Every request is answered, whatever Google, the keychain and the model  *)
(* do (the loop of CalendarEventListOrchestrator.execute).                 *)
EveryRequestAnswered ==
  \A r \in Requests : req[r].pc # "idle" ~> req[r].pc = "done"
=============================================================================
