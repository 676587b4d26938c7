------------------------------ MODULE Accounts ------------------------------
(***************************************************************************)
(* Signing in and staying signed in on one device: a code is verified,     *)
(* the session starts (auth.service.ts), and the device refreshes it.      *)
(* The device is the app (token_manager.dart: one refresh at a time) or a  *)
(* browser behind the web server's proxy (proxy.ts: pages on their way     *)
(* carry the cookies they left with, and refreshes of one token share      *)
(* their result for some seconds).                                         *)
(***************************************************************************)
EXTENDS Otp, Sessions

CONSTANTS
  Pages,         \* bound: page requests of the browser at once
  Kinds          \* the devices to look at: a subset of {"APP", "WEB"}

VARIABLES
  kind,          \* of the device: "NEW" until it has signed in, "APP" or "WEB"
  device,        \* [token: the refresh token it stores, access: an access token that works]
  pages,         \* page -> [step, token]: the cookie it left with, then its answer
  shared,        \* token -> what the proxy keeps: NoToken, "PENDING", "FAILED" or a token
  waits,         \* the calls somebody still waits for
  faulty         \* something happened that the device cannot tell from a theft

deviceVars == <<kind, device, pages, shared, waits, faulty>>

vars == <<challenge, issue, guess, redis, account, session, rotation,
          kind, device, pages, shared, waits, faulty>>

NoToken == [sid |-> "none", token |-> 0]

Tokens == [sid : Sids, token : 1..MaxTokens]

NoPage == [step |-> "IDLE", token |-> NoToken]

SignedOut == [token |-> NoToken, access |-> FALSE]

Holds(token) == [token |-> token, access |-> TRUE]

Brought(c) == [sid |-> rotation[c].sid, token |-> rotation[c].token]

(* Something the device takes for nothing, but that may end in its token   *)
(* coming back twice.  Bound: one of them.                                 *)
FaultIf(bad) == (bad => ~faulty) /\ faulty' = (faulty \/ bad)

OnTheWay == {p \in Pages : pages[p].step # "IDLE"}

----------------------------------------------------------------------------
(* Signing in.                                                             *)

(* verifyPhoneOtp reads the account after the code is used up ... *)
FindUser(g) ==
  /\ guess[g].step = "VERIFIED"
  /\ guess' = IF account.active THEN [guess EXCEPT ![g].step = "ALLOWED"]
                                ELSE [guess EXCEPT ![g] = NoGuess]
  /\ UNCHANGED <<challenge, issue, redis, sessionVars, deviceVars>>

(* ... and starts the session, which the device stores if it hears of it. *)
StartSession(g, s) ==
  /\ guess[g].step = "ALLOWED"
  /\ device.token = NoToken
  /\ Create(s)
  /\ guess' = [guess EXCEPT ![g] = NoGuess]
  /\ \/ device' = Holds([sid |-> s, token |-> 1])
     \/ UNCHANGED device
  /\ UNCHANGED <<challenge, issue, redis, kind, pages, shared, waits, faulty>>

(* "Sign out": best effort on the server, always on the device. *)
SignOut ==
  /\ kind # "NEW" /\ device.token # NoToken
  /\ \/ Logout(device.token.sid)
     \/ UNCHANGED sessionVars
  /\ device' = SignedOut
  /\ UNCHANGED <<otpVars, kind, pages, shared, waits, faulty>>

(* The access token ends.  A page still on its way by then would bring     *)
(* back cookies that are out of date.                                      *)
AccessEnds ==
  /\ kind # "NEW" /\ device.access
  /\ device' = [device EXCEPT !.access = FALSE]
  /\ FaultIf(OnTheWay # {})
  /\ UNCHANGED <<otpVars, sessionVars, kind, pages, shared, waits>>

NeedsRefresh == ~device.access /\ device.token # NoToken

(* Nobody waits for this answer any more. *)
Unheard(c) ==
  /\ c \notin waits
  /\ Answer(c)
  /\ UNCHANGED <<otpVars, deviceVars>>

----------------------------------------------------------------------------
(* The app.                                                                *)

NotSharing == TRUE            \* mutant: every 401 starts a refresh of its own

SingleFlight == waits = {}

AppRefresh(c) ==
  /\ kind = "APP" /\ NeedsRefresh
  /\ SingleFlight
  /\ Present(c, device.token.sid, device.token.token)
  /\ waits' = waits \cup {c}
  /\ UNCHANGED <<otpVars, kind, device, pages, shared, faulty>>

AppAnswered(c) ==
  /\ kind = "APP" /\ c \in waits
  /\ device' = IF rotation[c].step = "ANSWERED"
               THEN Holds([sid |-> rotation[c].sid, token |-> rotation[c].next])
               ELSE SignedOut
  /\ Answer(c)
  /\ waits' = waits \ {c}
  /\ UNCHANGED <<otpVars, kind, pages, shared, faulty>>

(* A network error or a 5xx: the stored token stays, and the call may      *)
(* still run or have run.                                                  *)
AppGivesUp(c) ==
  /\ kind = "APP" /\ c \in waits
  /\ waits' = waits \ {c}
  /\ FaultIf(TRUE)
  /\ UNCHANGED <<otpVars, sessionVars, kind, device, pages, shared>>

----------------------------------------------------------------------------
(* The browser and the proxy.                                              *)

Pending == [sid |-> "PENDING", token |-> 0]

Failed == [sid |-> "FAILED", token |-> 0]

OpenPage(p) ==
  /\ kind = "WEB" /\ NeedsRefresh
  /\ pages[p] = NoPage
  /\ pages' = [pages EXCEPT ![p] = [step |-> "SENT", token |-> device.token]]
  /\ UNCHANGED <<otpVars, sessionVars, kind, device, shared, waits, faulty>>

NeverShared(token) == TRUE    \* mutant: every page refreshes for itself

NotShared(token) == shared[token] = NoToken

(* refreshTokens: the first page with this token calls the API ... *)
WebRefresh(p, c) ==
  LET token == pages[p].token
  IN  /\ pages[p].step = "SENT"
      /\ NotShared(token)
      /\ Present(c, token.sid, token.token)
      /\ waits' = waits \cup {c}
      /\ pages' = [pages EXCEPT ![p].step = "WAITING"]
      /\ shared' = [shared EXCEPT ![token] = Pending]
      /\ UNCHANGED <<otpVars, kind, device, faulty>>

(* ... and the others wait for its answer, or have it at once. *)
Share(p) ==
  LET kept == shared[pages[p].token]
  IN  /\ pages[p].step = "SENT" /\ kept # NoToken
      /\ pages' = [pages EXCEPT ![p] =
           IF kept = Pending THEN [@ EXCEPT !.step = "WAITING"]
           ELSE [step |-> "ANSWERED", token |-> kept]]
      /\ UNCHANGED <<otpVars, sessionVars, kind, device, shared, waits, faulty>>

Resolve(c, result) ==
  /\ kind = "WEB" /\ c \in waits
  /\ waits' = waits \ {c}
  /\ pages' = [p \in Pages |->
       IF pages[p] = [step |-> "WAITING", token |-> Brought(c)]
       THEN [step |-> "ANSWERED", token |-> result] ELSE pages[p]]
  /\ shared' = [shared EXCEPT ![Brought(c)] = IF @ = Pending THEN result ELSE @]
  /\ UNCHANGED <<otpVars, kind, device, faulty>>

WebAnswered(c) ==
  /\ Answer(c)
  /\ Resolve(c, IF rotation[c].step = "ANSWERED"
                THEN [sid |-> rotation[c].sid, token |-> rotation[c].next] ELSE Failed)

(* callRefresh ends in its catch: the pages go on as signed out. *)
WebFails(c) == Resolve(c, Failed) /\ UNCHANGED sessionVars

(* The page's answer sets the cookies, or clears them. *)
ShowPage(p) ==
  /\ pages[p].step = "ANSWERED"
  /\ device' = IF pages[p].token = Failed THEN SignedOut ELSE Holds(pages[p].token)
  /\ pages' = [pages EXCEPT ![p] = NoPage]
  /\ UNCHANGED <<otpVars, sessionVars, kind, shared, waits, faulty>>

(* REUSE_WINDOW_MS is over, or the web server restarts: too early for a    *)
(* browser that has not stored the new pair or has a page on its way.      *)
Forget(token) ==
  /\ shared[token] # NoToken
  /\ shared' = [shared EXCEPT ![token] = NoToken]
  /\ FaultIf(\/ device.token = token
             \/ \E p \in Pages : pages[p] = [step |-> "SENT", token |-> token])
  /\ UNCHANGED <<otpVars, sessionVars, kind, device, pages, waits>>

----------------------------------------------------------------------------
(* Somebody signs in for the first time; or, so that the two halves do not *)
(* multiply, a device has signed in with code k and no code is left.       *)
FirstVisit ==
  /\ OtpInit
  /\ SessionsInit
  /\ kind = "NEW"
  /\ device = SignedOut

SignedIn(k, s) ==
  /\ challenge = [j \in Codes |-> [made |-> TRUE, open |-> FALSE, attempts |-> 1,
                                   consumed |-> j = k, compared |-> 1]]
  /\ issue = [i \in Issues |-> NotIssuing]
  /\ guess = [g \in Guesses |-> NoGuess]
  /\ redis = Empty
  /\ account = [active |-> TRUE, ending |-> FALSE]
  /\ session = [r \in Sids |-> IF r = s
                 THEN [NoSession EXCEPT !.made = TRUE, !.tokens = <<FALSE>>] ELSE NoSession]
  /\ rotation = [c \in Rotations |-> NoCall]
  /\ kind \in Kinds
  /\ device = Holds([sid |-> s, token |-> 1])

Init ==
  /\ FirstVisit \/ \E k \in Codes, s \in Sids : SignedIn(k, s)
  /\ pages = [p \in Pages |-> NoPage]
  /\ shared = [t \in Tokens |-> NoToken]
  /\ waits = {}
  /\ faulty = FALSE

Codewise ==
  /\ \/ \E i \in Issues : Issuing(i)
     \/ \E g \in Guesses : Guessing(g)
     \/ OtpTime
  /\ UNCHANGED <<sessionVars, deviceVars>>

(* Bound: the session expires in the browser and the account is suspended  *)
(* under the others; to a device both are a refusal.                       *)
Serverside ==
  /\ \/ \E c \in Rotations : Rotating(c)
     \/ kind = "WEB" /\ \E s \in Sids : Expire(s)
     \/ kind = "NEW" /\ Suspend
     \/ kind = "APP" /\ AccountChange
  /\ UNCHANGED <<otpVars, deviceVars>>

SigningIn == \E g \in Guesses : FindUser(g) \/ \E s \in Sids : StartSession(g, s)

App == \E c \in Rotations : AppRefresh(c) \/ AppAnswered(c) \/ AppGivesUp(c)

Browser ==
  \/ \E p \in Pages : OpenPage(p) \/ Share(p) \/ ShowPage(p)
  \/ \E p \in Pages, c \in Rotations : WebRefresh(p, c)
  \/ \E c \in Rotations : WebAnswered(c) \/ WebFails(c)
  \/ \E token \in Tokens : Forget(token)

Next ==
  \/ Codewise
  \/ SigningIn
  \/ Serverside
  \/ SignOut
  \/ AccessEnds
  \/ App
  \/ Browser
  \/ \E c \in Rotations : Unheard(c)

Spec == Init /\ [][Next]_vars

----------------------------------------------------------------------------
(* A code signs in once, however many requests bring it: sessions, and     *)
(* sign-ins on their way to one, are no more than the codes used up.       *)
OneSessionPerCode ==
  Cardinality(Made) + Cardinality({g \in Guesses : guess[g].step \in {"VERIFIED", "ALLOWED"}})
    <= Cardinality({k \in Codes : challenge[k].consumed})

(* "Presenting a used token means it was copied": the device itself never  *)
(* does, so it is not signed out as for a theft, unless an answer was lost *)
(* or a page took longer than the proxy keeps its tokens.                  *)
ReuseOnlyAfterFault ==
  ~faulty => \A s \in Sids : session[s].revoked # "refresh_reuse"

=============================================================================
