------------------------------ MODULE Sessions ------------------------------
(***************************************************************************)
(* The sessions of one account and their rotating refresh tokens           *)
(* (sessions.service.ts).  A session is a row and the tokens it was given, *)
(* in order: TRUE once a token is used.  Refreshing is several database    *)
(* calls: rotation holds, for each call, what it has read or must still    *)
(* do.  Here anybody presents any token the API ever gave, as often as     *)
(* they like: Accounts says what the devices do.                           *)
(***************************************************************************)
EXTENDS Naturals, Sequences, FiniteSets

CONSTANTS
  Sids,          \* session ids
  Rotations,     \* bound: refresh calls at once
  MaxTokens,     \* bound: tokens of one session
  Realm          \* whose account it is: "USER" or "ADMIN"

ASSUME SessionsAssumption ==
  /\ IsFiniteSet(Sids)
  /\ MaxTokens \in Nat \ {0}
  /\ Realm \in {"USER", "ADMIN"}

VARIABLES
  account,       \* [active: the status of the account, ending: a suspension has
                 \*  changed the status and not revoked the sessions yet]
  session,       \* id -> row
  rotation       \* call -> [step, sid, token it brings, next token it answers]

sessionVars == <<account, session, rotation>>

NoSession == [made |-> FALSE, revoked |-> "NO", expired |-> FALSE, tokens |-> <<>>]

NoCall == [step |-> "IDLE", sid |-> "none", token |-> 0, next |-> 0]

Made == {s \in Sids : session[s].made}

Step(c, step) == rotation' = [rotation EXCEPT ![c].step = step]

----------------------------------------------------------------------------
(* create: the sign-in has just checked that the account is active. *)
Create(s) ==
  /\ ~session[s].made
  /\ session' = [session EXCEPT ![s] = [NoSession EXCEPT !.made = TRUE, !.tokens = <<FALSE>>]]
  /\ UNCHANGED <<account, rotation>>

(* POST /auth/refresh arrives with a token of session s. *)
Present(c, s, t) ==
  /\ rotation[c] = NoCall
  /\ s \in Sids /\ t \in 1..Len(session[s].tokens)
  /\ rotation' = [rotation EXCEPT ![c] = [step |-> "SENT", sid |-> s, token |-> t, next |-> 0]]
  /\ UNCHANGED <<account, session>>

(* What the first read decides, in the order of the code's checks. *)
Verdict(row, t) ==
  CASE row.revoked # "NO" -> "REFUSED"
    [] row.tokens[t] -> "REUSED"
    [] row.expired -> "REFUSED"
    [] ~account.active -> "INACTIVE"
    [] OTHER -> "CHECKED"

Check(c) ==
  /\ rotation[c].step = "SENT"
  /\ Step(c, Verdict(session[rotation[c].sid], rotation[c].token))
  /\ UNCHANGED <<account, session>>

(* The transaction.  A user's session slides: it lives for thirty days     *)
(* from this refresh; an administrator's keeps its end.                    *)
Slides(expired) == expired /\ Realm = "ADMIN"

AnyToken(row, t) == TRUE      \* mutant: marks the token without `usedAt: null`

Unused(row, t) == ~row.tokens[t]

Rotate(c) ==
  LET s == rotation[c].sid  t == rotation[c].token
  IN  /\ rotation[c].step = "CHECKED"
      /\ Unused(session[s], t)
      /\ Len(session[s].tokens) < MaxTokens
      /\ session' = [session EXCEPT ![s].tokens = Append([@ EXCEPT ![t] = TRUE], FALSE),
                                    ![s].expired = Slides(@)]
      /\ rotation' = [rotation EXCEPT ![c].step = "ANSWERED",
                                      ![c].next = Len(session[s].tokens) + 1]
      /\ UNCHANGED account

(* Somebody else used the token after the check: rolled back. *)
RotateLost(c) ==
  /\ rotation[c].step = "CHECKED"
  /\ ~Unused(session[rotation[c].sid], rotation[c].token)
  /\ Step(c, "REUSED")
  /\ UNCHANGED <<account, session>>

(* The reason is kept apart only where the answer says a token was used. *)
Revoked(row, reason) == [row EXCEPT !.revoked = IF @ = "NO" THEN reason ELSE @]

(* revoke, as the last thing a refused refresh does. *)
Revoke(c, step, reason) ==
  /\ rotation[c].step = step
  /\ session' = [session EXCEPT ![rotation[c].sid] = Revoked(@, reason)]
  /\ Step(c, "REFUSED")
  /\ UNCHANGED account

RevokeReused(c) == Revoke(c, "REUSED", "refresh_reuse")

RevokeInactive(c) == Revoke(c, "INACTIVE", "ended")

(* The answer reaches the client, or nothing does (a crash or a failed     *)
(* database call at any point, or the answer lost on its way).             *)
Answer(c) ==
  /\ rotation[c].step \in {"ANSWERED", "REFUSED"}
  /\ rotation' = [rotation EXCEPT ![c] = NoCall]
  /\ UNCHANGED <<account, session>>

Lose(c) ==
  /\ rotation[c] # NoCall
  /\ rotation' = [rotation EXCEPT ![c] = NoCall]
  /\ UNCHANGED <<account, session>>

(* logout, and revokeAll without an exception. *)
Logout(s) ==
  /\ s \in Made
  /\ session' = [session EXCEPT ![s] = Revoked(@, "ended")]
  /\ UNCHANGED <<account, rotation>>

(* setStatus of the admin panel: the status first, the sessions after. *)
Suspend ==
  /\ account.active
  /\ account' = [active |-> FALSE, ending |-> TRUE]
  /\ UNCHANGED <<session, rotation>>

RevokeAll ==
  /\ account.ending
  /\ session' = [s \in Sids |-> IF s \in Made THEN Revoked(session[s], "ended")
                                              ELSE session[s]]
  /\ account' = [account EXCEPT !.ending = FALSE]
  /\ UNCHANGED rotation

Reinstate ==
  /\ ~account.active /\ ~account.ending
  /\ account' = [account EXCEPT !.active = TRUE]
  /\ UNCHANGED <<session, rotation>>

(* The session's last day ends. *)
Expire(s) ==
  /\ s \in Made /\ ~session[s].expired
  /\ session' = [session EXCEPT ![s].expired = TRUE]
  /\ UNCHANGED <<account, rotation>>

----------------------------------------------------------------------------
SessionsInit ==
  /\ account = [active |-> TRUE, ending |-> FALSE]
  /\ session = [s \in Sids |-> NoSession]
  /\ rotation = [c \in Rotations |-> NoCall]

Rotating(c) ==
  \/ Check(c)
  \/ Rotate(c)
  \/ RotateLost(c)
  \/ RevokeReused(c)
  \/ RevokeInactive(c)

AccountChange == Suspend \/ RevokeAll \/ Reinstate

SessionsNext ==
  \/ \E s \in Sids : Create(s) \/ Logout(s) \/ Expire(s)
  \/ \E c \in Rotations, s \in Sids : \E t \in 1..Len(session[s].tokens) : Present(c, s, t)
  \/ \E c \in Rotations : Rotating(c) \/ Answer(c) \/ Lose(c)
  \/ AccountChange

SessionsSpec == SessionsInit /\ [][SessionsNext]_sessionVars

----------------------------------------------------------------------------
Reasons == {"NO", "refresh_reuse", "ended"}

Steps == {"IDLE", "SENT", "CHECKED", "REUSED", "INACTIVE", "ANSWERED", "REFUSED"}

Rows == [made : BOOLEAN, revoked : Reasons, expired : BOOLEAN, tokens : Seq(BOOLEAN)]

Calls == [step : Steps, sid : Sids \cup {"none"}, token : Nat, next : Nat]

(* The type invariant: a call that is under way brings a token of its session. *)
SessionsOK ==
  /\ account \in [active : BOOLEAN, ending : BOOLEAN]
  /\ session \in [Sids -> Rows]
  /\ \A s \in Sids : session[s].tokens = <<>> <=> ~session[s].made
  /\ rotation \in [Rotations -> Calls]
  /\ \A c \in Rotations : rotation[c].step # "IDLE" =>
       /\ rotation[c].sid \in Sids
       /\ rotation[c].token \in 1..Len(session[rotation[c].sid].tokens)

(* A session has one token that still works, the last it was given,        *)
(* however many refreshes run at once and whoever sends them ("only one    *)
(* wins").                                                                 *)
OneLiveToken ==
  \A s \in Sids : \A t \in 1..Len(session[s].tokens) :
    session[s].tokens[t] <=> t < Len(session[s].tokens)

=============================================================================
