--------------------------- MODULE AccountsProofs ---------------------------
(***************************************************************************)
(* Proofs about Accounts and its parts: whatever the clients send, a       *)
(* session has one token that works.  OneLiveToken is inductive together   *)
(* with the type invariant: the transaction marks an unused token, which   *)
(* is the last one, and adds the new last one.  It holds on every device,  *)
(* as each step of Accounts is, for the sessions, a step of Sessions or    *)
(* none.  A code takes no more guesses than the limit and signs in once,   *)
(* counted over the calls in progress (CodesInv); and a token comes back   *)
(* used only after a fault, whatever devices refresh at once (DeviceInv).  *)
(***************************************************************************)
EXTENDS Accounts, FiniteSetTheorems, SequenceTheorems, TLAPS

Inv == SessionsOK /\ OneLiveToken

(* Appending to a sequence of Booleans, one of them set to TRUE first. *)
LEMMA Marked ==
  ASSUME NEW q \in Seq(BOOLEAN), NEW t \in 1..Len(q),
         NEW r, r = Append([q EXCEPT ![t] = TRUE], FALSE)
  PROVE  /\ r \in Seq(BOOLEAN)
         /\ Len(r) = Len(q) + 1
         /\ r[Len(q) + 1] = FALSE
         /\ r[t] = TRUE
         /\ \A i \in 1..Len(q) : i # t => r[i] = q[i]
  <1>1. PICK p : p = [q EXCEPT ![t] = TRUE]
    OBVIOUS
  <1>2. /\ p \in Seq(BOOLEAN) /\ Len(p) = Len(q)
        /\ p[t] = TRUE /\ \A i \in 1..Len(q) : i # t => p[i] = q[i]
    BY <1>1
  <1>3. r = Append(p, FALSE)
    BY <1>1
  <1> QED BY <1>2, <1>3, AppendProperties

LEMMA InitInv == SessionsInit => Inv
  <1> SUFFICES ASSUME SessionsInit
               PROVE  Inv
    OBVIOUS
  <1>1. NoSession \in Rows /\ NoSession.tokens = <<>> /\ ~NoSession.made
    BY DEF NoSession, Rows, Reasons
  <1>2. NoCall \in Calls /\ NoCall.step = "IDLE"
    BY DEF NoCall, Calls, Steps
  <1>3. /\ session \in [Sids -> Rows]
        /\ \A s \in Sids : session[s].tokens = <<>> /\ ~session[s].made
    BY <1>1 DEF SessionsInit
  <1>4. rotation \in [Rotations -> Calls] /\ \A c \in Rotations : rotation[c].step = "IDLE"
    BY <1>2 DEF SessionsInit
  <1>5. account \in [active : BOOLEAN, ending : BOOLEAN]
    BY DEF SessionsInit
  <1>6. OneLiveToken
    BY <1>3 DEF OneLiveToken
  <1> QED BY <1>3, <1>4, <1>5, <1>6 DEF Inv, SessionsOK

SameRow(new, old) == new.tokens = old.tokens /\ new.made = old.made

(* What a step may do to a row without touching its tokens. *)
LEMMA RowKept ==
  ASSUME NEW row \in Rows, NEW reason \in Reasons
  PROVE  /\ Revoked(row, reason) \in Rows /\ SameRow(Revoked(row, reason), row)
         /\ [row EXCEPT !.expired = TRUE] \in Rows
         /\ SameRow([row EXCEPT !.expired = TRUE], row)
  BY DEF Rows, Revoked, Reasons, SameRow

LEMMA KeptAt ==
  ASSUME session \in [Sids -> Rows], NEW s \in Sids, NEW row \in Rows, SameRow(row, session[s]),
         session' = [session EXCEPT ![s] = row]
  PROVE  /\ session' \in [Sids -> Rows]
         /\ \A r \in Sids : SameRow(session'[r], session[r])
  BY DEF SameRow

(* Rows of the same type with the same tokens: the rest is about calls. *)
LEMMA SameTokens ==
  ASSUME Inv, account' \in [active : BOOLEAN, ending : BOOLEAN],
         session' \in [Sids -> Rows],
         \A s \in Sids : SameRow(session'[s], session[s]),
         rotation' \in [Rotations -> Calls],
         \A c \in Rotations : rotation'[c].step # "IDLE" =>
           /\ rotation'[c].sid \in Sids
           /\ rotation'[c].token \in 1..Len(session[rotation'[c].sid].tokens)
  PROVE  Inv'
  BY DEF Inv, SessionsOK, OneLiveToken, SameRow

(* A call that goes on to its next step, or ends. *)
LEMMA CallKept ==
  ASSUME NEW row \in Calls, NEW step \in Steps
  PROVE  /\ [row EXCEPT !.step = step] \in Calls
         /\ [row EXCEPT !.step = step].sid = row.sid
         /\ [row EXCEPT !.step = step].token = row.token
         /\ NoCall \in Calls /\ NoCall.step = "IDLE"
  BY DEF Calls, NoCall, Steps

LEMMA StepKept ==
  ASSUME Inv, NEW c \in Rotations, rotation[c].step # "IDLE", NEW step \in Steps, Step(c, step),
         account' \in [active : BOOLEAN, ending : BOOLEAN],
         session' \in [Sids -> Rows],
         \A s \in Sids : SameRow(session'[s], session[s])
  PROVE  Inv'
  <1>1. \A d \in Rotations : rotation[d] \in Calls
    BY DEF Inv, SessionsOK
  <1>2. rotation' = [rotation EXCEPT ![c] = [rotation[c] EXCEPT !.step = step]]
    BY DEF Step, Inv, SessionsOK
  <1>3. rotation' \in [Rotations -> Calls]
    BY <1>1, <1>2, CallKept DEF Inv, SessionsOK
  <1>4. \A d \in Rotations : /\ rotation'[d].sid = rotation[d].sid
                             /\ rotation'[d].token = rotation[d].token
                             /\ d # c => rotation'[d] = rotation[d]
    BY <1>1, <1>2, CallKept DEF Inv, SessionsOK
  <1> QED BY <1>3, <1>4, SameTokens DEF Inv, SessionsOK

LEMMA NextInv == Inv /\ [SessionsNext]_sessionVars => Inv'
  <1> SUFFICES ASSUME Inv, [SessionsNext]_sessionVars
               PROVE  Inv'
    OBVIOUS
  <1>a. /\ account \in [active : BOOLEAN, ending : BOOLEAN]
        /\ session \in [Sids -> Rows]
        /\ \A s \in Sids : session[s].tokens = <<>> <=> ~session[s].made
        /\ rotation \in [Rotations -> Calls]
        /\ \A c \in Rotations : rotation[c].step # "IDLE" =>
             /\ rotation[c].sid \in Sids
             /\ rotation[c].token \in 1..Len(session[rotation[c].sid].tokens)
    BY DEF Inv, SessionsOK
  <1>1. ASSUME NEW s \in Sids, Create(s)
        PROVE  Inv'
    <2>1. PICK row : row = [NoSession EXCEPT !.made = TRUE, !.tokens = <<FALSE>>]
      OBVIOUS
    <2>2. row = [made |-> TRUE, revoked |-> "NO", expired |-> FALSE, tokens |-> <<FALSE>>]
      BY <2>1 DEF NoSession
    <2>3. PICK q : q = <<FALSE>>
      OBVIOUS
    <2>4. q \in Seq(BOOLEAN) /\ Len(q) = 1 /\ q[1] = FALSE /\ q # <<>>
      BY <2>3
    <2>5. row \in Rows /\ row.tokens = q /\ row.made
      BY <2>2, <2>3, <2>4 DEF Rows, Reasons
    <2>6. session' = [session EXCEPT ![s] = row]
      BY <1>1, <2>1 DEF Create
    <2>7. /\ session' \in [Sids -> Rows]
          /\ \A r \in Sids : session'[r] = IF r = s THEN row ELSE session[r]
      BY <1>a, <2>5, <2>6
    <2>8. session[s].tokens = <<>>
      BY <1>1, <1>a DEF Create
    <2>9. \A c \in Rotations : rotation[c].step # "IDLE" => rotation[c].sid # s
      BY <1>a, <2>8
    <2>10. OneLiveToken'
      <3>1. \A t \in 1..Len(q) : q[t] <=> t < Len(q)
        BY <2>4
      <3>2. OneLiveToken
        BY DEF Inv
      <3> QED BY <2>5, <2>7, <3>1, <3>2 DEF OneLiveToken
    <2>11. \A r \in Sids : session'[r].tokens = <<>> <=> ~session'[r].made
      BY <1>a, <2>4, <2>5, <2>7
    <2>12. UNCHANGED <<account, rotation>>
      BY <1>1 DEF Create
    <2>13. /\ account' \in [active : BOOLEAN, ending : BOOLEAN]
           /\ rotation' \in [Rotations -> Calls]
      BY <1>a, <2>12
    <2>14. \A c \in Rotations : rotation'[c].step # "IDLE" =>
             /\ rotation'[c].sid \in Sids
             /\ rotation'[c].token \in 1..Len(session'[rotation'[c].sid].tokens)
      BY <1>a, <2>7, <2>9, <2>12
    <2> QED BY <2>7, <2>10, <2>11, <2>13, <2>14 DEF Inv, SessionsOK
  <1>2. ASSUME NEW s \in Sids, Logout(s) \/ Expire(s)
        PROVE  Inv'
    <2>1. session[s] \in Rows /\ "ended" \in Reasons
      BY <1>a DEF Reasons
    <2>2. \/ session' = [session EXCEPT ![s] = Revoked(session[s], "ended")]
          \/ session' = [session EXCEPT ![s] = [session[s] EXCEPT !.expired = TRUE]]
      BY <1>2, <1>a DEF Logout, Expire
    <2>3. /\ session' \in [Sids -> Rows]
          /\ \A r \in Sids : SameRow(session'[r], session[r])
      <3>1. CASE session' = [session EXCEPT ![s] = Revoked(session[s], "ended")]
        BY <1>a, <2>1, <3>1, RowKept, KeptAt
      <3>2. CASE session' = [session EXCEPT ![s] = [session[s] EXCEPT !.expired = TRUE]]
        <4>1. PICK row : row = [session[s] EXCEPT !.expired = TRUE]
          OBVIOUS
        <4>2. row \in Rows /\ SameRow(row, session[s])
          BY <2>1, <4>1, RowKept
        <4>3. session' = [session EXCEPT ![s] = row]
          BY <3>2, <4>1
        <4> QED BY <1>a, <4>2, <4>3, KeptAt
      <3> QED BY <2>2, <3>1, <3>2
    <2> QED BY <1>2, <1>a, <2>3, SameTokens DEF Logout, Expire
  <1>3. ASSUME NEW c \in Rotations, NEW s \in Sids,
               NEW t \in 1..Len(session[s].tokens), Present(c, s, t)
        PROVE  Inv'
    <2>1. [step |-> "SENT", sid |-> s, token |-> t, next |-> 0] \in Calls
      BY <1>a DEF Calls, Steps, Rows
    <2> QED BY <1>3, <1>a, <2>1, SameTokens DEF Present, SameRow
  <1>4. ASSUME NEW c \in Rotations, Rotate(c)
        PROVE  Inv'
    <2> DEFINE s == rotation[c].sid
               t == rotation[c].token
               q == session[s].tokens
    <2>1. s \in Sids /\ q \in Seq(BOOLEAN) /\ t \in 1..Len(q) /\ ~q[t]
      BY <1>4, <1>a DEF Rotate, Unused, Rows
    <2> HIDE DEF s, t, q
    <2>2. PICK r : r = Append([q EXCEPT ![t] = TRUE], FALSE)
      OBVIOUS
    <2>3. /\ r \in Seq(BOOLEAN)
          /\ Len(r) = Len(q) + 1
          /\ r[Len(q) + 1] = FALSE
          /\ r[t] = TRUE
          /\ \A i \in 1..Len(q) : i # t => r[i] = q[i]
      BY <2>1, <2>2, Marked
    <2>4. PICK row : row = [session[s] EXCEPT !.tokens = r, !.expired = Slides(@)]
      OBVIOUS
    <2>5. row \in Rows /\ row.tokens = r /\ row.made = session[s].made
      BY <1>a, <2>1, <2>3, <2>4 DEF Rows, Slides
    <2>6. session' = [session EXCEPT ![s] = row]
      BY <1>4, <1>a, <2>1, <2>2, <2>4 DEF Rotate, s, t, q
    <2>7. t = Len(q) /\ \A i \in 1..Len(q) : i # t => q[i]
      BY <2>1 DEF Inv, OneLiveToken, q
    <2>8. \A i \in 1..Len(r) : r[i] <=> i < Len(r)
      BY <2>1, <2>3, <2>7
    <2>9. OneLiveToken'
      BY <1>a, <2>1, <2>5, <2>6, <2>8 DEF Inv, OneLiveToken
    <2>10. session' \in [Sids -> Rows]
      BY <1>a, <2>1, <2>5, <2>6
    <2>11. rotation' \in [Rotations -> Calls]
      <3>1. PICK n : n = Len(session[rotation[c].sid].tokens) + 1
        OBVIOUS
      <3>2. n \in Nat
        BY <2>1, <3>1 DEF s, q
      <3>3. rotation' = [rotation EXCEPT ![c].step = "ANSWERED", ![c].next = n]
        BY <1>4, <3>1 DEF Rotate
      <3>4. PICK call : call = [rotation[c] EXCEPT !.step = "ANSWERED", !.next = n]
        OBVIOUS
      <3>5. rotation[c] \in Calls
        BY <1>a
      <3>6. call \in Calls
        BY <3>2, <3>4, <3>5 DEF Calls, Steps
      <3>7. rotation' = [rotation EXCEPT ![c] = call]
        BY <1>a, <3>3, <3>4
      <3> QED BY <1>a, <3>6, <3>7
    <2>12. \A u \in Sids : 1..Len(session[u].tokens) \subseteq 1..Len(session'[u].tokens)
      BY <1>a, <2>1, <2>3, <2>5, <2>6 DEF q, Rows
    <2>13. \A d \in Rotations : /\ rotation'[d].sid = rotation[d].sid
                                /\ rotation'[d].token = rotation[d].token
                                /\ d # c => rotation'[d] = rotation[d]
      BY <1>4, <1>a DEF Rotate, Calls
    <2>14. rotation[c].step # "IDLE" /\ account' = account
      BY <1>4 DEF Rotate
    <2>15. \A u \in Sids : session'[u].tokens = <<>> <=> ~session'[u].made
      <3>1. q # <<>> /\ r # <<>>
        BY <2>1, <2>3
      <3> QED BY <1>a, <2>1, <2>5, <2>6, <3>1 DEF q
    <2>16. \A d \in Rotations : rotation'[d].step # "IDLE" =>
             /\ rotation'[d].sid \in Sids
             /\ rotation'[d].token \in 1..Len(session'[rotation'[d].sid].tokens)
      BY <1>a, <2>12, <2>13, <2>14
    <2> QED BY <1>a, <2>9, <2>10, <2>11, <2>14, <2>15, <2>16 DEF Inv, SessionsOK
  <1>5. ASSUME NEW c \in Rotations, Check(c) \/ RotateLost(c)
        PROVE  Inv'
    <2>1. Verdict(session[rotation[c].sid], rotation[c].token) \in Steps /\ "REUSED" \in Steps
      BY DEF Verdict, Steps
    <2> QED BY <1>5, <1>a, <2>1, StepKept DEF Check, RotateLost, SameRow
  <1>6. ASSUME NEW c \in Rotations, RevokeReused(c) \/ RevokeInactive(c)
        PROVE  Inv'
    <2>1. PICK reason \in Reasons :
            session' = [session EXCEPT ![rotation[c].sid] =
                          Revoked(session[rotation[c].sid], reason)]
      BY <1>6 DEF RevokeReused, RevokeInactive, Revoke, Reasons
    <2>2. rotation[c].step # "IDLE" /\ Step(c, "REFUSED") /\ account' = account
          /\ "REFUSED" \in Steps
      BY <1>6 DEF RevokeReused, RevokeInactive, Revoke, Steps
    <2>3. /\ session' \in [Sids -> Rows]
          /\ \A r \in Sids : SameRow(session'[r], session[r])
      <3>1. PICK row : row = Revoked(session[rotation[c].sid], reason)
        OBVIOUS
      <3>2. rotation[c].sid \in Sids /\ session[rotation[c].sid] \in Rows
        BY <1>a, <2>2
      <3>3. row \in Rows /\ SameRow(row, session[rotation[c].sid])
        BY <3>1, <3>2, RowKept
      <3> QED BY <1>a, <2>1, <3>1, <3>2, <3>3, KeptAt
    <2> QED BY <1>a, <2>2, <2>3, StepKept
  <1>7. ASSUME NEW c \in Rotations, Answer(c) \/ Lose(c)
        PROVE  Inv'
    <2>1. NoCall \in Calls /\ NoCall.step = "IDLE"
      BY DEF NoCall, Calls, Steps
    <2>2. rotation' = [rotation EXCEPT ![c] = NoCall] /\ UNCHANGED <<account, session>>
      BY <1>7 DEF Answer, Lose
    <2> QED BY <1>a, <2>1, <2>2, SameTokens DEF SameRow
  <1>8. CASE AccountChange
    <2>1. /\ account' \in [active : BOOLEAN, ending : BOOLEAN]
          /\ rotation' = rotation
          /\ \/ session' = session
             \/ session' = [s \in Sids |-> IF s \in Made THEN Revoked(session[s], "ended")
                                                         ELSE session[s]]
      <3>1. CASE Suspend
        BY <3>1 DEF Suspend
      <3>2. CASE RevokeAll
        BY <3>2, <1>a DEF RevokeAll
      <3>3. CASE Reinstate
        BY <3>3, <1>a DEF Reinstate
      <3> QED BY <1>8, <3>1, <3>2, <3>3 DEF AccountChange
    <2>2. /\ session' \in [Sids -> Rows]
          /\ \A r \in Sids : SameRow(session'[r], session[r])
      <3>1. \A s \in Sids : session[s] \in Rows /\ "ended" \in Reasons
        BY <1>a DEF Reasons
      <3>2. \A s \in Sids : /\ Revoked(session[s], "ended") \in Rows
                            /\ SameRow(Revoked(session[s], "ended"), session[s])
        BY <3>1, RowKept
      <3> QED BY <1>a, <2>1, <3>2 DEF SameRow
    <2> QED BY <1>a, <2>1, <2>2, SameTokens
  <1>9. CASE UNCHANGED sessionVars
    BY <1>9, <1>a, SameTokens DEF sessionVars, SameRow
  <1> QED BY <1>1, <1>2, <1>3, <1>4, <1>5, <1>6, <1>7, <1>8, <1>9 DEF SessionsNext, Rotating

(* However many refreshes run at once, whatever tokens they bring and      *)
(* wherever they stop, a session has one working token, its last.          *)
THEOREM OneTokenAlways == SessionsSpec => [](SessionsOK /\ OneLiveToken)
  <1>1. Inv /\ [SessionsNext]_sessionVars => Inv'
    BY NextInv
  <1>2. Inv => SessionsOK /\ OneLiveToken
    BY DEF Inv
  <1> QED BY InitInv, <1>1, <1>2, PTL DEF SessionsSpec

----------------------------------------------------------------------------
(* The devices.                                                            *)

LEMMA SignedInInv ==
  ASSUME NEW k \in Codes, NEW s \in Sids, SignedIn(k, s)
  PROVE  Inv
  <1>1. PICK q : q = <<FALSE>>
    OBVIOUS
  <1>2. q \in Seq(BOOLEAN) /\ Len(q) = 1 /\ q[1] = FALSE /\ q # <<>>
    BY <1>1
  <1>3. PICK row : row = [NoSession EXCEPT !.made = TRUE, !.tokens = <<FALSE>>]
    OBVIOUS
  <1>4. row = [made |-> TRUE, revoked |-> "NO", expired |-> FALSE, tokens |-> q]
    BY <1>1, <1>3 DEF NoSession
  <1>5. row \in Rows /\ row.tokens = q /\ row.made
    BY <1>2, <1>4 DEF Rows, Reasons
  <1>6. NoSession \in Rows /\ NoSession.tokens = <<>> /\ ~NoSession.made
    BY DEF NoSession, Rows, Reasons
  <1>7. session = [r \in Sids |-> IF r = s THEN row ELSE NoSession]
    BY <1>3 DEF SignedIn
  <1>8. /\ session \in [Sids -> Rows]
        /\ \A r \in Sids : session[r].tokens = <<>> <=> ~session[r].made
    BY <1>2, <1>5, <1>6, <1>7
  <1>9. NoCall \in Calls /\ NoCall.step = "IDLE"
    BY DEF NoCall, Calls, Steps
  <1>10. rotation \in [Rotations -> Calls] /\ \A c \in Rotations : rotation[c].step = "IDLE"
    BY <1>9 DEF SignedIn
  <1>11. account \in [active : BOOLEAN, ending : BOOLEAN]
    BY DEF SignedIn
  <1>12. OneLiveToken
    <2>1. ASSUME NEW r \in Sids
          PROVE  session[r].tokens = q \/ session[r].tokens = <<>>
      BY <1>5, <1>6, <1>7
    <2>2. \A t \in 1..Len(q) : q[t] <=> t < Len(q)
      BY <1>2
    <2> QED BY <2>1, <2>2 DEF OneLiveToken
  <1> QED BY <1>8, <1>10, <1>11, <1>12 DEF Inv, SessionsOK

LEMMA StartsInv == Init => Inv
  BY InitInv, SignedInInv DEF Init, FirstVisit

LEMMA StepsOfSessions == [Next]_vars => [SessionsNext]_sessionVars
  <1> SUFFICES ASSUME [Next]_vars
               PROVE  [SessionsNext]_sessionVars
    OBVIOUS
  <1>1. CASE Codewise
    BY <1>1 DEF Codewise
  <1>2. CASE SigningIn
    BY <1>2 DEF SigningIn, FindUser, StartSession, SessionsNext
  <1>3. CASE Serverside
    BY <1>3 DEF Serverside, SessionsNext, AccountChange
  <1>4. CASE SignOut
    BY <1>4 DEF SignOut, SessionsNext, Logout, Made, sessionVars
  <1>5. CASE AccessEnds
    BY <1>5 DEF AccessEnds
  <1>6. CASE App
    <2>1. ASSUME NEW c \in Rotations, AppRefresh(c)
          PROVE  SessionsNext
      BY <2>1 DEF AppRefresh, SessionsNext, Present
    <2>2. ASSUME NEW c \in Rotations, AppAnswered(c) \/ AppGivesUp(c)
          PROVE  [SessionsNext]_sessionVars
      BY <2>2 DEF AppAnswered, AppGivesUp, SessionsNext
    <2> QED BY <1>6, <2>1, <2>2 DEF App
  <1>7. CASE Browser
    <2>1. ASSUME NEW p \in Pages, NEW c \in Rotations, WebRefresh(p, c)
          PROVE  SessionsNext
      BY <2>1 DEF WebRefresh, SessionsNext, Present
    <2>2. ASSUME NEW p \in Pages, OpenPage(p) \/ Share(p) \/ ShowPage(p)
          PROVE  UNCHANGED sessionVars
      BY <2>2 DEF OpenPage, Share, ShowPage
    <2>3. ASSUME NEW c \in Rotations, WebAnswered(c)
          PROVE  SessionsNext
      BY <2>3 DEF WebAnswered, SessionsNext
    <2>4. ASSUME NEW c \in Rotations, WebFails(c)
          PROVE  UNCHANGED sessionVars
      BY <2>4 DEF WebFails
    <2>5. ASSUME NEW token \in Tokens, Forget(token)
          PROVE  UNCHANGED sessionVars
      BY <2>5 DEF Forget
    <2> QED BY <1>7, <2>1, <2>2, <2>3, <2>4, <2>5 DEF Browser
  <1>8. CASE \E c \in Rotations : Unheard(c)
    BY <1>8 DEF Unheard, SessionsNext
  <1>9. CASE UNCHANGED vars
    BY <1>9 DEF vars, sessionVars
  <1> QED BY <1>1, <1>2, <1>3, <1>4, <1>5, <1>6, <1>7, <1>8, <1>9 DEF Next

(* Whatever the device does and wherever a refresh stops, a session has    *)
(* one refresh token that works (rotate).                                  *)
THEOREM OneTokenOnEveryDevice == Spec => [](SessionsOK /\ OneLiveToken)
  <1>1. Inv /\ [Next]_vars => Inv'
    BY StepsOfSessions, NextInv
  <1>2. Inv => SessionsOK /\ OneLiveToken
    BY DEF Inv
  <1> QED BY StartsInv, <1>1, <1>2, PTL DEF Spec

----------------------------------------------------------------------------
(* The codes.  A guess is counted on its code before it is compared, so    *)
(* the guesses that are counted and not compared yet are part of the sum.  *)

CodeRows == [made : BOOLEAN, open : BOOLEAN, attempts : 0..MaxAttempts,
             consumed : BOOLEAN, compared : Nat]

GuessRows == [step : {"IDLE", "READ", "COUNTED", "MATCHED", "VERIFIED", "ALLOWED"},
              code : Codes \cup {"none"}, right : BOOLEAN]

Blank(row) == row.attempts = 0 /\ row.compared = 0 /\ ~row.open /\ ~row.consumed

OtpOK ==
  /\ challenge \in [Codes -> CodeRows]
  /\ \A k \in Codes : ~challenge[k].made => Blank(challenge[k])
  /\ guess \in [Guesses -> GuessRows]
  /\ \A g \in Guesses : guess[g].step # "IDLE" =>
       guess[g].code \in Codes /\ challenge[guess[g].code].made

CountedOn(k) == {g \in Guesses : guess[g].step = "COUNTED" /\ guess[g].code = k}

Counting == [k \in Codes |-> Cardinality(CountedOn(k))]

CountsCover == \A k \in Codes : challenge[k].compared + Counting[k] <= challenge[k].attempts

SigningOn == {g \in Guesses : guess[g].step \in {"VERIFIED", "ALLOWED"}}

UsedUp == {k \in Codes : challenge[k].consumed}

CodesInv == OtpOK /\ CountsCover /\ OneSessionPerCode

(* A set of which one member came, went or stayed.                         *)
LEMMA OneMoves ==
  ASSUME NEW S, IsFiniteSet(S), NEW x, NEW T, T = S \cup {x} \/ T = S \ {x}
  PROVE  /\ Cardinality(S) \in Nat /\ Cardinality(T) \in Nat
         /\ Cardinality(T) = Cardinality(S) + (IF x \in T THEN 1 ELSE 0)
                                            - (IF x \in S THEN 1 ELSE 0)
  <1>1. Cardinality(S) \in Nat
    BY FS_CardinalityType
  <1>2. CASE T = S \cup {x}
    <2>1. IsFiniteSet(T) /\ Cardinality(T) = IF x \in S THEN Cardinality(S) ELSE Cardinality(S) + 1
      BY <1>2, FS_AddElement
    <2>2. Cardinality(T) \in Nat
      BY <2>1, FS_CardinalityType
    <2> QED BY <1>1, <1>2, <2>1, <2>2
  <1>3. CASE T = S \ {x}
    <2>1. IsFiniteSet(T) /\ Cardinality(T) = IF x \in S THEN Cardinality(S) - 1 ELSE Cardinality(S)
      BY <1>3, FS_RemoveElement
    <2>2. Cardinality(T) \in Nat
      BY <2>1, FS_CardinalityType
    <2> QED BY <1>1, <1>3, <2>1, <2>2
  <1> QED BY <1>2, <1>3

LEMMA Counted ==
  ASSUME NEW k \in Codes
  PROVE  /\ IsFiniteSet(CountedOn(k)) /\ Cardinality(CountedOn(k)) \in Nat
         /\ Counting[k] \in Nat
  BY OtpAssumption, FS_Subset, FS_CardinalityType DEF CountedOn, Counting

LEMMA Signing ==
  /\ IsFiniteSet(SigningOn) /\ Cardinality(SigningOn) \in Nat
  /\ IsFiniteSet(UsedUp) /\ Cardinality(UsedUp) \in Nat
  /\ IsFiniteSet(Made) /\ Cardinality(Made) \in Nat
  BY OtpAssumption, SessionsAssumption, FS_Subset, FS_CardinalityType
     DEF SigningOn, UsedUp, Made

Waiting(row, k) == IF row.step = "COUNTED" /\ row.code = k THEN 1 ELSE 0

Signs(row) == IF row.step \in {"VERIFIED", "ALLOWED"} THEN 1 ELSE 0

(* What the step of one guess does to the sets that are counted.           *)
LEMMA GuessMoves ==
  ASSUME guess \in [Guesses -> GuessRows], NEW g \in Guesses, NEW row,
         guess' = [guess EXCEPT ![g] = row]
  PROVE  /\ \A k \in Codes :
              Counting'[k] = Counting[k]
                + Waiting(row, k)
                - Waiting(guess[g], k)
         /\ Cardinality(SigningOn)' =
              Cardinality(SigningOn)
                + Signs(row)
                - Signs(guess[g])
  <1>1. \A h \in Guesses : guess'[h] = IF h = g THEN row ELSE guess[h]
    OBVIOUS
  <1>2. ASSUME NEW k \in Codes
        PROVE  Counting'[k] = Counting[k]
                 + Waiting(row, k)
                 - Waiting(guess[g], k)
    <2>1. CountedOn(k)' = CountedOn(k) \cup {g} \/ CountedOn(k)' = CountedOn(k) \ {g}
      BY <1>1 DEF CountedOn
    <2>2. /\ g \in CountedOn(k)' <=> row.step = "COUNTED" /\ row.code = k
          /\ g \in CountedOn(k) <=> guess[g].step = "COUNTED" /\ guess[g].code = k
      BY <1>1 DEF CountedOn
    <2>3. Cardinality(CountedOn(k)') = Cardinality(CountedOn(k))
             + (IF g \in CountedOn(k)' THEN 1 ELSE 0) - (IF g \in CountedOn(k) THEN 1 ELSE 0)
      BY <2>1, Counted, OneMoves
    <2>4. Counting'[k] = Cardinality(CountedOn(k)') /\ Counting[k] = Cardinality(CountedOn(k))
      BY DEF Counting
    <2> QED BY <2>2, <2>3, <2>4 DEF Waiting
  <1>3. SigningOn' = SigningOn \cup {g} \/ SigningOn' = SigningOn \ {g}
    BY <1>1 DEF SigningOn
  <1>4. /\ g \in SigningOn' <=> row.step \in {"VERIFIED", "ALLOWED"}
        /\ g \in SigningOn <=> guess[g].step \in {"VERIFIED", "ALLOWED"}
    BY <1>1 DEF SigningOn
  <1>5. Cardinality(SigningOn') = Cardinality(SigningOn)
           + (IF g \in SigningOn' THEN 1 ELSE 0) - (IF g \in SigningOn THEN 1 ELSE 0)
    BY <1>3, Signing, OneMoves
  <1>6. Cardinality(SigningOn)' = Cardinality(SigningOn')
    OBVIOUS
  <1> QED BY <1>2, <1>4, <1>5, <1>6 DEF Signs

(* A step that guesses nothing: the counts and what is used up stay.       *)
SameCounts(new, old) ==
  /\ new.attempts = old.attempts
  /\ new.compared = old.compared
  /\ new.consumed = old.consumed
  /\ old.made => new.made

LEMMA CountsStay ==
  ASSUME CodesInv, guess' = guess, challenge' \in [Codes -> CodeRows],
         \A k \in Codes : SameCounts(challenge'[k], challenge[k]),
         \A k \in Codes : ~challenge'[k].made => Blank(challenge'[k]),
         Made' = Made
  PROVE  CodesInv'
  <1>1. OtpOK'
    BY DEF CodesInv, OtpOK, SameCounts
  <1>2. Counting' = Counting
    BY DEF Counting, CountedOn
  <1>3. SigningOn' = SigningOn /\ UsedUp' = UsedUp
    BY DEF SigningOn, UsedUp, SameCounts
  <1>4. CountsCover'
    BY <1>2 DEF CodesInv, CountsCover, SameCounts
  <1>5. OneSessionPerCode'
    BY <1>3 DEF CodesInv, OneSessionPerCode, SigningOn, UsedUp
  <1> QED BY <1>1, <1>4, <1>5 DEF CodesInv

(* The step of one guess: whatever it adds to a side of a sum, it adds to  *)
(* the other.                                                              *)
Placed(row) == row.step # "IDLE" => row.code \in Codes /\ challenge[row.code].made

KeepsCounts(g, row) ==
  \A k \in Codes :
    challenge'[k].compared + Waiting(row, k) + challenge[k].attempts
      <= challenge[k].compared + Waiting(guess[g], k) + challenge'[k].attempts

KeepsSignIns(g, row) ==
  Cardinality(Made') + Signs(row) + Cardinality(UsedUp)
    <= Cardinality(Made) + Signs(guess[g]) + Cardinality(UsedUp')

LEMMA GuessKeeps ==
  ASSUME CodesInv, NEW g \in Guesses, NEW row \in GuessRows, guess' = [guess EXCEPT ![g] = row],
         Placed(row), KeepsCounts(g, row), KeepsSignIns(g, row),
         challenge' \in [Codes -> CodeRows],
         \A k \in Codes : challenge'[k].made = challenge[k].made,
         \A k \in Codes : ~challenge[k].made => Blank(challenge'[k]),
         Cardinality(Made') \in Nat, Cardinality(UsedUp') \in Nat
  PROVE  CodesInv'
  <1>0. guess \in [Guesses -> GuessRows] /\ challenge \in [Codes -> CodeRows]
    BY DEF CodesInv, OtpOK
  <1>1. OtpOK'
    <2>1. guess' \in [Guesses -> GuessRows]
      BY <1>0
    <2>2. \A h \in Guesses : guess'[h] = IF h = g THEN row ELSE guess[h]
      BY <1>0
    <2> QED BY <2>1, <2>2 DEF CodesInv, OtpOK, Placed
  <1>4. \A k \in Codes :
          Counting'[k] = Counting[k]
            + Waiting(row, k)
            - Waiting(guess[g], k)
    BY <1>0, GuessMoves
  <1>2. ASSUME NEW k \in Codes
        PROVE  challenge'[k].compared + Counting'[k] <= challenge'[k].attempts
    <2>1. Counting'[k] = Counting[k]
              + Waiting(row, k)
              - Waiting(guess[g], k)
      BY <1>4
    <2>2. /\ challenge[k].compared \in Nat /\ challenge'[k].compared \in Nat
          /\ challenge[k].attempts \in Nat /\ challenge'[k].attempts \in Nat
      BY <1>0, OtpAssumption DEF CodeRows
    <2>3. challenge[k].compared + Counting[k] <= challenge[k].attempts
      BY DEF CodesInv, CountsCover
    <2>4. Waiting(row, k) \in Nat /\ Waiting(guess[g], k) \in Nat
      BY DEF Waiting
    <2>5. challenge'[k].compared + Waiting(row, k) + challenge[k].attempts
            <= challenge[k].compared + Waiting(guess[g], k) + challenge'[k].attempts
      BY DEF KeepsCounts
    <2> QED BY <2>1, <2>2, <2>3, <2>4, <2>5, Counted
  <1>3. OneSessionPerCode'
    <2>2. Cardinality(SigningOn)' =
            Cardinality(SigningOn)
              + Signs(row)
              - Signs(guess[g])
      BY <1>0, GuessMoves
    <2>3. Cardinality(Made) + Cardinality(SigningOn) <= Cardinality(UsedUp)
      BY DEF CodesInv, OneSessionPerCode, SigningOn, UsedUp
    <2>4. Cardinality(Made') + Cardinality(SigningOn)' <= Cardinality(UsedUp')
      <3>1. Signs(row) \in Nat /\ Signs(guess[g]) \in Nat
        BY DEF Signs
      <3>2. Cardinality(Made') + Signs(row) + Cardinality(UsedUp)
              <= Cardinality(Made) + Signs(guess[g]) + Cardinality(UsedUp')
        BY DEF KeepsSignIns
      <3> QED BY <2>2, <2>3, <3>1, <3>2, Signing
    <2> QED BY <2>4 DEF OneSessionPerCode, SigningOn, UsedUp
  <1> QED BY <1>1, <1>2, <1>3 DEF CodesInv, CountsCover

LEMMA IssuingKeeps ==
  ASSUME CodesInv, NEW i \in Issues, Issuing(i), UNCHANGED sessionVars
  PROVE  CodesInv'
  <1>0. /\ challenge \in [Codes -> CodeRows]
        /\ \A k \in Codes : ~challenge[k].made => Blank(challenge[k])
        /\ Made' = Made
    BY DEF CodesInv, OtpOK, Made, sessionVars
  <1>1. CASE Ask(i) \/ Delivered(i) \/ TakeBack(i)
    BY <1>0, <1>1, CountsStay DEF Ask, Delivered, TakeBack, SameCounts
  <1>2. CASE Replace(i)
    <2>1. \A k \in Codes : challenge'[k] = IF Usable(k) THEN [challenge[k] EXCEPT !.open = FALSE]
                                           ELSE challenge[k]
      BY <1>2 DEF Replace
    <2>2. \A k \in Codes : /\ [challenge[k] EXCEPT !.open = FALSE] \in CodeRows
                           /\ SameCounts([challenge[k] EXCEPT !.open = FALSE], challenge[k])
                           /\ [challenge[k] EXCEPT !.open = FALSE].made = challenge[k].made
      BY <1>0 DEF CodeRows, SameCounts
    <2>3. \A k \in Codes : Usable(k) => challenge[k].made
      BY <1>0 DEF Usable, Blank
    <2>4. challenge' \in [Codes -> CodeRows]
      BY <1>0, <1>2, <2>1, <2>2 DEF Replace
    <2>5. \A k \in Codes : /\ SameCounts(challenge'[k], challenge[k])
                           /\ ~challenge'[k].made => Blank(challenge'[k])
      BY <1>0, <2>1, <2>2, <2>3 DEF SameCounts
    <2> QED BY <1>0, <1>2, <2>4, <2>5, CountsStay DEF Replace
  <1>3. ASSUME NEW k \in Codes, MakeCode(i, k)
        PROVE  CodesInv'
    <2>1. PICK row : row = [NoCode EXCEPT !.made = TRUE, !.open = TRUE]
      OBVIOUS
    <2>2. row \in CodeRows /\ SameCounts(row, challenge[k]) /\ row.made
      BY <1>0, <1>3, <2>1, OtpAssumption DEF MakeCode, NoCode, CodeRows, SameCounts, Blank
    <2>3. challenge' = [challenge EXCEPT ![k] = row]
      BY <1>3, <2>1 DEF MakeCode
    <2>4. /\ challenge' \in [Codes -> CodeRows]
          /\ \A j \in Codes : challenge'[j] = IF j = k THEN row ELSE challenge[j]
      BY <1>0, <2>2, <2>3
    <2>5. \A j \in Codes : SameCounts(challenge[j], challenge[j])
      BY DEF SameCounts
    <2> QED BY <1>0, <1>3, <2>2, <2>4, <2>5, CountsStay DEF MakeCode
  <1>4. CASE NotDelivered(i)
    <2>1. PICK k : k = issue[i].code
      OBVIOUS
    <2>2. challenge' = [challenge EXCEPT ![k].open = FALSE]
      BY <1>4, <2>1 DEF NotDelivered
    <2>3. \A j \in Codes :
            challenge'[j] = IF j = k THEN [challenge[j] EXCEPT !.open = FALSE] ELSE challenge[j]
      BY <1>0, <2>2
    <2>4. \A j \in Codes : /\ [challenge[j] EXCEPT !.open = FALSE] \in CodeRows
                           /\ SameCounts([challenge[j] EXCEPT !.open = FALSE], challenge[j])
                           /\ [challenge[j] EXCEPT !.open = FALSE].made = challenge[j].made
      BY <1>0 DEF CodeRows, SameCounts
    <2>7. \A j \in Codes : Blank(challenge[j]) => Blank([challenge[j] EXCEPT !.open = FALSE])
      BY <1>0 DEF CodeRows, Blank
    <2>5. challenge' \in [Codes -> CodeRows]
      BY <1>0, <2>2, <2>3, <2>4
    <2>6. \A j \in Codes : /\ SameCounts(challenge'[j], challenge[j])
                           /\ ~challenge'[j].made => Blank(challenge'[j])
      BY <1>0, <2>3, <2>4, <2>7 DEF SameCounts
    <2> QED BY <1>0, <1>4, <2>5, <2>6, CountsStay DEF NotDelivered
  <1> QED BY <1>1, <1>2, <1>3, <1>4 DEF Issuing

LEMMA TimeKeeps ==
  ASSUME CodesInv, OtpTime, UNCHANGED sessionVars
  PROVE  CodesInv'
  <1>0. /\ challenge \in [Codes -> CodeRows]
        /\ \A k \in Codes : ~challenge[k].made => Blank(challenge[k])
        /\ Made' = Made
    BY DEF CodesInv, OtpOK, Made, sessionVars
  <1>1. CASE \E key \in DOMAIN Empty : KeyEnds(key)
    BY <1>0, <1>1, CountsStay DEF KeyEnds, SameCounts
  <1>2. ASSUME NEW k \in Codes, CodeExpires(k)
        PROVE  CodesInv'
    <2>1. PICK row : row = [challenge[k] EXCEPT !.open = FALSE]
      OBVIOUS
    <2>6. challenge[k] \in CodeRows /\ challenge[k].made
      BY <1>0, <1>2 DEF CodeExpires, Blank
    <2>2. row \in CodeRows /\ SameCounts(row, challenge[k]) /\ row.made
      BY <2>1, <2>6 DEF CodeRows, SameCounts
    <2>3. challenge' = [challenge EXCEPT ![k] = row]
      BY <1>0, <1>2, <2>1 DEF CodeExpires
    <2>4. /\ challenge' \in [Codes -> CodeRows]
          /\ \A j \in Codes : challenge'[j] = IF j = k THEN row ELSE challenge[j]
      BY <1>0, <2>2, <2>3
    <2>5. \A j \in Codes : SameCounts(challenge[j], challenge[j])
      BY DEF SameCounts
    <2> QED BY <1>0, <1>2, <2>2, <2>4, <2>5, CountsStay DEF CodeExpires
  <1> QED BY <1>1, <1>2 DEF OtpTime

(* A row of a code after one of its fields changed.                        *)
LEMMA CodeMoves ==
  ASSUME challenge \in [Codes -> CodeRows], NEW k \in Codes, challenge[k].made, NEW row \in CodeRows,
         row.made, challenge' = [challenge EXCEPT ![k] = row],
         \A j \in Codes : ~challenge[j].made => Blank(challenge[j])
  PROVE  /\ challenge' \in [Codes -> CodeRows]
         /\ \A j \in Codes : challenge'[j] = IF j = k THEN row ELSE challenge[j]
         /\ \A j \in Codes : challenge'[j].made = challenge[j].made
         /\ \A j \in Codes : ~challenge[j].made => Blank(challenge'[j])
         /\ row.consumed = challenge[k].consumed => UsedUp' = UsedUp
         /\ row.consumed => UsedUp' = UsedUp \cup {k}
  BY DEF UsedUp

LEMMA GuessingKeeps ==
  ASSUME CodesInv, NEW g \in Guesses, Guessing(g), UNCHANGED sessionVars
  PROVE  CodesInv'
  <1>0. /\ challenge \in [Codes -> CodeRows] /\ guess \in [Guesses -> GuessRows]
        /\ \A k \in Codes : ~challenge[k].made => Blank(challenge[k])
        /\ guess[g].step # "IDLE" => guess[g].code \in Codes /\ challenge[guess[g].code].made
        /\ Made' = Made
    BY DEF CodesInv, OtpOK, Made, sessionVars
  <1>N. \A k \in Codes : /\ challenge[k].attempts \in 0..MaxAttempts
                         /\ challenge[k].compared \in Nat
    BY <1>0 DEF CodeRows
  <1>S. Cardinality(Made) \in Nat /\ Cardinality(UsedUp) \in Nat
    BY Signing
  <1>1. ASSUME NEW k \in Codes, NEW right \in BOOLEAN, Read(g, k, right)
        PROVE  CodesInv'
    <2>1. PICK row : row = [step |-> "READ", code |-> k, right |-> right]
      OBVIOUS
    <2>2. row \in GuessRows /\ row.step = "READ" /\ row.code = k
      BY <2>1 DEF GuessRows
    <2>3. /\ guess' = [guess EXCEPT ![g] = row] /\ challenge' = challenge
          /\ guess[g].step = "IDLE" /\ challenge[k].made
      BY <1>1, <2>1 DEF Read
    <2>4. UsedUp' = UsedUp
      BY <2>3 DEF UsedUp
    <2>5. KeepsCounts(g, row)
      BY <1>N, <2>2, <2>3 DEF KeepsCounts, Waiting
    <2>6. KeepsSignIns(g, row) /\ Placed(row)
      BY <1>0, <1>S, <2>2, <2>3, <2>4 DEF KeepsSignIns, Signs, Placed
    <2> QED BY <1>0, <1>S, <2>2, <2>3, <2>4, <2>5, <2>6, GuessKeeps
  <1>2. CASE Count(g) /\ Counts(g)
    <2> DEFINE k == guess[g].code
    <2>1. k \in Codes /\ challenge[k].made /\ guess[g].step = "READ"
      BY <1>0, <1>2 DEF Count
    <2>2. PICK row : row = [guess[g] EXCEPT !.step = "COUNTED"]
      OBVIOUS
    <2>3. row \in GuessRows /\ row.step = "COUNTED" /\ row.code = k
      BY <1>0, <2>2 DEF GuessRows
    <2>4. PICK new : new = [challenge[k] EXCEPT !.attempts = @ + 1]
      OBVIOUS
    <2>5. challenge[k].attempts < MaxAttempts
      BY <1>2 DEF Counts
    <2>6. /\ new \in CodeRows /\ new.made /\ new.consumed = challenge[k].consumed
          /\ new.attempts = challenge[k].attempts + 1 /\ new.compared = challenge[k].compared
      BY <1>0, <2>1, <2>4, <2>5, OtpAssumption DEF CodeRows
    <2>7. guess' = [guess EXCEPT ![g] = row] /\ challenge' = [challenge EXCEPT ![k] = new]
      BY <1>0, <1>2, <2>1, <2>2, <2>4 DEF Count
    <2> HIDE DEF k
    <2>8. /\ challenge' \in [Codes -> CodeRows]
          /\ \A j \in Codes : challenge'[j] = IF j = k THEN new ELSE challenge[j]
          /\ \A j \in Codes : challenge'[j].made = challenge[j].made
          /\ \A j \in Codes : ~challenge[j].made => Blank(challenge'[j])
          /\ UsedUp' = UsedUp
      BY <1>0, <2>1, <2>6, <2>7, CodeMoves
    <2>9. KeepsCounts(g, row)
      BY <1>N, <2>1, <2>3, <2>6, <2>8 DEF KeepsCounts, Waiting
    <2>10. KeepsSignIns(g, row) /\ Placed(row)
      BY <1>0, <1>S, <2>1, <2>3, <2>8 DEF KeepsSignIns, Signs, Placed
    <2> QED BY <1>0, <1>S, <2>3, <2>7, <2>8, <2>9, <2>10, GuessKeeps
  <1>3. CASE Count(g) /\ ~Counts(g)
    <2>1. /\ guess' = [guess EXCEPT ![g] = NoGuess] /\ challenge' = challenge
          /\ guess[g].step = "READ"
      BY <1>3 DEF Count
    <2>2. NoGuess \in GuessRows /\ NoGuess.step = "IDLE"
      BY DEF NoGuess, GuessRows
    <2>3. UsedUp' = UsedUp
      BY <2>1 DEF UsedUp
    <2>4. KeepsCounts(g, NoGuess)
      BY <1>N, <2>1, <2>2 DEF KeepsCounts, Waiting
    <2>5. KeepsSignIns(g, NoGuess) /\ Placed(NoGuess)
      BY <1>0, <1>S, <2>1, <2>2, <2>3 DEF KeepsSignIns, Signs, Placed
    <2> QED BY <1>0, <1>S, <2>1, <2>2, <2>3, <2>4, <2>5, GuessKeeps
  <1>4. CASE Wrong(g) \/ Right(g)
    <2> DEFINE k == guess[g].code
    <2>1. k \in Codes /\ challenge[k].made /\ guess[g].step = "COUNTED"
      BY <1>0, <1>4 DEF Wrong, Right
    <2>2. PICK row \in {NoGuess, [guess[g] EXCEPT !.step = "MATCHED"]} :
            guess' = [guess EXCEPT ![g] = row]
      BY <1>0, <1>4 DEF Wrong, Right
    <2>3. /\ row \in GuessRows /\ row.step \in {"IDLE", "MATCHED"}
          /\ row.step # "IDLE" => row.code = k
      <3>1. CASE row = NoGuess
        BY <3>1 DEF GuessRows, NoGuess
      <3>2. CASE row = [guess[g] EXCEPT !.step = "MATCHED"]
        BY <1>0, <3>2 DEF GuessRows
      <3> QED BY <2>2, <3>1, <3>2
    <2>4. PICK new : new = [challenge[k] EXCEPT !.compared = @ + 1]
      OBVIOUS
    <2>6. /\ new \in CodeRows /\ new.made /\ new.consumed = challenge[k].consumed
          /\ new.attempts = challenge[k].attempts /\ new.compared = challenge[k].compared + 1
      BY <1>0, <2>1, <2>4 DEF CodeRows
    <2>7. challenge' = [challenge EXCEPT ![k] = new]
      BY <1>0, <1>4, <2>1, <2>4 DEF Wrong, Right, Compared
    <2> HIDE DEF k
    <2>8. /\ challenge' \in [Codes -> CodeRows]
          /\ \A j \in Codes : challenge'[j] = IF j = k THEN new ELSE challenge[j]
          /\ \A j \in Codes : challenge'[j].made = challenge[j].made
          /\ \A j \in Codes : ~challenge[j].made => Blank(challenge'[j])
          /\ UsedUp' = UsedUp
      BY <1>0, <2>1, <2>6, <2>7, CodeMoves
    <2>9. KeepsCounts(g, row)
      BY <1>N, <2>1, <2>3, <2>6, <2>8 DEF k, KeepsCounts, Waiting
    <2>10. KeepsSignIns(g, row) /\ Placed(row)
      BY <1>0, <1>S, <2>1, <2>3, <2>8 DEF KeepsSignIns, Signs, Placed
    <2> QED BY <1>0, <1>S, <2>2, <2>3, <2>8, <2>9, <2>10, GuessKeeps
  <1>5. CASE Consume(g)
    <2> DEFINE k == guess[g].code
    <2>1. k \in Codes /\ challenge[k].made /\ guess[g].step = "MATCHED"
      BY <1>0, <1>5 DEF Consume
    <2>2. PICK row : row = IF Consumable(k) THEN [guess[g] EXCEPT !.step = "VERIFIED"] ELSE NoGuess
      OBVIOUS
    <2>3. /\ row \in GuessRows
          /\ Consumable(k) => row.step = "VERIFIED" /\ row.code = k
          /\ ~Consumable(k) => row.step = "IDLE"
      <3>1. CASE Consumable(k)
        BY <1>0, <2>2, <3>1 DEF GuessRows
      <3>2. CASE ~Consumable(k)
        BY <2>2, <3>2 DEF GuessRows, NoGuess
      <3> QED BY <3>1, <3>2
    <2>4. PICK new : new = [challenge[k] EXCEPT !.consumed = TRUE]
      OBVIOUS
    <2>6. /\ new \in CodeRows /\ new.made /\ new.consumed
          /\ new.attempts = challenge[k].attempts /\ new.compared = challenge[k].compared
      BY <1>0, <2>1, <2>4 DEF CodeRows
    <2>7. guess' = [guess EXCEPT ![g] = row] /\ challenge' = [challenge EXCEPT ![k] = new]
      BY <1>0, <1>5, <2>1, <2>2, <2>4 DEF Consume
    <2> HIDE DEF k
    <2>8. /\ challenge' \in [Codes -> CodeRows]
          /\ \A j \in Codes : challenge'[j] = IF j = k THEN new ELSE challenge[j]
          /\ \A j \in Codes : challenge'[j].made = challenge[j].made
          /\ \A j \in Codes : ~challenge[j].made => Blank(challenge'[j])
          /\ UsedUp' = UsedUp \cup {k}
      BY <1>0, <2>1, <2>6, <2>7, CodeMoves
    <2>9. KeepsCounts(g, row)
      BY <1>N, <2>1, <2>3, <2>6, <2>8 DEF KeepsCounts, Waiting
    <2>10. k \in UsedUp <=> ~Consumable(k)
      BY <2>1 DEF UsedUp, Consumable
    <2>11. Cardinality(UsedUp') = IF Consumable(k) THEN Cardinality(UsedUp) + 1
                                                   ELSE Cardinality(UsedUp)
      BY <2>8, <2>10, Signing, FS_AddElement
    <2>12. Signs(guess[g]) = 0 /\ Signs(row) = (IF Consumable(k) THEN 1 ELSE 0) /\ Placed(row)
      BY <2>1, <2>3 DEF Signs, Placed
    <2>13. KeepsSignIns(g, row) /\ Cardinality(UsedUp') \in Nat
      BY <1>0, <1>S, <2>11, <2>12 DEF KeepsSignIns
    <2> QED BY <1>0, <1>S, <2>3, <2>7, <2>8, <2>9, <2>12, <2>13, GuessKeeps
  <1> QED BY <1>1, <1>2, <1>3, <1>4, <1>5 DEF Guessing, Count

(* Signing in, and what never starts a session.                            *)
LEMMA SigningInKeeps ==
  ASSUME CodesInv, SessionsOK, SigningIn
  PROVE  CodesInv'
  <1>0. /\ challenge \in [Codes -> CodeRows] /\ guess \in [Guesses -> GuessRows]
        /\ \A k \in Codes : ~challenge[k].made => Blank(challenge[k])
        /\ session \in [Sids -> Rows]
    BY DEF CodesInv, OtpOK, SessionsOK
  <1>N. \A k \in Codes : /\ challenge[k].attempts \in 0..MaxAttempts
                         /\ challenge[k].compared \in Nat
    BY <1>0 DEF CodeRows
  <1>S. Cardinality(Made) \in Nat /\ Cardinality(UsedUp) \in Nat
    BY Signing
  <1>R. NoGuess \in GuessRows /\ NoGuess.step = "IDLE"
    BY DEF NoGuess, GuessRows
  <1>1. ASSUME NEW g \in Guesses, FindUser(g)
        PROVE  CodesInv'
    <2>1. /\ guess[g].step = "VERIFIED" /\ challenge' = challenge
          /\ Made' = Made /\ UsedUp' = UsedUp
      BY <1>1 DEF FindUser, Made, sessionVars, UsedUp
    <2>2. PICK row \in {NoGuess, [guess[g] EXCEPT !.step = "ALLOWED"]} :
            guess' = [guess EXCEPT ![g] = row]
      BY <1>0, <1>1 DEF FindUser
    <2>3. /\ row \in GuessRows /\ row.step \in {"IDLE", "ALLOWED"}
          /\ row.step # "IDLE" => row.code = guess[g].code
      <3>1. CASE row = NoGuess
        BY <3>1 DEF GuessRows, NoGuess
      <3>2. CASE row = [guess[g] EXCEPT !.step = "ALLOWED"]
        BY <1>0, <3>2 DEF GuessRows
      <3> QED BY <2>2, <3>1, <3>2
    <2>4. KeepsCounts(g, row)
      BY <1>N, <2>1, <2>3 DEF KeepsCounts, Waiting
    <2>5. KeepsSignIns(g, row) /\ Placed(row)
      BY <1>S, <2>1, <2>3 DEF KeepsSignIns, Signs, Placed, CodesInv, OtpOK
    <2> QED BY <1>0, <1>S, <2>1, <2>2, <2>3, <2>4, <2>5, GuessKeeps
  <1>2. ASSUME NEW g \in Guesses, NEW s \in Sids, StartSession(g, s)
        PROVE  CodesInv'
    <2>1. /\ guess[g].step = "ALLOWED" /\ challenge' = challenge /\ UsedUp' = UsedUp
          /\ guess' = [guess EXCEPT ![g] = NoGuess]
      BY <1>2 DEF StartSession, UsedUp
    <2>2. Made' = Made \cup {s} /\ s \notin Made
      BY <1>0, <1>2 DEF StartSession, Create, Made, NoSession
    <2>3. Cardinality(Made') = Cardinality(Made) + 1
      BY <2>2, Signing, FS_AddElement
    <2>4. KeepsCounts(g, NoGuess)
      BY <1>N, <1>R, <2>1 DEF KeepsCounts, Waiting
    <2>5. KeepsSignIns(g, NoGuess) /\ Placed(NoGuess) /\ Cardinality(Made') \in Nat
      BY <1>R, <1>S, <2>1, <2>3 DEF KeepsSignIns, Signs, Placed
    <2> QED BY <1>0, <1>R, <1>S, <2>1, <2>4, <2>5, GuessKeeps
  <1> QED BY <1>1, <1>2 DEF SigningIn

LEMMA OthersKeep ==
  ASSUME CodesInv, UNCHANGED otpVars, Made' = Made
  PROVE  CodesInv'
  <1>1. \A k \in Codes : SameCounts(challenge'[k], challenge[k])
    BY DEF otpVars, SameCounts
  <1> QED BY <1>1, CountsStay DEF otpVars, CodesInv, OtpOK

(* A row keeps made whatever else a step changes in it.                    *)
LEMMA MadeStays ==
  ASSUME SessionsOK, NEW s \in Sids, NEW row, row.made = session[s].made,
         session' = [session EXCEPT ![s] = row]
  PROVE  Made' = Made
  BY DEF SessionsOK, Made

LEMMA RotatingMade ==
  ASSUME SessionsOK, NEW c \in Rotations, Rotating(c)
  PROVE  Made' = Made
  <1>1. CASE UNCHANGED session
    BY <1>1 DEF Made
  <1>2. CASE Rotate(c)
    <2>1. rotation[c].sid \in Sids /\ session[rotation[c].sid] \in Rows
      BY <1>2 DEF Rotate, SessionsOK
    <2>3. PICK q, e : session' = [session EXCEPT ![rotation[c].sid] =
                                   [session[rotation[c].sid] EXCEPT !.tokens = q, !.expired = e]]
      BY <1>2, <2>1 DEF Rotate, SessionsOK
    <2>2. PICK row : /\ session' = [session EXCEPT ![rotation[c].sid] = row]
                     /\ row.made = session[rotation[c].sid].made
      <3>1. PICK row : row = [session[rotation[c].sid] EXCEPT !.tokens = q, !.expired = e]
        OBVIOUS
      <3>2. row.made = session[rotation[c].sid].made
        BY <2>1, <3>1 DEF Rows
      <3> QED BY <2>3, <3>1, <3>2
    <2> QED BY <2>1, <2>2, MadeStays
  <1>3. CASE RevokeReused(c) \/ RevokeInactive(c)
    <2>1. rotation[c].sid \in Sids /\ session[rotation[c].sid] \in Rows
      BY <1>3 DEF RevokeReused, RevokeInactive, Revoke, SessionsOK
    <2>2. PICK row : /\ session' = [session EXCEPT ![rotation[c].sid] = row]
                     /\ row.made = session[rotation[c].sid].made
      BY <1>3, <2>1 DEF RevokeReused, RevokeInactive, Revoke, Revoked, SessionsOK, Rows
    <2> QED BY <2>1, <2>2, MadeStays
  <1> QED BY <1>1, <1>2, <1>3 DEF Rotating, Check, RotateLost

LEMMA AccountMade ==
  ASSUME SessionsOK, AccountChange
  PROVE  Made' = Made
  <1>1. CASE UNCHANGED session
    BY <1>1 DEF Made
  <1>2. CASE RevokeAll
    <2>1. \A s \in Sids : /\ session[s] \in Rows
                          /\ Revoked(session[s], "ended").made = session[s].made
      BY DEF SessionsOK, Rows, Revoked
    <2> QED BY <1>2, <2>1 DEF RevokeAll, Made
  <1> QED BY <1>1, <1>2 DEF AccountChange, Suspend, Reinstate

LEMMA EndedMade ==
  ASSUME SessionsOK, NEW s \in Sids, Logout(s) \/ Expire(s)
  PROVE  Made' = Made
  <1>1. session[s] \in Rows
    BY DEF SessionsOK
  <1>2. PICK row : row.made = session[s].made /\ session' = [session EXCEPT ![s] = row]
    BY <1>1 DEF Logout, Expire, Revoked, SessionsOK, Rows
  <1> QED BY <1>2, MadeStays

LEMMA CodesNext == Inv /\ CodesInv /\ [Next]_vars => CodesInv'
  <1> SUFFICES ASSUME Inv, CodesInv, [Next]_vars
               PROVE  CodesInv'
    OBVIOUS
  <1>0. SessionsOK
    BY DEF Inv
  <1>1. CASE Codewise
    BY <1>1, IssuingKeeps, GuessingKeeps, TimeKeeps DEF Codewise
  <1>2. CASE SigningIn
    BY <1>0, <1>2, SigningInKeeps
  <1>3. CASE Serverside
    <2>1. Made' = Made
      BY <1>0, <1>3, RotatingMade, EndedMade, AccountMade DEF Serverside, AccountChange
    <2> QED BY <1>3, <2>1, OthersKeep DEF Serverside
  <1>4. CASE SignOut
    <2>1. CASE UNCHANGED sessionVars
      BY <1>4, <2>1, OthersKeep DEF SignOut, Made, sessionVars
    <2>2. CASE Logout(device.token.sid)
      BY <1>0, <1>4, <2>2, EndedMade, OthersKeep DEF SignOut, Logout, Made
    <2> QED BY <1>4, <2>1, <2>2 DEF SignOut
  <1>5. CASE AccessEnds \/ App \/ Browser \/ \E c \in Rotations : Unheard(c)
    <2>1. session' = session /\ UNCHANGED otpVars
      BY <1>5 DEF AccessEnds, App, AppRefresh, AppAnswered, AppGivesUp, Browser, OpenPage, Share,
                  ShowPage, WebRefresh, WebAnswered, WebFails, Resolve, Forget, Unheard, Present,
                  Answer, sessionVars
    <2> QED BY <2>1, OthersKeep DEF Made
  <1>6. CASE UNCHANGED vars
    BY <1>6, OthersKeep DEF vars, otpVars, Made
  <1> QED BY <1>1, <1>2, <1>3, <1>4, <1>5, <1>6 DEF Next

LEMMA CodesInit == Init => CodesInv
  <1>1. CASE FirstVisit
    <2>1. NoCode \in CodeRows /\ Blank(NoCode) /\ NoCode.attempts = 0 /\ NoCode.compared = 0
      BY OtpAssumption DEF NoCode, CodeRows, Blank
    <2>2. NoGuess \in GuessRows /\ NoGuess.step = "IDLE"
      BY DEF NoGuess, GuessRows
    <2>3. /\ challenge \in [Codes -> CodeRows] /\ \A k \in Codes : challenge[k] = NoCode
          /\ guess \in [Guesses -> GuessRows] /\ \A g \in Guesses : guess[g] = NoGuess
      BY <1>1, <2>1, <2>2 DEF FirstVisit, OtpInit
    <2>4. Made = {} /\ SigningOn = {} /\ Cardinality(UsedUp) \in Nat
      BY <1>1, <2>2, <2>3, Signing DEF FirstVisit, SessionsInit, NoSession, Made, SigningOn
    <2>5. \A k \in Codes : Counting[k] = 0
      BY <2>2, <2>3, FS_EmptySet DEF Counting, CountedOn
    <2>6. CountsCover
      BY <2>1, <2>3, <2>5 DEF CountsCover
    <2>7. OneSessionPerCode
      BY <2>4, FS_EmptySet DEF OneSessionPerCode, SigningOn, UsedUp
    <2> QED BY <2>1, <2>2, <2>3, <2>6, <2>7 DEF CodesInv, OtpOK
  <1>2. ASSUME NEW k \in Codes, NEW s \in Sids, SignedIn(k, s)
        PROVE  CodesInv
    <2>1. \A j \in Codes : [made |-> TRUE, open |-> FALSE, attempts |-> 1, consumed |-> j = k,
                            compared |-> 1] \in CodeRows
      BY OtpAssumption DEF CodeRows
    <2>2. NoGuess \in GuessRows /\ NoGuess.step = "IDLE"
      BY DEF NoGuess, GuessRows
    <2>3. /\ challenge \in [Codes -> CodeRows]
          /\ \A j \in Codes : /\ challenge[j].made /\ (challenge[j].consumed <=> j = k)
                              /\ challenge[j].attempts = 1 /\ challenge[j].compared = 1
          /\ guess \in [Guesses -> GuessRows] /\ \A g \in Guesses : guess[g] = NoGuess
      BY <1>2, <2>1, <2>2 DEF SignedIn
    <2>4. Made = {s} /\ SigningOn = {} /\ UsedUp = {k}
      BY <1>2, <2>2, <2>3 DEF SignedIn, NoSession, Made, SigningOn, UsedUp
    <2>5. \A j \in Codes : Counting[j] = 0
      BY <2>2, <2>3, FS_EmptySet DEF Counting, CountedOn
    <2>6. CountsCover
      BY <2>3, <2>5 DEF CountsCover
    <2>8. Cardinality(Made) = 1 /\ Cardinality(SigningOn) = 0 /\ Cardinality(UsedUp) = 1
      BY <2>4, FS_EmptySet, FS_Singleton
    <2>7. OneSessionPerCode
      BY <2>8 DEF OneSessionPerCode, SigningOn, UsedUp
    <2> QED BY <2>2, <2>3, <2>6, <2>7 DEF CodesInv, OtpOK
  <1> QED BY <1>1, <1>2 DEF Init

LEMMA CodesAlways == Spec => [](Inv /\ CodesInv)
  <1>1. Inv /\ [Next]_vars => Inv'
    BY StepsOfSessions, NextInv
  <1> QED BY StartsInv, CodesInit, CodesNext, <1>1, PTL DEF Spec

(* However many guesses arrive at once, a code is compared with at most    *)
(* MaxAttempts of them: the count goes up before the comparison (verify).  *)
THEOREM NoGuessTooMany == Spec => []GuessesBounded
  <1>1. CodesInv => GuessesBounded
    <2> SUFFICES ASSUME CodesInv, NEW k \in Codes
                 PROVE  challenge[k].compared <= MaxAttempts
      BY DEF GuessesBounded
    <2>1. challenge[k] \in CodeRows /\ challenge[k].compared + Counting[k] <= challenge[k].attempts
      BY DEF CodesInv, OtpOK, CountsCover
    <2> QED BY <2>1, Counted, OtpAssumption DEF CodeRows
  <1> QED BY <1>1, CodesAlways, PTL

(* A code signs in once, however many requests bring it and however long   *)
(* they take on their way to the session (verify, verifyPhoneOtp).         *)
THEOREM OneSignInPerCode == Spec => []OneSessionPerCode
  <1>1. CodesInv => OneSessionPerCode
    BY DEF CodesInv
  <1> QED BY <1>1, CodesAlways, PTL

----------------------------------------------------------------------------
(* The device never presents a token twice.  Every token that is on its    *)
(* way to the device, or stored in it with an access token that works, is  *)
(* fresh: the last of its session, presented by nobody, and without a      *)
(* result in the proxy.  Every token a page is about to ask with is either *)
(* fresh or has a result in the proxy, so no page presents it again.       *)

Live == {c \in Rotations : rotation[c].step # "IDLE"}

Lasts == [s \in Sids |-> Len(session[s].tokens)]

BroughtBy == [c \in Rotations |-> Brought(c)]

Granted == [c \in Rotations |-> [sid |-> rotation[c].sid, token |-> rotation[c].next]]

Known == {x \in Tokens : x.token <= Lasts[x.sid]}

Shared == {x \in Tokens : shared[x] # NoToken}

Fresh == {x \in Tokens : /\ x.token = Lasts[x.sid]
                         /\ shared[x] = NoToken
                         /\ \A c \in Live : BroughtBy[c] # x}

Answers == {Granted[c] : c \in {d \in waits : rotation[d].step = "ANSWERED"}}

PagesWith(step) == {x \in Tokens : \E p \in Pages : pages[p] = [step |-> step, token |-> x]}

Leaving == PagesWith("SENT")

Stored == {x \in Tokens : device.token = x}

Asked == (IF device.access THEN {} ELSE Stored) \cup Leaving

Coming ==
  (IF device.access THEN Stored ELSE {}) \cup PagesWith("ANSWERED")
    \cup {shared[x] : x \in (Stored \cup Leaving) \cap {t \in Tokens : shared[t] \in Tokens}}
    \cup Answers

DeviceOK ==
  /\ device \in [token : Tokens \cup {NoToken}, access : BOOLEAN]
  /\ shared \in [Tokens -> Tokens \cup {NoToken, Pending, Failed}]
  /\ pages \in [Pages -> [step : {"IDLE", "SENT", "WAITING", "ANSWERED"},
                          token : Tokens \cup {NoToken, Failed}]]
  /\ \A p \in Pages : /\ pages[p].step \in {"SENT", "WAITING"} => pages[p].token \in Tokens
                      /\ pages[p].step = "ANSWERED" => pages[p].token # NoToken

NoReuse == \A s \in Sids : session[s].revoked # "refresh_reuse"

CallsOK ==
  /\ waits \subseteq Live
  /\ \A c, d \in Live : BroughtBy[c] = BroughtBy[d] => c = d
  /\ \A c \in Live :
       /\ rotation[c].step # "REUSED"
       /\ rotation[c].step \in {"SENT", "CHECKED"} =>
            BroughtBy[c].token = Lasts[BroughtBy[c].sid]
  /\ Answers \subseteq Fresh

NoBrowser ==
  /\ \A p \in Pages : pages[p].step = "IDLE"
  /\ \A x \in Tokens : shared[x] = NoToken

AppOK ==
  /\ \A c, d \in Live : c = d
  /\ waits = Live
  /\ waits = {} => Stored \subseteq Fresh

WebOK ==
  /\ Coming \subseteq Fresh
  /\ Asked \cap Coming = {}
  /\ Asked \subseteq Shared \cup Fresh
  /\ Shared \cup Asked \subseteq Known
  /\ \A c \in waits : \E p \in Pages : pages[p] = [step |-> "WAITING", token |-> BroughtBy[c]]

Good ==
  /\ DeviceOK
  /\ NoReuse
  /\ CallsOK
  /\ kind = "APP" => AppOK
  /\ kind = "WEB" => WebOK
  /\ kind # "WEB" => NoBrowser
  /\ kind \notin {"APP", "WEB"} => Live = {}

(* No code is left for a device that has signed in. *)
Settled ==
  /\ \A k \in Codes : challenge[k].made /\ ~challenge[k].open
  /\ \A g \in Guesses : guess[g].step = "IDLE"

DeviceInv == (kind \in {"APP", "WEB"} => Settled) /\ (~faulty => Good)

LEMMA TokenIs ==
  /\ NoToken \notin Tokens /\ Pending \notin Tokens /\ Failed \notin Tokens
  /\ NoToken # Pending /\ NoToken # Failed
  /\ \A x \in Tokens : /\ x.sid \in Sids /\ x.token \in Nat /\ x.token <= MaxTokens
                       /\ x = [sid |-> x.sid, token |-> x.token]
  BY SessionsAssumption DEF NoToken, Pending, Failed, Tokens

LEMMA LastsAre ==
  ASSUME SessionsOK
  PROVE  /\ \A s \in Sids : Lasts[s] = Len(session[s].tokens) /\ Lasts[s] \in Nat
         /\ \A c \in Live : /\ c \in Rotations /\ BroughtBy[c].sid \in Sids
                            /\ BroughtBy[c].token \in 1..Lasts[BroughtBy[c].sid]
                            /\ BroughtBy[c].sid = rotation[c].sid
                            /\ BroughtBy[c].token = rotation[c].token
  BY DEF SessionsOK, Lasts, Rows, Live, BroughtBy, Brought

(* A step of the server that neither uses a token nor ends a call.         *)
Quiet ==
  /\ Lasts' = Lasts /\ Live' = Live /\ BroughtBy' = BroughtBy /\ Granted' = Granted
  /\ \A c \in Live :
       /\ rotation'[c].step # "REUSED"
       /\ rotation'[c].step \in {"SENT", "CHECKED"} => rotation[c].step \in {"SENT", "CHECKED"}
       /\ rotation'[c].step = "ANSWERED" => rotation[c].step = "ANSWERED"

LEMMA QuietCalls ==
  ASSUME CallsOK, Quiet, UNCHANGED <<shared, waits>>
  PROVE  CallsOK' /\ Fresh' = Fresh /\ Known' = Known /\ Shared' = Shared /\ Answers' \subseteq Answers
  <1>1. Fresh' = Fresh /\ Known' = Known /\ Shared' = Shared
    BY DEF Quiet, Fresh, Known, Shared
  <1>2. Answers' \subseteq Answers
    BY DEF Quiet, Answers, CallsOK
  <1> QED BY <1>1, <1>2 DEF CallsOK, Quiet

(* A refresh that goes on: what it read stays good, and what it brings.    *)
LEMMA StepIsQuiet ==
  ASSUME SessionsOK, CallsOK, NEW c \in Live, NEW step \in Steps, Step(c, step), Lasts' = Lasts,
         step \notin {"IDLE", "SENT", "REUSED", "ANSWERED"},
         step = "CHECKED" => rotation[c].step \in {"SENT", "CHECKED"}
  PROVE  Quiet
  <1>1. \A d \in Rotations : rotation[d] \in Calls
    BY DEF SessionsOK
  <1>2. \A d \in Rotations : /\ rotation'[d].step = IF d = c THEN step ELSE rotation[d].step
                             /\ rotation'[d].sid = rotation[d].sid
                             /\ rotation'[d].token = rotation[d].token
                             /\ rotation'[d].next = rotation[d].next
    BY <1>1 DEF Step, SessionsOK, Calls, Live
  <1>3. Live' = Live
    BY <1>2 DEF Live
  <1>4. BroughtBy' = BroughtBy /\ Granted' = Granted
    BY <1>2 DEF BroughtBy, Brought, Granted
  <1> QED BY <1>2, <1>3, <1>4 DEF Quiet, CallsOK, Live

LEMMA SameLasts ==
  ASSUME SessionsOK, \A s \in Sids : SameRow(session'[s], session[s])
  PROVE  Lasts' = Lasts
  BY DEF Lasts, SameRow

(* The session of a call is revoked, for another reason than a reuse.      *)
LEMMA RevokedQuietly ==
  ASSUME SessionsOK, NEW s \in Sids, session' = [session EXCEPT ![s] = Revoked(session[s], "ended")]
  PROVE  Lasts' = Lasts /\ (NoReuse => NoReuse')
  <1>1. session[s] \in Rows /\ "ended" \in Reasons
    BY DEF SessionsOK, Reasons
  <1>2. SameRow(Revoked(session[s], "ended"), session[s])
    BY <1>1, RowKept
  <1>3. Revoked(session[s], "ended").revoked \in {session[s].revoked, "ended"}
    BY <1>1 DEF Revoked, Rows
  <1>4. \A r \in Sids : session'[r] = IF r = s THEN Revoked(session[s], "ended") ELSE session[r]
    BY DEF SessionsOK
  <1>5. \A r \in Sids : SameRow(session'[r], session[r])
    BY <1>2, <1>4 DEF SameRow
  <1>6. NoReuse => NoReuse'
    BY <1>3, <1>4 DEF NoReuse
  <1> QED BY <1>5, <1>6, SameLasts

LEMMA CallsSame ==
  ASSUME CallsOK, Lasts' = Lasts, rotation' = rotation
  PROVE  Quiet
  BY DEF CallsOK, Quiet, Live, BroughtBy, Brought, Granted

LEMMA QuietSteps ==
  ASSUME Inv, CallsOK, NoReuse,
         \/ \E c \in Rotations : Rotating(c) /\ ~Rotate(c)
         \/ \E s \in Sids : Logout(s) \/ Expire(s)
         \/ AccountChange
         \/ UNCHANGED sessionVars
  PROVE  Quiet /\ NoReuse'
  <1>0. SessionsOK /\ OneLiveToken
    BY DEF Inv
  <1>1. ASSUME NEW c \in Rotations, Check(c)
        PROVE  Quiet /\ NoReuse'
    <2>1. /\ c \in Live /\ session' = session
          /\ rotation[c].sid \in Sids
          /\ rotation[c].token \in 1..Len(session[rotation[c].sid].tokens)
          /\ rotation[c].token = Len(session[rotation[c].sid].tokens)
      BY <1>0, <1>1, LastsAre DEF Check, Live, SessionsOK, CallsOK
    <2>2. ~session[rotation[c].sid].tokens[rotation[c].token]
      BY <1>0, <2>1 DEF OneLiveToken
    <2>3. PICK step : step = Verdict(session[rotation[c].sid], rotation[c].token)
      OBVIOUS
    <2>4. step \in {"REFUSED", "INACTIVE", "CHECKED"} /\ Step(c, step)
      BY <1>1, <2>2, <2>3 DEF Verdict, Check
    <2>5. Lasts' = Lasts /\ NoReuse'
      BY <2>1 DEF Lasts, NoReuse
    <2> QED BY <1>0, <1>1, <2>1, <2>4, <2>5, StepIsQuiet DEF Check, Steps
  <1>2. ASSUME NEW c \in Rotations, RotateLost(c)
        PROVE  FALSE
    <2>1. /\ rotation[c].sid \in Sids
          /\ rotation[c].token \in 1..Len(session[rotation[c].sid].tokens)
          /\ rotation[c].token = Len(session[rotation[c].sid].tokens)
      BY <1>0, <1>2, LastsAre DEF RotateLost, Live, SessionsOK, CallsOK
    <2> QED BY <1>0, <1>2, <2>1 DEF OneLiveToken, RotateLost, Unused
  <1>3. ASSUME NEW c \in Rotations, RevokeReused(c)
        PROVE  FALSE
    BY <1>3 DEF RevokeReused, Revoke, CallsOK, Live
  <1>4. ASSUME NEW c \in Rotations, RevokeInactive(c)
        PROVE  Quiet /\ NoReuse'
    <2>1. /\ c \in Live /\ rotation[c].sid \in Sids /\ Step(c, "REFUSED")
          /\ session' = [session EXCEPT ![rotation[c].sid] =
                           Revoked(session[rotation[c].sid], "ended")]
      BY <1>0, <1>4 DEF RevokeInactive, Revoke, Live, SessionsOK
    <2>2. Lasts' = Lasts /\ NoReuse'
      BY <1>0, <2>1, RevokedQuietly
    <2> QED BY <1>0, <2>1, <2>2, StepIsQuiet DEF Steps
  <1>5. ASSUME NEW s \in Sids, Logout(s)
        PROVE  Quiet /\ NoReuse'
    <2>1. session' = [session EXCEPT ![s] = Revoked(session[s], "ended")] /\ rotation' = rotation
      BY <1>0, <1>5 DEF Logout, SessionsOK
    <2> QED BY <1>0, <2>1, RevokedQuietly, CallsSame
  <1>6. ASSUME NEW s \in Sids, Expire(s)
        PROVE  Quiet /\ NoReuse'
    <2>1. session[s] \in Rows
      BY <1>0 DEF SessionsOK
    <2>2. PICK row : row = [session[s] EXCEPT !.expired = TRUE]
      OBVIOUS
    <2>3. SameRow(row, session[s]) /\ row.revoked = session[s].revoked
      BY <2>1, <2>2 DEF SameRow, Rows
    <2>4. session' = [session EXCEPT ![s] = row] /\ rotation' = rotation
      BY <1>0, <1>6, <2>2 DEF Expire, SessionsOK
    <2>5. \A r \in Sids : session'[r] = IF r = s THEN row ELSE session[r]
      BY <1>0, <2>4 DEF SessionsOK
    <2>6. Lasts' = Lasts /\ NoReuse'
      BY <1>0, <2>3, <2>5, SameLasts DEF SameRow, NoReuse
    <2> QED BY <2>4, <2>6, CallsSame
  <1>7. CASE RevokeAll
    <2>1. \A s \in Sids : /\ session[s] \in Rows
                          /\ SameRow(Revoked(session[s], "ended"), session[s])
                          /\ Revoked(session[s], "ended").revoked \in {session[s].revoked, "ended"}
      BY <1>0 DEF SessionsOK, Rows, Revoked, SameRow
    <2>2. \A s \in Sids : session'[s] \in {session[s], Revoked(session[s], "ended")}
      BY <1>7 DEF RevokeAll
    <2>3. Lasts' = Lasts /\ NoReuse' /\ rotation' = rotation
      BY <1>0, <1>7, <2>1, <2>2, SameLasts DEF SameRow, NoReuse, RevokeAll
    <2> QED BY <2>3, CallsSame
  <1>8. CASE UNCHANGED <<session, rotation>>
    BY <1>8, CallsSame DEF Lasts, NoReuse
  <1> QED BY <1>1, <1>2, <1>3, <1>4, <1>5, <1>6, <1>7, <1>8
          DEF Rotating, AccountChange, Suspend, Reinstate, sessionVars

(* What the browser's part needs of a step: nothing new is asked for or on *)
(* its way, and what was fresh and matters still is.                       *)
LEMMA WebStays ==
  ASSUME WebOK, Coming' \subseteq Coming, Asked' \subseteq Asked,
         Fresh \cap (Coming \cup Asked') \subseteq Shared' \cup Fresh',
         Coming' \cap Fresh \subseteq Fresh',
         Asked' \cap Shared \subseteq Shared', Shared' \subseteq Known', Known \subseteq Known',
         \A c \in waits' : \E p \in Pages :
           pages'[p] = [step |-> "WAITING", token |-> BroughtBy'[c]]
  PROVE  WebOK'
  BY DEF WebOK

LEMMA QuietKeeps ==
  ASSUME Good, Quiet, NoReuse', UNCHANGED deviceVars
  PROVE  Good'
  <1>1. /\ CallsOK' /\ Fresh' = Fresh /\ Known' = Known /\ Shared' = Shared
        /\ Answers' \subseteq Answers /\ Live' = Live
    BY QuietCalls DEF Good, deviceVars, Quiet
  <1>2. /\ Stored' = Stored /\ PagesWith("SENT")' = PagesWith("SENT") /\ Leaving' = Leaving
        /\ PagesWith("ANSWERED")' = PagesWith("ANSWERED")
    BY DEF deviceVars, Stored, Leaving, PagesWith
  <1>3. Asked' = Asked
    BY <1>2 DEF Asked, deviceVars
  <1>4. Coming' \subseteq Coming
    BY <1>1, <1>2 DEF Coming, deviceVars
  <1>5. DeviceOK'
    BY DEF Good, DeviceOK, deviceVars
  <1>6. ASSUME kind = "APP"
        PROVE  AppOK'
    BY <1>1, <1>2, <1>6 DEF Good, AppOK, deviceVars
  <1>7. ASSUME kind = "WEB"
        PROVE  WebOK'
    <2>1. \A c \in waits : \E p \in Pages :
            pages[p] = [step |-> "WAITING", token |-> BroughtBy[c]]
      BY <1>7 DEF Good, WebOK
    <2> QED BY <1>1, <1>3, <1>4, <1>7, <2>1, WebStays DEF Good, WebOK, Quiet, deviceVars
  <1> QED BY <1>1, <1>5, <1>6, <1>7 DEF Good, NoBrowser, deviceVars

(* The transaction of rotate: the token that is presented is the last one  *)
(* and is used; the next one is known to nobody.                           *)
LEMMA RotateKeeps ==
  ASSUME Inv, Good, NEW c \in Rotations, Rotate(c), UNCHANGED deviceVars
  PROVE  Good'
  <1> DEFINE s == BroughtBy[c].sid
             new == [sid |-> s, token |-> Lasts[s] + 1]
  <1>0. SessionsOK /\ OneLiveToken /\ CallsOK
    BY DEF Inv, Good
  <1>1. /\ c \in Live /\ s \in Sids /\ Lasts[s] \in Nat /\ Lasts[s] < MaxTokens
        /\ BroughtBy[c].token = Lasts[s] /\ s = rotation[c].sid
        /\ rotation[c].token = BroughtBy[c].token /\ rotation[c].step = "CHECKED"
    BY <1>0, LastsAre DEF Rotate, Live, CallsOK
  <1>2. PICK q, e : session' = [session EXCEPT ![s] =
                                  [session[s] EXCEPT !.tokens = q, !.expired = e]]
                    /\ q = Append([session[s].tokens EXCEPT ![rotation[c].token] = TRUE], FALSE)
    BY <1>0, <1>1 DEF Rotate, SessionsOK
  <1>3. session \in [Sids -> Rows] /\ session[s].tokens \in Seq(BOOLEAN)
        /\ rotation[c].token \in 1..Len(session[s].tokens)
    BY <1>0, <1>1 DEF SessionsOK, Rows
  <1>4. Len(q) = Lasts[s] + 1
    BY <1>0, <1>1, <1>2, <1>3, Marked, LastsAre
  <1>5. PICK row : row = [session[s] EXCEPT !.tokens = q, !.expired = e]
    OBVIOUS
  <1>6. row.tokens = q /\ row.revoked = session[s].revoked
    BY <1>1, <1>3, <1>5 DEF Rows
  <1>7. \A r \in Sids : session'[r] = IF r = s THEN row ELSE session[r]
    BY <1>2, <1>3, <1>5
  <1>8. \A r \in Sids : Lasts'[r] = IF r = s THEN Lasts[r] + 1 ELSE Lasts[r]
    BY <1>0, <1>4, <1>6, <1>7, LastsAre DEF Lasts
  <1>9. NoReuse'
    BY <1>6, <1>7 DEF NoReuse, Good
  <1>10. \A d \in Rotations :
           /\ rotation'[d].step = IF d = c THEN "ANSWERED" ELSE rotation[d].step
           /\ rotation'[d].sid = rotation[d].sid /\ rotation'[d].token = rotation[d].token
           /\ rotation'[d].next = IF d = c THEN Lasts[s] + 1 ELSE rotation[d].next
    <2>1. \A d \in Rotations : rotation[d] \in Calls
      BY <1>0 DEF SessionsOK
    <2>2. PICK n : n = Len(session[rotation[c].sid].tokens) + 1
      OBVIOUS
    <2>3. n = Lasts[s] + 1
      BY <1>0, <1>1, <2>2, LastsAre
    <2>4. rotation' = [rotation EXCEPT ![c].step = "ANSWERED", ![c].next = n]
      BY <2>2 DEF Rotate
    <2> QED BY <1>0, <2>1, <2>3, <2>4 DEF SessionsOK, Calls
  <1>11. Live' = Live /\ BroughtBy' = BroughtBy
    BY <1>1, <1>10 DEF Live, BroughtBy, Brought
  <1>12. /\ \A d \in Rotations : Granted'[d] = IF d = c THEN new ELSE Granted[d]
         /\ new \in Tokens /\ new.sid = s /\ new.token = Lasts[s] + 1
    <2>1. \A d \in Rotations : Granted'[d] = [sid |-> rotation'[d].sid, token |-> rotation'[d].next]
      BY DEF Granted
    <2>2. \A d \in Rotations : Granted[d] = [sid |-> rotation[d].sid, token |-> rotation[d].next]
      BY DEF Granted
    <2>3. new \in Tokens
      BY <1>1, SessionsAssumption DEF Tokens
    <2>4. \A d \in Rotations : d # c => Granted'[d] = Granted[d]
      <3>1. \A d \in Rotations : d # c => /\ rotation'[d].sid = rotation[d].sid
                                         /\ rotation'[d].next = rotation[d].next
        BY <1>10
      <3> QED BY ONLY <2>1, <2>2, <3>1
    <2>5. Granted'[c] = new
      BY <1>1, <1>10, <2>1
    <2> QED BY <2>3, <2>4, <2>5
  <1> HIDE DEF s, new
  <1>13. Fresh \subseteq Fresh'
    <2> SUFFICES ASSUME NEW x \in Fresh
                 PROVE  x \in Fresh'
      OBVIOUS
    <2>1. x \in Tokens /\ x.token = Lasts[x.sid] /\ BroughtBy[c] # x
      BY <1>1 DEF Fresh
    <2>2. x.sid # s
      BY <1>1, <2>1, TokenIs DEF BroughtBy, Brought
    <2> QED BY <1>8, <1>11, <2>1, <2>2, TokenIs DEF Fresh, deviceVars
  <1>14. ASSUME \A x \in Shared : x \in Known
         PROVE  new \in Fresh'
    <2>1. shared[new] = NoToken
      BY <1>1, <1>12, <1>14 DEF Shared, Known
    <2>2. \A d \in Live : BroughtBy[d] # new
      BY <1>0, <1>1, <1>12, LastsAre
    <2> QED BY <1>1, <1>8, <1>11, <1>12, <2>1, <2>2 DEF Fresh, deviceVars
  <1>15. Answers' \subseteq Answers \cup {new}
    BY <1>10, <1>12, <1>0 DEF Answers, deviceVars, CallsOK, Live
  <1>16. ASSUME \A x \in Shared : x \in Known
         PROVE  CallsOK'
    <2>1. Answers' \subseteq Fresh'
      BY <1>0, <1>13, <1>14, <1>15, <1>16 DEF CallsOK
    <2>2. ASSUME NEW d \in Live
          PROVE  /\ rotation'[d].step # "REUSED"
                 /\ rotation'[d].step \in {"SENT", "CHECKED"} =>
                      BroughtBy[d].token = Lasts'[BroughtBy[d].sid]
      <3>1. CASE d = c
        BY <1>10, <3>1
      <3>2. CASE d # c
        <4>1. rotation'[d].step = rotation[d].step /\ BroughtBy[d] # BroughtBy[c]
          BY <1>0, <1>1, <1>10, <3>2 DEF CallsOK, Live
        <4>2. BroughtBy[d].token = Lasts[BroughtBy[d].sid] => BroughtBy[d].sid # s
          BY <1>0, <1>1, <4>1, LastsAre DEF BroughtBy, Brought
        <4> QED BY <1>0, <1>8, <4>1, <4>2, LastsAre DEF CallsOK
      <3> QED BY <3>1, <3>2
    <2> QED BY <1>0, <1>11, <2>1, <2>2 DEF CallsOK, deviceVars
  <1>17. /\ Stored' = Stored /\ Leaving' = Leaving /\ Asked' = Asked /\ Shared' = Shared
         /\ PagesWith("ANSWERED")' = PagesWith("ANSWERED") /\ DeviceOK'
    BY DEF deviceVars, Stored, Leaving, PagesWith, Asked, Shared, Good, DeviceOK
  <1>18. Coming' \subseteq Coming \cup {new}
    BY <1>15, <1>17 DEF Coming, deviceVars
  <1>19. Known \subseteq Known'
    BY <1>8, <1>0, LastsAre, TokenIs DEF Known
  <1>20. CASE kind = "APP"
    <2>1. Shared = {}
      BY <1>20 DEF Good, NoBrowser, Shared
    <2>2. AppOK'
      BY <1>1, <1>11, <1>20 DEF Good, AppOK, deviceVars
    <2> QED BY <1>9, <1>16, <1>17, <1>20, <2>1, <2>2 DEF Good, NoBrowser, deviceVars
  <1>21. CASE kind = "WEB"
    <2>0. WebOK
      BY <1>21 DEF Good
    <2>1. \A x \in Shared : x \in Known
      BY <2>0 DEF WebOK
    <2>2. new \notin Known
      BY <1>1, <1>12 DEF Known
    <2>3. WebOK'
      BY <1>11, <1>13, <1>14, <1>17, <1>18, <1>19, <2>0, <2>1, <2>2 DEF WebOK, deviceVars
    <2> QED BY <1>9, <1>16, <1>17, <1>21, <2>1, <2>3 DEF Good, deviceVars
  <1>22. CASE kind \notin {"APP", "WEB"}
    BY <1>1, <1>22 DEF Good
  <1> QED BY <1>20, <1>21, <1>22

(* A call that ends.                                                       *)
LEMMA EndedCall ==
  ASSUME SessionsOK, NEW c \in Live, rotation' = [rotation EXCEPT ![c] = NoCall], session' = session
  PROVE  /\ Live' = Live \ {c} /\ Lasts' = Lasts
         /\ \A d \in Live' : /\ rotation'[d] = rotation[d] /\ BroughtBy'[d] = BroughtBy[d]
                             /\ Granted'[d] = Granted[d]
  <1>1. \A d \in Rotations : rotation'[d] = IF d = c THEN NoCall ELSE rotation[d]
    BY DEF SessionsOK
  <1>2. Live' = Live \ {c}
    BY <1>1 DEF Live, NoCall
  <1> QED BY <1>1, <1>2 DEF Live, BroughtBy, Brought, Granted, Lasts

LEMMA EndedCalls ==
  ASSUME SessionsOK, CallsOK, NEW c \in Live, rotation' = [rotation EXCEPT ![c] = NoCall],
         session' = session, waits' = waits \ {c}, Shared' \subseteq Shared \cup {BroughtBy[c]},
         shared' \in [Tokens -> Tokens \cup {NoToken, Pending, Failed}]
  PROVE  /\ CallsOK' /\ Fresh \subseteq Fresh' /\ Known' = Known /\ Answers' \subseteq Answers
  <1>1. /\ Live' = Live \ {c} /\ Lasts' = Lasts
        /\ \A d \in Live' : /\ rotation'[d] = rotation[d] /\ BroughtBy'[d] = BroughtBy[d]
                            /\ Granted'[d] = Granted[d]
    BY EndedCall
  <1>2. Fresh \subseteq Fresh'
    BY <1>1 DEF Fresh, Shared
  <1>3. Known' = Known
    BY <1>1 DEF Known
  <1>4. waits' \subseteq Live' /\ Answers' \subseteq Answers
    BY <1>1 DEF CallsOK, Answers
  <1> QED BY <1>1, <1>2, <1>3, <1>4 DEF CallsOK

(* A call that starts, with a fresh token.                                 *)
LEMMA NewCall ==
  ASSUME SessionsOK, CallsOK, NEW x \in Fresh, NEW c \in Rotations, Present(c, x.sid, x.token),
         waits' = waits \cup {c}, x \notin Answers, Shared' \subseteq Shared \cup {x},
         shared' \in [Tokens -> Tokens \cup {NoToken, Pending, Failed}]
  PROVE  /\ CallsOK' /\ Fresh \ {x} \subseteq Fresh' /\ Known' = Known
         /\ Answers' \subseteq Answers
         /\ Live' = Live \cup {c} /\ c \notin Live /\ BroughtBy'[c] = x
         /\ \A d \in Live : BroughtBy'[d] = BroughtBy[d]
  <1>1. x \in Tokens /\ x.token = Lasts[x.sid] /\ \A d \in Live : BroughtBy[d] # x
    BY DEF Fresh
  <1>2. PICK call : call = [step |-> "SENT", sid |-> x.sid, token |-> x.token, next |-> 0]
    OBVIOUS
  <1>3. \A d \in Rotations : rotation'[d] = IF d = c THEN call ELSE rotation[d]
    BY <1>2 DEF Present, SessionsOK
  <1>4. Live' = Live \cup {c} /\ c \notin Live
    BY <1>2, <1>3 DEF Live, Present, NoCall
  <1>5. Lasts' = Lasts
    BY DEF Lasts, Present
  <1>6. BroughtBy'[c] = x
    BY <1>1, <1>2, <1>3, TokenIs DEF BroughtBy, Brought
  <1>7. \A d \in Live : /\ rotation'[d] = rotation[d] /\ BroughtBy'[d] = BroughtBy[d]
                        /\ Granted'[d] = Granted[d]
    BY <1>3, <1>4 DEF Live, BroughtBy, Brought, Granted
  <1>8. Known' = Known /\ Fresh \ {x} \subseteq Fresh'
    BY <1>4, <1>5, <1>6, <1>7 DEF Known, Fresh, Shared
  <1>9. Answers' \subseteq Answers
    BY <1>2, <1>3, <1>7 DEF Answers, CallsOK
  <1>10. rotation'[c].step = "SENT"
    BY <1>2, <1>3
  <1> QED BY <1>1, <1>4, <1>5, <1>6, <1>7, <1>8, <1>9, <1>10 DEF CallsOK

LEMMA UnheardKeeps ==
  ASSUME SessionsOK, Good, NEW c \in Rotations, Unheard(c)
  PROVE  Good'
  <1>1. /\ c \in Live /\ rotation' = [rotation EXCEPT ![c] = NoCall] /\ session' = session
        /\ UNCHANGED deviceVars /\ waits' = waits \ {c}
    BY DEF Unheard, Answer, Live, deviceVars
  <1>2. Shared' = Shared /\ DeviceOK'
    BY <1>1 DEF Shared, deviceVars, Good, DeviceOK
  <1>3. /\ CallsOK' /\ Fresh \subseteq Fresh' /\ Known' = Known /\ Answers' \subseteq Answers
        /\ \A d \in Live' : BroughtBy'[d] = BroughtBy[d]
    BY <1>1, <1>2, EndedCalls, EndedCall DEF Good, DeviceOK, deviceVars
  <1>4. /\ Stored' = Stored /\ Leaving' = Leaving /\ Asked' = Asked
        /\ PagesWith("ANSWERED")' = PagesWith("ANSWERED") /\ NoReuse'
    BY <1>1 DEF deviceVars, Stored, Leaving, PagesWith, Asked, NoReuse, Good
  <1>5. Coming' \subseteq Coming
    BY <1>1, <1>3, <1>4 DEF Coming, deviceVars
  <1>6. CASE kind = "APP"
    BY <1>1, <1>6 DEF Good, AppOK, Unheard
  <1>7. CASE kind = "WEB"
    <2>1. WebOK /\ waits' \subseteq Live'
      BY <1>3, <1>7 DEF Good, CallsOK
    <2>2. \A d \in waits' : \E p \in Pages :
            pages'[p] = [step |-> "WAITING", token |-> BroughtBy'[d]]
      BY <1>1, <1>3, <2>1 DEF WebOK, deviceVars
    <2>3. WebOK'
      BY <1>2, <1>3, <1>4, <1>5, <2>1, <2>2, WebStays DEF WebOK
    <2> QED BY <1>1, <1>2, <1>3, <1>4, <1>7, <2>3 DEF Good, deviceVars
  <1>8. CASE kind \notin {"APP", "WEB"}
    BY <1>1, <1>8 DEF Good
  <1> QED BY <1>6, <1>7, <1>8

(* The app: one refresh at a time, with the token it stores.               *)
LEMMA AppKeeps ==
  ASSUME SessionsOK, Good, ~faulty', NEW c \in Rotations,
         AppRefresh(c) \/ AppAnswered(c) \/ AppGivesUp(c)
  PROVE  Good'
  <1>0. /\ kind = "APP" /\ kind' = kind /\ shared' = shared /\ pages' = pages /\ session' = session
        /\ AppOK /\ DeviceOK /\ NoReuse /\ CallsOK /\ Shared = {} /\ Shared' = {} /\ NoReuse'
        /\ NoBrowser'
    BY DEF AppRefresh, AppAnswered, AppGivesUp, FaultIf, Present, Answer, Good, NoBrowser, Shared,
           NoReuse
  <1>1. CASE AppRefresh(c)
    <2>1. PICK x \in Tokens : x = device.token
      BY <1>0, <1>1 DEF DeviceOK, AppRefresh, NeedsRefresh
    <2>2. waits = {} /\ Live = {} /\ x \in Fresh /\ Answers = {}
      BY <1>0, <1>1, <2>1 DEF AppRefresh, SingleFlight, AppOK, Stored, Answers
    <2>3. Present(c, x.sid, x.token) /\ waits' = waits \cup {c} /\ device' = device
      BY <1>1, <2>1 DEF AppRefresh
    <2>4. CallsOK' /\ Live' = {c}
      BY <1>0, <2>2, <2>3, NewCall DEF DeviceOK
    <2>5. AppOK'
      BY <1>0, <2>2, <2>3, <2>4 DEF AppOK
    <2> QED BY <1>0, <2>3, <2>4, <2>5 DEF Good, DeviceOK
  <1>2. CASE AppAnswered(c)
    <2>1. /\ c \in Live /\ rotation' = [rotation EXCEPT ![c] = NoCall] /\ waits' = waits \ {c}
          /\ c \in waits
      BY <1>2 DEF AppAnswered, Answer, Live
    <2>2. CallsOK' /\ Fresh \subseteq Fresh' /\ Live' = Live \ {c}
      BY <1>0, <2>1, EndedCalls, EndedCall DEF DeviceOK
    <2>3. Live' = {} /\ waits' = {}
      BY <1>0, <2>1, <2>2 DEF AppOK
    <2>4. PICK x \in Fresh \cup {NoToken} : device'.token = x /\ device'.access \in BOOLEAN
                                            /\ device' = [token |-> x, access |-> device'.access]
      <3>1. CASE rotation[c].step = "ANSWERED"
        <4>1. Granted[c] \in Fresh
          BY <1>0, <2>1, <3>1 DEF CallsOK, Answers
        <4>2. device' = [token |-> Granted[c], access |-> TRUE]
          BY <1>2, <3>1 DEF AppAnswered, Granted, Holds
        <4> QED BY <4>1, <4>2
      <3>2. CASE rotation[c].step # "ANSWERED"
        BY <1>2, <3>2 DEF AppAnswered, SignedOut
      <3> QED BY <3>1, <3>2
    <2>5. device' \in [token : Tokens \cup {NoToken}, access : BOOLEAN] /\ Stored' \subseteq Fresh'
      BY <2>2, <2>4, TokenIs DEF Stored, Fresh
    <2>6. AppOK' /\ DeviceOK'
      BY <1>0, <2>3, <2>5 DEF AppOK, DeviceOK
    <2> QED BY <1>0, <2>2, <2>6 DEF Good
  <1>3. CASE AppGivesUp(c)
    BY <1>3 DEF AppGivesUp, FaultIf
  <1> QED BY <1>1, <1>2, <1>3

(* The browser.  A step that leaves the calls and the proxy alone.         *)
LEMMA PagesKeep ==
  ASSUME Good, kind = "WEB", UNCHANGED <<sessionVars, kind, shared, waits>>, DeviceOK',
         Coming' \subseteq Coming, Asked' \subseteq Asked,
         \A x \in PagesWith("WAITING") : x \in PagesWith("WAITING")'
  PROVE  Good'
  <1>1. Quiet /\ NoReuse'
    BY CallsSame DEF sessionVars, Good, Lasts, NoReuse
  <1>2. CallsOK' /\ Fresh' = Fresh /\ Known' = Known /\ Shared' = Shared /\ BroughtBy' = BroughtBy
    BY <1>1, QuietCalls DEF Good, Quiet
  <1>3. ASSUME NEW c \in waits'
        PROVE  \E p \in Pages : pages'[p] = [step |-> "WAITING", token |-> BroughtBy'[c]]
    <2>1. PICK p \in Pages : pages[p] = [step |-> "WAITING", token |-> BroughtBy[c]]
      BY <1>3 DEF Good, WebOK
    <2>2. BroughtBy[c] = pages[p].token /\ pages[p].step = "WAITING"
      BY <2>1
    <2>3. BroughtBy[c] \in Tokens
      BY <2>2 DEF Good, DeviceOK
    <2> QED BY <1>2, <2>1, <2>3 DEF PagesWith
  <1>4. WebOK'
    BY <1>2, <1>3, WebStays DEF Good, WebOK
  <1> QED BY <1>1, <1>2, <1>4 DEF Good

LEMMA OpenPageKeeps ==
  ASSUME Good, NEW p \in Pages, OpenPage(p)
  PROVE  Good'
  <1>0. DeviceOK /\ kind = "WEB"
    BY DEF Good, OpenPage
  <1>1. PICK x \in Tokens : x = device.token /\ ~device.access
    BY <1>0 DEF DeviceOK, OpenPage, NeedsRefresh
  <1>2. \A q \in Pages : pages'[q] = IF q = p THEN [step |-> "SENT", token |-> x] ELSE pages[q]
    BY <1>0, <1>1 DEF OpenPage, DeviceOK
  <1>3. UNCHANGED <<device, sessionVars, kind, shared, waits>> /\ pages[p].step = "IDLE"
    BY DEF OpenPage, NoPage
  <1>4. /\ PagesWith("WAITING")' = PagesWith("WAITING")
        /\ PagesWith("ANSWERED")' = PagesWith("ANSWERED")
        /\ Leaving' \subseteq Leaving \cup Stored /\ Stored' = Stored
    BY <1>1, <1>2, <1>3 DEF PagesWith, Leaving, Stored
  <1>5. Asked' \subseteq Asked
    BY <1>1, <1>3, <1>4 DEF Asked
  <1>6. Coming' \subseteq Coming
    <2>1. Answers' = Answers
      BY <1>3 DEF Answers, Granted, sessionVars
    <2> QED BY <1>3, <1>4, <2>1 DEF Coming
  <1>7. DeviceOK'
    <2>1. [step |-> "SENT", token |-> x] \in [step : {"IDLE", "SENT", "WAITING", "ANSWERED"},
                                             token : Tokens \cup {NoToken, Failed}]
      OBVIOUS
    <2>2. pages' = [pages EXCEPT ![p] = [step |-> "SENT", token |-> x]]
      BY <1>1 DEF OpenPage
    <2>3. pages' \in [Pages -> [step : {"IDLE", "SENT", "WAITING", "ANSWERED"},
                               token : Tokens \cup {NoToken, Failed}]]
      BY <1>0, <2>1, <2>2 DEF DeviceOK
    <2> QED BY <1>0, <1>2, <1>3, <2>3 DEF DeviceOK
  <1> QED BY <1>0, <1>3, <1>4, <1>5, <1>6, <1>7, PagesKeep

LEMMA ShareKeeps ==
  ASSUME Good, kind = "WEB", NEW p \in Pages, Share(p)
  PROVE  Good'
  <1>0. DeviceOK
    BY DEF Good
  <1>1. PICK x \in Tokens : x = pages[p].token /\ pages[p] = [step |-> "SENT", token |-> x]
    BY <1>0 DEF DeviceOK, Share
  <1>2. UNCHANGED <<device, sessionVars, kind, shared, waits>> /\ shared[x] # NoToken
    BY <1>1 DEF Share
  <1>3. PICK row : /\ row \in {[step |-> "WAITING", token |-> x],
                               [step |-> "ANSWERED", token |-> shared[x]]}
                   /\ row.step = "ANSWERED" => shared[x] \in Tokens \cup {Failed}
                   /\ pages' = [pages EXCEPT ![p] = row]
    <2>1. CASE shared[x] = Pending
      <3>1. pages' = [pages EXCEPT ![p] = [pages[p] EXCEPT !.step = "WAITING"]]
        BY <1>0, <1>1, <2>1 DEF Share, DeviceOK
      <3>2. [pages[p] EXCEPT !.step = "WAITING"] = [step |-> "WAITING", token |-> x]
        BY <1>1
      <3>3. pages' = [pages EXCEPT ![p] = [step |-> "WAITING", token |-> x]]
        BY <3>1, <3>2
      <3> QED BY <3>3
    <2>2. CASE shared[x] # Pending
      BY <1>0, <1>1, <1>2, <2>2 DEF Share, DeviceOK
    <2> QED BY <2>1, <2>2
  <1>4. \A q \in Pages : pages'[q] = IF q = p THEN row ELSE pages[q]
    BY <1>0, <1>3 DEF DeviceOK
  <1>5. x \in Leaving
    BY <1>1 DEF Leaving, PagesWith
  <1>6. /\ \A y \in PagesWith("WAITING") : y \in PagesWith("WAITING")'
        /\ Leaving' \subseteq Leaving /\ Stored' = Stored
        /\ PagesWith("ANSWERED")' \subseteq PagesWith("ANSWERED") \cup ({shared[x]} \cap Tokens)
    <2>1. ASSUME NEW y \in PagesWith("WAITING")
          PROVE  y \in PagesWith("WAITING")'
      <3>1. PICK q \in Pages : pages[q] = [step |-> "WAITING", token |-> y]
        BY <2>1 DEF PagesWith
      <3>2. pages[q].step = "WAITING" /\ pages[p].step = "SENT"
        BY <1>1, <3>1
      <3>3. pages'[q] = [step |-> "WAITING", token |-> y]
        BY <1>4, <3>1, <3>2
      <3>4. y \in Tokens
        BY <2>1 DEF PagesWith
      <3> QED BY <3>3, <3>4 DEF PagesWith
    <2>2. Leaving' \subseteq Leaving
      BY <1>3, <1>4 DEF PagesWith, Leaving
    <2>3. ASSUME NEW y \in PagesWith("ANSWERED")', y \notin PagesWith("ANSWERED")
          PROVE  y = shared[x] /\ y \in Tokens
      BY <1>3, <1>4, <2>3 DEF PagesWith
    <2> QED BY <1>2, <2>1, <2>2, <2>3 DEF Stored
  <1>7. Asked' \subseteq Asked
    BY <1>2, <1>6 DEF Asked
  <1>8. Coming' \subseteq Coming
    <2>1. Answers' = Answers
      BY <1>2 DEF Answers, Granted, sessionVars
    <2>2. shared[x] \in Tokens => shared[x] \in Coming
      BY <1>5 DEF Coming
    <2> QED BY <1>2, <1>6, <2>1, <2>2 DEF Coming
  <1>9. DeviceOK'
    <2>1. row \in [step : {"IDLE", "SENT", "WAITING", "ANSWERED"},
                   token : Tokens \cup {NoToken, Failed}]
      BY <1>3
    <2>2. pages' \in [Pages -> [step : {"IDLE", "SENT", "WAITING", "ANSWERED"},
                               token : Tokens \cup {NoToken, Failed}]]
      BY <1>0, <1>3, <2>1 DEF DeviceOK
    <2> QED BY <1>0, <1>2, <1>3, <1>4, <2>2, TokenIs DEF DeviceOK
  <1> QED BY <1>2, <1>6, <1>7, <1>8, <1>9, PagesKeep

LEMMA ShowPageKeeps ==
  ASSUME Good, kind = "WEB", NEW p \in Pages, ShowPage(p)
  PROVE  Good'
  <1>0. DeviceOK /\ WebOK
    BY DEF Good
  <1>1. UNCHANGED <<sessionVars, kind, shared, waits>> /\ pages[p].step = "ANSWERED"
    BY DEF ShowPage
  <1>2. \A q \in Pages : pages'[q] = IF q = p THEN NoPage ELSE pages[q]
    BY <1>0 DEF ShowPage, DeviceOK
  <1>3. /\ \A k \in {"SENT", "WAITING", "ANSWERED"} : \A y \in Tokens : \A q \in Pages :
             pages'[q] = [step |-> k, token |-> y] => pages[q] = [step |-> k, token |-> y]
        /\ \A y \in Tokens : \A q \in Pages :
             pages[q] = [step |-> "WAITING", token |-> y] => pages'[q] = [step |-> "WAITING", token |-> y]
    BY <1>1, <1>2 DEF NoPage
  <1>4. /\ Leaving' \subseteq Leaving /\ PagesWith("ANSWERED")' \subseteq PagesWith("ANSWERED")
        /\ \A y \in PagesWith("WAITING") : y \in PagesWith("WAITING")'
    BY <1>3 DEF Leaving, PagesWith
  <1>5. Answers' = Answers
    BY <1>1 DEF Answers, Granted, sessionVars
  <1>6. pages' \in [Pages -> [step : {"IDLE", "SENT", "WAITING", "ANSWERED"},
                             token : Tokens \cup {NoToken, Failed}]]
    <2>1. NoPage \in [step : {"IDLE", "SENT", "WAITING", "ANSWERED"},
                      token : Tokens \cup {NoToken, Failed}]
      BY DEF NoPage
    <2> QED BY <1>0, <2>1 DEF ShowPage, DeviceOK
  <1>7. CASE pages[p].token = Failed
    <2>1. device' = [token |-> NoToken, access |-> FALSE]
      BY <1>7 DEF ShowPage, SignedOut
    <2>2. Stored' = {} /\ ~device'.access
      BY <2>1, TokenIs DEF Stored
    <2>3. Asked' \subseteq Asked /\ Coming' \subseteq Coming
      BY <1>1, <1>4, <1>5, <2>2 DEF Asked, Coming
    <2>4. DeviceOK'
      BY <1>0, <1>1, <1>2, <1>6, <2>1 DEF DeviceOK, NoPage
    <2> QED BY <1>1, <1>4, <2>3, <2>4, PagesKeep
  <1>8. CASE pages[p].token # Failed
    <2>1. PICK x \in Tokens : x = pages[p].token /\ pages[p] = [step |-> "ANSWERED", token |-> x]
      BY <1>0, <1>1, <1>8 DEF DeviceOK
    <2>2. device' = [token |-> x, access |-> TRUE] /\ x \in PagesWith("ANSWERED")
      BY <1>8, <2>1 DEF ShowPage, Holds, PagesWith
    <2>3. x \in Coming /\ shared[x] = NoToken
      <3>1. x \in Coming
        BY <2>2 DEF Coming
      <3> QED BY <1>0, <3>1 DEF WebOK, Fresh
    <2>4. Stored' = {x} /\ device'.access
      BY <2>2 DEF Stored
    <2>5. Asked' \subseteq Asked
      BY <1>4, <2>4 DEF Asked
    <2>6. Coming' \subseteq Coming
      BY <1>1, <1>4, <1>5, <2>3, <2>4, TokenIs DEF Coming
    <2>7. DeviceOK'
      BY <1>0, <1>1, <1>2, <1>6, <2>2 DEF DeviceOK, NoPage
    <2> QED BY <1>1, <1>4, <2>5, <2>6, <2>7, PagesKeep
  <1> QED BY <1>7, <1>8

LEMMA WebRefreshKeeps ==
  ASSUME SessionsOK, Good, kind = "WEB", NEW p \in Pages, NEW c \in Rotations, WebRefresh(p, c)
  PROVE  Good'
  <1>0. DeviceOK /\ WebOK /\ CallsOK
    BY DEF Good
  <1>1. PICK x \in Tokens : x = pages[p].token /\ pages[p] = [step |-> "SENT", token |-> x]
    BY <1>0 DEF DeviceOK, WebRefresh
  <1>2. /\ UNCHANGED <<device, session, kind>> /\ shared[x] = NoToken
        /\ Present(c, x.sid, x.token) /\ waits' = waits \cup {c}
        /\ shared' = [shared EXCEPT ![x] = Pending]
        /\ pages' = [pages EXCEPT ![p] = [step |-> "WAITING", token |-> x]]
    <2>1. [pages[p] EXCEPT !.step = "WAITING"] = [step |-> "WAITING", token |-> x]
      BY <1>1
    <2> QED BY <1>0, <1>1, <2>1 DEF WebRefresh, Present, NotShared, DeviceOK
  <1>3. x \in Asked
    BY <1>1 DEF Asked, Leaving, PagesWith
  <1>4. x \in Fresh /\ x \notin Coming /\ x \in Known
    BY <1>0, <1>2, <1>3 DEF WebOK, Shared
  <1>5. /\ \A y \in Tokens : shared'[y] = IF y = x THEN Pending ELSE shared[y]
        /\ shared' \in [Tokens -> Tokens \cup {NoToken, Pending, Failed}]
    BY <1>0, <1>2 DEF DeviceOK
  <1>6. Shared' = Shared \cup {x}
    BY <1>5, TokenIs DEF Shared
  <1>7. x \notin Answers
    BY <1>4 DEF Coming
  <1>8. /\ CallsOK' /\ Fresh \ {x} \subseteq Fresh' /\ Known' = Known
        /\ Answers' \subseteq Answers /\ BroughtBy'[c] = x
        /\ \A d \in Live : BroughtBy'[d] = BroughtBy[d]
    BY <1>0, <1>2, <1>4, <1>5, <1>6, <1>7, NewCall
  <1>9. \A q \in Pages : pages'[q] = IF q = p THEN [step |-> "WAITING", token |-> x] ELSE pages[q]
    BY <1>0, <1>2 DEF DeviceOK
  <1>10. /\ Leaving' \subseteq Leaving /\ Stored' = Stored
         /\ PagesWith("ANSWERED")' \subseteq PagesWith("ANSWERED")
    BY <1>2, <1>9 DEF Leaving, PagesWith, Stored
  <1>11. Asked' \subseteq Asked
    BY <1>2, <1>10 DEF Asked
  <1>12. Coming' \subseteq Coming
    BY <1>2, <1>5, <1>8, <1>10, TokenIs DEF Coming
  <1>13. DeviceOK'
    <2>1. [step |-> "WAITING", token |-> x] \in [step : {"IDLE", "SENT", "WAITING", "ANSWERED"},
                                                token : Tokens \cup {NoToken, Failed}]
      OBVIOUS
    <2>2. pages' \in [Pages -> [step : {"IDLE", "SENT", "WAITING", "ANSWERED"},
                               token : Tokens \cup {NoToken, Failed}]]
      BY <1>0, <1>2, <2>1 DEF DeviceOK
    <2> QED BY <1>0, <1>2, <1>5, <1>9, <2>2 DEF DeviceOK
  <1>14. ASSUME NEW d \in waits'
         PROVE  \E q \in Pages : pages'[q] = [step |-> "WAITING", token |-> BroughtBy'[d]]
    <2>1. CASE d = c
      BY <1>8, <1>9, <2>1
    <2>2. CASE d # c
      <3>1. d \in waits /\ d \in Live
        BY <1>0, <1>2, <1>14, <2>2 DEF CallsOK
      <3>2. PICK q \in Pages : pages[q] = [step |-> "WAITING", token |-> BroughtBy[d]]
        BY <1>0, <3>1 DEF WebOK
      <3>3. pages[q].step = "WAITING" /\ pages[p].step = "SENT"
        BY <1>1, <3>2
      <3> QED BY <1>8, <1>9, <3>1, <3>2, <3>3
    <2> QED BY <2>1, <2>2
  <1>15. WebOK'
    <2>1. Coming' \cap Fresh \subseteq Fresh'
      BY <1>4, <1>8, <1>12
    <2>2. Fresh \cap (Coming \cup Asked') \subseteq Shared' \cup Fresh'
      BY <1>6, <1>8
    <2>3. Shared' \subseteq Known'
      BY <1>0, <1>4, <1>6, <1>8 DEF WebOK
    <2> QED BY <1>0, <1>6, <1>8, <1>11, <1>12, <1>14, <2>1, <2>2, <2>3, WebStays
  <1>16. NoReuse'
    BY <1>2 DEF Good, NoReuse
  <1> QED BY <1>2, <1>8, <1>13, <1>15, <1>16 DEF Good

(* The answer, or the error, reaches everybody who waits for it.           *)
LEMMA ResolveKeeps ==
  ASSUME SessionsOK, Good, NEW c \in Rotations, WebAnswered(c) \/ WebFails(c)
  PROVE  Good'
  <1>0. DeviceOK /\ WebOK /\ CallsOK /\ kind = "WEB" /\ c \in waits /\ c \in Live
    BY DEF Good, WebAnswered, WebFails, Resolve, CallsOK
  <1>1. PICK result :
          /\ result = Failed \/ (result = Granted[c] /\ rotation[c].step = "ANSWERED")
          /\ Resolve(c, result)
    BY DEF WebAnswered, WebFails, Granted
  <1>2. result \in Answers \cup {Failed}
    BY <1>0, <1>1 DEF Answers
  <1>3. result \in (Coming \cap Fresh) \cup {Failed} /\ result \in Tokens \cup {Failed}
    BY <1>0, <1>2 DEF Coming, CallsOK, Fresh
  <1>4. PICK x \in Tokens : x = BroughtBy[c] /\ x = Brought(c)
    <2>1. PICK p \in Pages : pages[p] = [step |-> "WAITING", token |-> BroughtBy[c]]
      BY <1>0 DEF WebOK
    <2>2. pages[p].step = "WAITING" /\ pages[p].token = BroughtBy[c]
      BY <2>1
    <2> QED BY <1>0, <2>2 DEF DeviceOK, BroughtBy
  <1>5. /\ UNCHANGED <<device, session, kind>> /\ waits' = waits \ {c}
        /\ \A p \in Pages : pages'[p] = IF pages[p] = [step |-> "WAITING", token |-> x]
                                        THEN [step |-> "ANSWERED", token |-> result] ELSE pages[p]
        /\ \A y \in Tokens : shared'[y] = IF y = x /\ shared[y] = Pending THEN result ELSE shared[y]
    BY <1>0, <1>1, <1>4 DEF Resolve, WebAnswered, WebFails, Answer, sessionVars, DeviceOK
  <1>6. shared' \in [Tokens -> Tokens \cup {NoToken, Pending, Failed}]
    <2>1. shared' = [shared EXCEPT ![x] = IF shared[x] = Pending THEN result ELSE shared[x]]
      BY <1>0, <1>1, <1>4 DEF Resolve, DeviceOK
    <2> QED BY <1>0, <1>3, <2>1 DEF DeviceOK
  <1>7. Shared' = Shared
    BY <1>3, <1>5, TokenIs DEF Shared
  <1>8. /\ CallsOK' /\ Fresh \subseteq Fresh' /\ Known' = Known /\ Answers' \subseteq Answers
        /\ \A d \in Live' : BroughtBy'[d] = BroughtBy[d] /\ d \in Live
    <2>1. CASE rotation' = [rotation EXCEPT ![c] = NoCall]
      BY <1>0, <1>5, <1>6, <1>7, <2>1, EndedCalls, EndedCall
    <2>2. CASE rotation' = rotation
      <3>1. Live' = Live /\ BroughtBy' = BroughtBy /\ Granted' = Granted /\ Lasts' = Lasts
        BY <1>5, <2>2 DEF Live, BroughtBy, Brought, Granted, Lasts
      <3>2. Fresh \subseteq Fresh' /\ Known' = Known
        BY <1>7, <3>1 DEF Fresh, Known, Shared
      <3>3. Answers' \subseteq Answers
        BY <1>5, <2>2, <3>1 DEF Answers
      <3> QED BY <1>0, <1>5, <2>2, <3>1, <3>2, <3>3 DEF CallsOK
    <2> QED BY <2>1, <2>2 DEF WebAnswered, WebFails, Answer, sessionVars
  <1>9. /\ Stored' = Stored /\ Leaving' \subseteq Leaving
        /\ PagesWith("ANSWERED")' \subseteq PagesWith("ANSWERED") \cup {result}
    <2>1. ASSUME NEW y \in Leaving'
          PROVE  y \in Leaving
      BY <1>5 DEF Leaving, PagesWith
    <2>2. ASSUME NEW y \in PagesWith("ANSWERED")', y \notin PagesWith("ANSWERED")
          PROVE  y = result
      BY <1>5, <2>2 DEF PagesWith
    <2> QED BY <1>5, <2>1, <2>2 DEF Stored
  <1>10. Asked' \subseteq Asked
    BY <1>5, <1>9 DEF Asked
  <1>11. Coming' \subseteq Coming
    <2> SUFFICES ASSUME NEW y \in Coming'
                 PROVE  y \in Coming
      OBVIOUS
    <2>1. CASE y \in Answers' \/ y \in IF device'.access THEN Stored' ELSE {}
      BY <1>5, <1>8, <1>9, <2>1 DEF Coming
    <2>2. CASE y \in PagesWith("ANSWERED")'
      <3>1. y \in Tokens
        BY <2>2 DEF PagesWith
      <3> QED BY <1>3, <1>9, <2>2, <3>1, TokenIs DEF Coming
    <2>3. ASSUME NEW t \in (Stored' \cup Leaving') \cap Tokens, y = shared'[t], y \in Tokens
          PROVE  y \in Coming
      <3>1. y = result \/ y = shared[t]
        BY <1>5, <2>3
      <3>2. t \in Stored \cup Leaving
        BY <1>9, <2>3
      <3> QED BY <1>3, <2>3, <3>1, <3>2, TokenIs DEF Coming
    <2> QED BY <2>1, <2>2, <2>3 DEF Coming
  <1>12. DeviceOK'
    <2>1. [step |-> "ANSWERED", token |-> result] \in
             [step : {"IDLE", "SENT", "WAITING", "ANSWERED"}, token : Tokens \cup {NoToken, Failed}]
      BY <1>3
    <2>2. pages' \in [Pages -> [step : {"IDLE", "SENT", "WAITING", "ANSWERED"},
                               token : Tokens \cup {NoToken, Failed}]]
      BY <1>0, <1>1, <1>4, <2>1 DEF Resolve, DeviceOK
    <2>3. result # NoToken
      BY <1>3, TokenIs
    <2>4. ASSUME NEW p \in Pages
          PROVE  /\ pages'[p].step \in {"SENT", "WAITING"} => pages'[p].token \in Tokens
                 /\ pages'[p].step = "ANSWERED" => pages'[p].token # NoToken
      <3>1. CASE pages[p] = [step |-> "WAITING", token |-> x]
        BY <1>5, <2>3, <3>1
      <3>2. CASE pages[p] # [step |-> "WAITING", token |-> x]
        BY <1>0, <1>5, <3>2 DEF DeviceOK
      <3> QED BY <3>1, <3>2
    <2> QED BY <1>0, <1>5, <1>6, <2>2, <2>4 DEF DeviceOK
  <1>13. ASSUME NEW d \in waits'
         PROVE  \E q \in Pages : pages'[q] = [step |-> "WAITING", token |-> BroughtBy'[d]]
    <2>1. d \in waits /\ d \in Live /\ d # c /\ d \in Live'
      BY <1>0, <1>5, <1>8, <1>13 DEF CallsOK
    <2>2. PICK q \in Pages : pages[q] = [step |-> "WAITING", token |-> BroughtBy[d]]
      BY <1>0, <2>1 DEF WebOK
    <2>3. BroughtBy[d] # x /\ BroughtBy'[d] = BroughtBy[d]
      <3>1. \A e \in Live : BroughtBy[e] = BroughtBy[c] => e = c
        BY <1>0 DEF CallsOK
      <3>2. BroughtBy[d] # BroughtBy[c]
        BY <2>1, <3>1
      <3> QED BY <1>4, <1>8, <2>1, <3>2
    <2>4. pages[q].token # x
      BY <2>2, <2>3
    <2>5. pages'[q] = pages[q]
      BY <1>5, <2>4
    <2> QED BY <2>2, <2>3, <2>5
  <1>14. WebOK'
    BY <1>0, <1>7, <1>8, <1>10, <1>11, <1>13, WebStays DEF WebOK
  <1>15. NoReuse'
    BY <1>5 DEF Good, NoReuse
  <1> QED BY <1>0, <1>5, <1>8, <1>12, <1>14, <1>15 DEF Good

LEMMA ForgetKeeps ==
  ASSUME Good, ~faulty', kind = "WEB", NEW t \in Tokens, Forget(t)
  PROVE  Good'
  <1>0. DeviceOK /\ WebOK /\ CallsOK
    BY DEF Good
  <1>1. /\ UNCHANGED <<sessionVars, device, kind, pages, waits>>
        /\ \A y \in Tokens : shared'[y] = IF y = t THEN NoToken ELSE shared[y]
        /\ t \notin Stored /\ t \notin Leaving
    BY <1>0 DEF Forget, FaultIf, DeviceOK, Stored, Leaving, PagesWith
  <1>2. Live' = Live /\ BroughtBy' = BroughtBy /\ Granted' = Granted /\ Lasts' = Lasts
    BY <1>1 DEF Live, BroughtBy, Brought, Granted, Lasts, sessionVars
  <1>3. /\ Shared' = Shared \ {t} /\ Known' = Known /\ Fresh \subseteq Fresh' /\ Answers' = Answers
    BY <1>1, <1>2 DEF Shared, Known, Fresh, Answers, sessionVars
  <1>4. CallsOK' /\ NoReuse'
    BY <1>0, <1>1, <1>2, <1>3 DEF CallsOK, NoReuse, Good, sessionVars
  <1>5. /\ Stored' = Stored /\ Leaving' = Leaving /\ Asked' = Asked
        /\ PagesWith("ANSWERED")' = PagesWith("ANSWERED")
    BY <1>1 DEF Stored, Leaving, PagesWith, Asked
  <1>6. Coming' \subseteq Coming /\ t \notin Asked
    BY <1>1, <1>3, <1>5, TokenIs DEF Coming, Asked
  <1>7. DeviceOK'
    <2>1. shared' \in [Tokens -> Tokens \cup {NoToken, Pending, Failed}]
      BY <1>0 DEF Forget, DeviceOK
    <2> QED BY <1>0, <1>1, <2>1 DEF DeviceOK
  <1>8. \A c \in waits' : \E p \in Pages :
          pages'[p] = [step |-> "WAITING", token |-> BroughtBy'[c]]
    BY <1>0, <1>1, <1>2 DEF WebOK
  <1>9. WebOK'
    BY <1>0, <1>3, <1>5, <1>6, <1>8, WebStays DEF WebOK
  <1> QED BY <1>1, <1>4, <1>7, <1>9 DEF Good

(* On either device.                                                       *)
LEMMA SignOutKeeps ==
  ASSUME Inv, Good, SignOut
  PROVE  Good'
  <1>0. /\ DeviceOK /\ CallsOK /\ NoReuse
        /\ UNCHANGED <<kind, pages, shared, waits>>
        /\ device' = [token |-> NoToken, access |-> FALSE]
    BY DEF Good, SignOut, SignedOut
  <1>1. Quiet /\ NoReuse'
    BY <1>0, QuietSteps DEF SignOut, Logout, Made
  <1>2. /\ CallsOK' /\ Fresh' = Fresh /\ Known' = Known /\ Shared' = Shared
        /\ Answers' \subseteq Answers /\ Live' = Live /\ BroughtBy' = BroughtBy
    BY <1>0, <1>1, QuietCalls DEF Quiet
  <1>3. Stored' = {} /\ ~device'.access
    BY <1>0, TokenIs DEF Stored
  <1>4. Leaving' = Leaving /\ PagesWith("ANSWERED")' = PagesWith("ANSWERED")
    BY <1>0 DEF Leaving, PagesWith
  <1>5. Asked' \subseteq Asked /\ Coming' \subseteq Coming
    BY <1>0, <1>2, <1>3, <1>4 DEF Asked, Coming
  <1>6. DeviceOK'
    BY <1>0 DEF DeviceOK
  <1>7. ASSUME kind = "APP"
        PROVE  AppOK'
    BY <1>0, <1>2, <1>3, <1>7 DEF Good, AppOK
  <1>8. ASSUME kind = "WEB"
        PROVE  WebOK'
    <2>1. \A c \in waits' : \E p \in Pages :
            pages'[p] = [step |-> "WAITING", token |-> BroughtBy'[c]]
      BY <1>0, <1>2, <1>8 DEF Good, WebOK
    <2> QED BY <1>2, <1>5, <1>8, <2>1, WebStays DEF Good, WebOK
  <1> QED BY <1>0, <1>1, <1>2, <1>6, <1>7, <1>8 DEF Good, NoBrowser

(* From here on the stored token is one that is asked with; nothing else   *)
(* brings it, because no page is on its way.                               *)
LEMMA AccessEndsKeeps ==
  ASSUME SessionsOK, Good, ~faulty', AccessEnds
  PROVE  Good'
  <1>0. /\ DeviceOK /\ CallsOK /\ NoReuse /\ device.access
        /\ UNCHANGED <<sessionVars, kind, pages, shared, waits>>
        /\ \A p \in Pages : pages[p].step = "IDLE"
    BY DEF Good, AccessEnds, FaultIf, OnTheWay
  <1>1. Quiet /\ NoReuse'
    BY <1>0, CallsSame DEF sessionVars, Lasts, NoReuse
  <1>2. /\ CallsOK' /\ Fresh' = Fresh /\ Known' = Known /\ Shared' = Shared
        /\ Answers' \subseteq Answers /\ Live' = Live /\ BroughtBy' = BroughtBy
    BY <1>0, <1>1, QuietCalls DEF Quiet
  <1>3. device' = [token |-> device.token, access |-> FALSE]
    BY <1>0 DEF AccessEnds, DeviceOK
  <1>4. Stored' = Stored /\ Leaving' = {} /\ PagesWith("ANSWERED")' = {} /\ Leaving = {}
    <2>1. \A p \in Pages, x, k \in {"SENT", "ANSWERED"} : pages[p] # [step |-> k, token |-> x]
      BY <1>0
    <2> QED BY <1>0, <1>3, <2>1 DEF Stored, Leaving, PagesWith
  <1>5. DeviceOK'
    <2>1. device' \in [token : Tokens \cup {NoToken}, access : BOOLEAN]
      BY <1>0, <1>3 DEF DeviceOK
    <2> QED BY <1>0, <2>1 DEF DeviceOK
  <1>6. ASSUME kind = "APP"
        PROVE  AppOK'
    BY <1>0, <1>2, <1>4, <1>6 DEF Good, AppOK
  <1>7. ASSUME kind = "WEB"
        PROVE  WebOK'
    <2>1. waits = {}
      <3>1. \A p \in Pages : \A x : pages[p] # [step |-> "WAITING", token |-> x]
        BY <1>0
      <3> QED BY <1>7, <3>1 DEF Good, WebOK
    <2>2. Answers' = {} /\ waits' = {}
      BY <1>0, <2>1 DEF Answers
    <2>3. Stored \subseteq Coming /\ Stored \subseteq Fresh
      BY <1>0, <1>7 DEF Coming, Good, WebOK
    <2>4. Asked' = Stored /\ Fresh \subseteq Known
      BY <1>3, <1>4, TokenIs, LastsAre DEF Asked, Fresh, Known
    <2>5. \A x \in Stored : shared'[x] = NoToken
      BY <1>0, <2>3 DEF Fresh
    <2>6. Coming' = {}
      BY <1>3, <1>4, <2>2, <2>5, TokenIs DEF Coming
    <2>7. Shared \subseteq Known
      BY <1>7 DEF Good, WebOK
    <2> QED BY <1>2, <2>2, <2>3, <2>4, <2>6, <2>7 DEF WebOK
  <1> QED BY <1>0, <1>1, <1>2, <1>5, <1>6, <1>7 DEF Good, NoBrowser

(* A device that has signed in: no code and no guess is left.              *)
LEMMA SettledKeeps ==
  ASSUME OtpOK, Settled, [Next]_vars
  PROVE  Settled' /\ ~SigningIn
  <1>0. challenge \in [Codes -> CodeRows] /\ \A k \in Codes : challenge[k].made /\ ~challenge[k].open
    BY DEF OtpOK, Settled
  <1>1. \A g \in Guesses : guess[g].step = "IDLE"
    BY DEF Settled
  <1>2. ~SigningIn
    BY <1>1 DEF SigningIn, FindUser, StartSession
  <1>3. ASSUME NEW i \in Issues, Issuing(i)
        PROVE  Settled'
    <2>1. ~\E k \in Codes : MakeCode(i, k)
      BY <1>0 DEF MakeCode
    <2>2. \A k \in Codes : ~Usable(k)
      BY <1>0 DEF Usable
    <2>3. \A k \in Codes : challenge'[k] \in {challenge[k], [challenge[k] EXCEPT !.open = FALSE]}
      BY <1>0, <1>3, <2>1, <2>2 DEF Issuing, Ask, Replace, Delivered, NotDelivered, TakeBack
    <2>4. \A k \in Codes : challenge'[k].made /\ ~challenge'[k].open
      BY <1>0, <2>3 DEF CodeRows
    <2> QED BY <1>1, <1>3, <2>1, <2>4
            DEF Settled, Issuing, Ask, Replace, Delivered, NotDelivered, TakeBack
  <1>4. ASSUME NEW g \in Guesses, Guessing(g)
        PROVE  FALSE
    BY <1>0, <1>1, <1>4 DEF Guessing, Read, Usable, Count, Wrong, Right, Consume
  <1>5. CASE OtpTime
    BY <1>0, <1>1, <1>2, <1>5 DEF OtpTime, KeyEnds, CodeExpires, Settled
  <1>6. CASE UNCHANGED otpVars
    BY <1>0, <1>1, <1>2, <1>6 DEF otpVars, Settled
  <1>7. Codewise \/ UNCHANGED otpVars
    BY <1>2 DEF Next, Serverside, SignOut, AccessEnds, App, AppRefresh, AppAnswered, AppGivesUp,
                Browser, OpenPage, Share, ShowPage, WebRefresh, WebAnswered, WebFails, Resolve,
                Forget, Unheard, vars, otpVars
  <1> QED BY <1>2, <1>3, <1>4, <1>5, <1>6, <1>7 DEF Codewise

LEMMA FaultsStay == \A bad \in BOOLEAN : FaultIf(bad) => (faulty => faulty')
  BY DEF FaultIf

LEMMA SameKind == [Next]_vars => kind' = kind /\ (faulty => faulty')
  <1> SUFFICES ASSUME [Next]_vars
               PROVE  kind' = kind /\ (faulty => faulty')
    OBVIOUS
  <1>1. CASE UNCHANGED deviceVars
    BY <1>1 DEF deviceVars
  <1>2. Codewise \/ Serverside \/ (\E c \in Rotations : Unheard(c)) \/ UNCHANGED vars =>
          UNCHANGED deviceVars
    BY DEF Codewise, Serverside, Unheard, deviceVars, vars
  <1>3. CASE SigningIn
    <2>1. ASSUME NEW g \in Guesses, FindUser(g)
          PROVE  UNCHANGED deviceVars
      BY <2>1 DEF FindUser
    <2>2. ASSUME NEW g \in Guesses, NEW s \in Sids, StartSession(g, s)
          PROVE  UNCHANGED <<kind, faulty>>
      BY <2>2 DEF StartSession
    <2> QED BY <1>1, <1>3, <2>1, <2>2 DEF SigningIn
  <1>4. CASE SignOut
    BY <1>4 DEF SignOut
  <1>5. CASE AccessEnds
    <2>1. kind' = kind /\ FaultIf(OnTheWay # {})
      BY <1>5 DEF AccessEnds
    <2> QED BY <2>1, FaultsStay
  <1>6. CASE App
    <2>1. ASSUME NEW c \in Rotations, AppRefresh(c) \/ AppAnswered(c)
          PROVE  UNCHANGED <<kind, faulty>>
      BY <2>1 DEF AppRefresh, AppAnswered
    <2>2. ASSUME NEW c \in Rotations, AppGivesUp(c)
          PROVE  kind' = kind /\ FaultIf(TRUE)
      BY <2>2 DEF AppGivesUp
    <2> QED BY <1>6, <2>1, <2>2, FaultsStay DEF App
  <1>7. CASE Browser
    <2>1. ASSUME NEW token \in Tokens, Forget(token)
          PROVE  /\ kind' = kind
                 /\ FaultIf(\/ device.token = token
                            \/ \E p \in Pages : pages[p] = [step |-> "SENT", token |-> token])
      BY <2>1 DEF Forget
    <2>2. ASSUME NEW p \in Pages, OpenPage(p) \/ Share(p) \/ ShowPage(p)
          PROVE  UNCHANGED <<kind, faulty>>
      BY <2>2 DEF OpenPage, Share, ShowPage
    <2>3. ASSUME NEW p \in Pages, NEW c \in Rotations, WebRefresh(p, c)
          PROVE  UNCHANGED <<kind, faulty>>
      BY <2>3 DEF WebRefresh
    <2>4. ASSUME NEW c \in Rotations, WebAnswered(c) \/ WebFails(c)
          PROVE  UNCHANGED <<kind, faulty>>
      BY <2>4 DEF WebAnswered, WebFails, Resolve
    <2> QED BY <1>7, <2>1, <2>2, <2>3, <2>4, FaultsStay DEF Browser
  <1> QED BY <1>1, <1>2, <1>3, <1>4, <1>5, <1>6, <1>7 DEF Next

(* Somebody signs in for the first time: there is no call, and no token    *)
(* that a device could bring.                                              *)
LEMMA FirstSignIn ==
  ASSUME Inv, Good, kind \notin {"APP", "WEB"}, SigningIn
  PROVE  Good'
  <1>0. SessionsOK /\ Live = {} /\ waits = {} /\ DeviceOK /\ NoReuse /\ MaxTokens \in Nat \ {0}
    BY SessionsAssumption DEF Inv, Good, CallsOK
  <1>1. UNCHANGED <<kind, pages, shared, waits, rotation>>
    BY DEF SigningIn, FindUser, StartSession, Create, deviceVars, sessionVars
  <1>2. Live' = {}
    BY <1>0, <1>1 DEF Live
  <1>3. Answers' = {}
    BY <1>0, <1>1 DEF Answers
  <1>4. CallsOK'
    BY <1>0, <1>1, <1>2, <1>3 DEF CallsOK
  <1>5. NoReuse' /\ device' \in [token : Tokens \cup {NoToken}, access : BOOLEAN]
    <2>1. CASE \E g \in Guesses : FindUser(g)
      BY <1>0, <2>1 DEF FindUser, sessionVars, deviceVars, NoReuse, DeviceOK
    <2>2. ASSUME NEW g \in Guesses, NEW s \in Sids, StartSession(g, s)
          PROVE  NoReuse' /\ device' \in [token : Tokens \cup {NoToken}, access : BOOLEAN]
      <3>1. [sid |-> s, token |-> 1] \in Tokens
        BY <1>0 DEF Tokens
      <3>2. device' = device \/ device' = [token |-> [sid |-> s, token |-> 1], access |-> TRUE]
        BY <2>2 DEF StartSession, Holds
      <3>3. NoReuse'
        <4>1. PICK row : row = [NoSession EXCEPT !.made = TRUE, !.tokens = <<FALSE>>]
          OBVIOUS
        <4>2. row.revoked = "NO"
          BY <4>1 DEF NoSession
        <4>3. session' = [session EXCEPT ![s] = row]
          BY <2>2, <4>1 DEF StartSession, Create
        <4>4. \A r \in Sids : session'[r] = IF r = s THEN row ELSE session[r]
          BY <1>0, <4>3 DEF SessionsOK
        <4> QED BY <1>0, <4>2, <4>4 DEF NoReuse
      <3>4. [token |-> [sid |-> s, token |-> 1], access |-> TRUE]
              \in [token : Tokens \cup {NoToken}, access : BOOLEAN]
        BY <3>1
      <3>5. device' \in [token : Tokens \cup {NoToken}, access : BOOLEAN]
        BY <1>0, <3>2, <3>4 DEF DeviceOK
      <3> QED BY <3>3, <3>5
    <2> QED BY <2>1, <2>2 DEF SigningIn
  <1>6. DeviceOK'
    BY <1>0, <1>1, <1>5 DEF DeviceOK
  <1> QED BY <1>1, <1>2, <1>4, <1>5, <1>6 DEF Good, NoBrowser

LEMMA GoodNext ==
  ASSUME Inv, CodesInv, DeviceInv, [Next]_vars, ~faulty'
  PROVE  Good'
  <1>0. Good /\ SessionsOK /\ (kind \in {"APP", "WEB"} => Settled)
    BY SameKind DEF DeviceInv, Inv
  <1>1. CASE UNCHANGED <<sessionVars, deviceVars>>
    <2>1. Quiet /\ NoReuse'
      BY <1>0, <1>1, QuietSteps DEF Good
    <2> QED BY <1>0, <1>1, <2>1, QuietKeeps
  <1>2. CASE SigningIn
    <2>1. kind \notin {"APP", "WEB"}
      BY <1>0, <1>2, SettledKeeps DEF CodesInv
    <2> QED BY <1>0, <1>2, <2>1, FirstSignIn
  <1>3. CASE Serverside
    <2>1. CASE \E c \in Rotations : Rotate(c)
      BY <1>0, <1>3, <2>1, RotateKeeps DEF Serverside
    <2>2. CASE ~\E c \in Rotations : Rotate(c)
      <3>1. \/ \E c \in Rotations : Rotating(c) /\ ~Rotate(c)
            \/ \E s \in Sids : Logout(s) \/ Expire(s)
            \/ AccountChange
        BY <1>3, <2>2 DEF Serverside, AccountChange
      <3>2. Quiet /\ NoReuse'
        BY <1>0, <3>1, QuietSteps DEF Good
      <3> QED BY <1>0, <1>3, <3>2, QuietKeeps DEF Serverside
    <2> QED BY <2>1, <2>2
  <1>4. CASE SignOut
    BY <1>0, <1>4, SignOutKeeps
  <1>5. CASE AccessEnds
    BY <1>0, <1>5, AccessEndsKeeps
  <1>6. CASE App
    BY <1>0, <1>6, AppKeeps DEF App
  <1>7. CASE Browser
    <2>1. kind = "WEB"
      BY <1>0, <1>7 DEF Good, NoBrowser, Browser, OpenPage, Share, ShowPage, WebRefresh, WebAnswered,
                        WebFails, Resolve, Forget
    <2>2. ASSUME NEW p \in Pages, OpenPage(p) \/ Share(p) \/ ShowPage(p)
          PROVE  Good'
      BY <1>0, <2>1, <2>2, OpenPageKeeps, ShareKeeps, ShowPageKeeps
    <2>3. ASSUME NEW p \in Pages, NEW c \in Rotations, WebRefresh(p, c)
          PROVE  Good'
      BY <1>0, <2>1, <2>3, WebRefreshKeeps
    <2>4. ASSUME NEW c \in Rotations, WebAnswered(c) \/ WebFails(c)
          PROVE  Good'
      BY <1>0, <2>4, ResolveKeeps
    <2>5. ASSUME NEW token \in Tokens, Forget(token)
          PROVE  Good'
      BY <1>0, <2>1, <2>5, ForgetKeeps
    <2> QED BY <1>7, <2>2, <2>3, <2>4, <2>5 DEF Browser
  <1>8. CASE \E c \in Rotations : Unheard(c)
    BY <1>0, <1>8, UnheardKeeps
  <1> QED BY <1>1, <1>2, <1>3, <1>4, <1>5, <1>6, <1>7, <1>8 DEF Next, Codewise, vars, sessionVars, deviceVars

LEMMA DeviceInit == Init => DeviceInv
  <1> SUFFICES ASSUME Init
               PROVE  DeviceInv
    OBVIOUS
  <1>1. /\ pages = [p \in Pages |-> NoPage] /\ shared = [t \in Tokens |-> NoToken]
        /\ waits = {} /\ SessionsOK
    BY StartsInv DEF Init, Inv
  <1>2. /\ session \in [Sids -> Rows] /\ \A s \in Sids : session[s].revoked = "NO"
        /\ \A c \in Rotations : rotation[c] = NoCall
    <2>1. CASE FirstVisit
      BY <1>1, <2>1 DEF FirstVisit, SessionsInit, NoSession, SessionsOK
    <2>2. ASSUME NEW k \in Codes, NEW s \in Sids, SignedIn(k, s)
          PROVE  /\ \A r \in Sids : session[r].revoked = "NO"
                 /\ \A c \in Rotations : rotation[c] = NoCall
      <3>1. PICK row : row = [NoSession EXCEPT !.made = TRUE, !.tokens = <<FALSE>>]
        OBVIOUS
      <3>2. row.revoked = "NO" /\ NoSession.revoked = "NO"
        BY <3>1 DEF NoSession
      <3>3. \A r \in Sids : session[r] = IF r = s THEN row ELSE NoSession
        BY <2>2, <3>1 DEF SignedIn
      <3> QED BY <2>2, <3>2, <3>3 DEF SignedIn
    <2> QED BY <1>1, <2>1, <2>2 DEF Init, SessionsOK
  <1>3. Live = {} /\ Answers = {} /\ NoReuse /\ NoBrowser
    BY <1>1, <1>2 DEF Live, NoCall, Answers, NoReuse, NoBrowser, NoPage
  <1>4. CallsOK
    BY <1>1, <1>3 DEF CallsOK
  <1>5. \A step \in {"SENT", "ANSWERED"} : PagesWith(step) = {}
    BY <1>1 DEF PagesWith, NoPage
  <1>6. /\ shared \in [Tokens -> Tokens \cup {NoToken, Pending, Failed}]
        /\ pages \in [Pages -> [step : {"IDLE", "SENT", "WAITING", "ANSWERED"},
                                token : Tokens \cup {NoToken, Failed}]]
        /\ \A p \in Pages : pages[p].step = "IDLE"
    BY <1>1 DEF NoPage
  <1>7. CASE FirstVisit
    <2>1. kind = "NEW" /\ device = [token |-> NoToken, access |-> FALSE]
      BY <1>7 DEF FirstVisit, SignedOut
    <2> QED BY <1>3, <1>4, <1>6, <2>1 DEF DeviceInv, Good, DeviceOK
  <1>8. ASSUME NEW k \in Codes, NEW s \in Sids, SignedIn(k, s)
        PROVE  DeviceInv
    <2>1. Settled
      BY <1>8 DEF SignedIn, Settled, NoGuess
    <2>2. PICK x : x = [sid |-> s, token |-> 1]
      OBVIOUS
    <2>3. x \in Tokens /\ x.sid = s /\ x.token = 1
      BY <2>2, SessionsAssumption DEF Tokens
    <2>4. device = [token |-> x, access |-> TRUE]
      BY <1>8, <2>2 DEF SignedIn, Holds
    <2>5. session[s].tokens = <<FALSE>>
      BY <1>8 DEF SignedIn, NoSession
    <2>6. Lasts[s] = 1
      BY <2>5 DEF Lasts
    <2>7. x \in Fresh
      BY <1>1, <1>3, <2>3, <2>6 DEF Fresh
    <2>8. Stored = {x} /\ Coming \subseteq {x} /\ Asked = {} /\ Shared = {}
      BY <1>1, <1>3, <1>5, <2>3, <2>4, TokenIs DEF Stored, Coming, Asked, Shared, Leaving
    <2>9. AppOK /\ WebOK
      BY <1>1, <1>3, <2>7, <2>8 DEF AppOK, WebOK
    <2>10. DeviceOK
      BY <1>6, <2>3, <2>4 DEF DeviceOK
    <2> QED BY <1>3, <1>4, <2>1, <2>9, <2>10 DEF DeviceInv, Good
  <1> QED BY <1>7, <1>8 DEF Init

(* A session is revoked as copied only after an answer was lost or a page  *)
(* took longer than the proxy remembers: left to themselves, the app's     *)
(* single flight and the proxy's shared results never bring a token back   *)
(* twice (rotate, token_manager.dart, proxy.ts).                           *)
THEOREM NoReuseUnlessFault == Spec => []ReuseOnlyAfterFault
  <1>1. Inv /\ CodesInv /\ DeviceInv /\ [Next]_vars => DeviceInv'
    BY GoodNext, SettledKeeps, SameKind DEF DeviceInv, CodesInv
  <1>2. Inv /\ CodesInv /\ [Next]_vars => CodesInv'
    BY CodesNext
  <1>3. Inv /\ [Next]_vars => Inv'
    BY StepsOfSessions, NextInv
  <1>4. DeviceInv => ReuseOnlyAfterFault
    BY DEF DeviceInv, Good, NoReuse, ReuseOnlyAfterFault
  <1> QED BY StartsInv, CodesInit, DeviceInit, <1>1, <1>2, <1>3, <1>4, PTL DEF Spec

=============================================================================
