-------------------------------- MODULE Otp --------------------------------
(***************************************************************************)
(* One-time codes for one phone number (otp.service.ts).  A challenge is a *)
(* row of the database; the cooldown, the counters and the lock are keys   *)
(* of Redis.  A request for a code and a guess are several calls each, and *)
(* the steps of all those in progress interleave.                          *)
(***************************************************************************)
EXTENDS Naturals, FiniteSets

CONSTANTS
  Codes,         \* challenge ids (the bound on the codes ever sent)
  Issues,        \* bound: requests for a code at once
  Guesses,       \* bound: verifications at once
  MaxAttempts,   \* guesses at one code
  MaxFailures,   \* wrong guesses in an hour before the number is locked
  MaxRequests    \* codes in an hour

ASSUME OtpAssumption ==
  /\ IsFiniteSet(Codes) /\ IsFiniteSet(Guesses)
  /\ {MaxAttempts, MaxFailures, MaxRequests} \subseteq Nat \ {0}

VARIABLES
  challenge,     \* id -> row; compared counts the guesses that reached the comparison
  issue,         \* request for a code -> its step
  guess,         \* verification -> [step, code, right]
  redis          \* [cooldown, locked, requests, failures]

otpVars == <<challenge, issue, guess, redis>>

NoCode == [made |-> FALSE, open |-> FALSE, attempts |-> 0, consumed |-> FALSE, compared |-> 0]

NotIssuing == [step |-> "IDLE", code |-> "none"]

NoGuess == [step |-> "IDLE", code |-> "none", right |-> FALSE]

Empty == [cooldown |-> FALSE, locked |-> FALSE, requests |-> 0, failures |-> 0]

Usable(k) == challenge[k].open /\ ~challenge[k].consumed

----------------------------------------------------------------------------
(* issue.                                                                  *)

NotLocked == ~redis.locked

Cool == ~redis.cooldown

(* The lock, SET NX of the cooldown and the hourly counter: a refused      *)
(* request leaves the cooldown (and the count) it has just set.  Bound: the*)
(* count stops one above its limit.                                        *)
Ask(i) ==
  /\ issue[i].step = "IDLE"
  /\ NotLocked
  /\ Cool
  /\ redis.requests <= MaxRequests
  /\ redis' = [redis EXCEPT !.cooldown = TRUE, !.requests = @ + 1]
  /\ issue' = IF redis.requests < MaxRequests
              THEN [issue EXCEPT ![i].step = "COUNTED"] ELSE issue
  /\ UNCHANGED <<challenge, guess>>

(* The earlier open codes expire; in a call of its own the new one is made. *)
Replace(i) ==
  /\ issue[i].step = "COUNTED"
  /\ challenge' = [k \in Codes |->
       IF Usable(k) THEN [challenge[k] EXCEPT !.open = FALSE] ELSE challenge[k]]
  /\ issue' = [issue EXCEPT ![i].step = "REPLACED"]
  /\ UNCHANGED <<guess, redis>>

MakeCode(i, k) ==
  /\ issue[i].step = "REPLACED"
  /\ ~challenge[k].made
  /\ challenge' = [challenge EXCEPT ![k] = [NoCode EXCEPT !.made = TRUE, !.open = TRUE]]
  /\ issue' = [issue EXCEPT ![i] = [step |-> "SENDING", code |-> k]]
  /\ UNCHANGED <<guess, redis>>

Delivered(i) ==
  /\ issue[i].step = "SENDING"
  /\ issue' = [issue EXCEPT ![i] = NotIssuing]
  /\ UNCHANGED <<challenge, guess, redis>>

(* The code is cancelled, and then the cooldown is taken back. *)
NotDelivered(i) ==
  /\ issue[i].step = "SENDING"
  /\ challenge' = [challenge EXCEPT ![issue[i].code].open = FALSE]
  /\ issue' = [issue EXCEPT ![i].step = "CANCELLED"]
  /\ UNCHANGED <<guess, redis>>

TakeBack(i) ==
  /\ issue[i].step = "CANCELLED"
  /\ redis' = [redis EXCEPT !.cooldown = FALSE]
  /\ issue' = [issue EXCEPT ![i] = NotIssuing]
  /\ UNCHANGED <<challenge, guess>>

----------------------------------------------------------------------------
(* verify.                                                                 *)

Read(g, k, right) ==
  /\ guess[g].step = "IDLE"
  /\ NotLocked
  /\ challenge[k].made /\ Usable(k)
  /\ guess' = [guess EXCEPT ![g] = [step |-> "READ", code |-> k, right |-> right]]
  /\ UNCHANGED <<challenge, issue, redis>>

(* "Count the attempt before comparing, atomically". *)
CountsUsable(g) ==            \* mutant: no `attempts: { lt: maxAttempts }`
  Usable(guess[g].code)

Counts(g) == Usable(guess[g].code) /\ challenge[guess[g].code].attempts < MaxAttempts

Count(g) ==
  /\ guess[g].step = "READ"
  /\ IF Counts(g)
     THEN /\ challenge' = [challenge EXCEPT ![guess[g].code].attempts = @ + 1]
          /\ guess' = [guess EXCEPT ![g].step = "COUNTED"]
     ELSE /\ guess' = [guess EXCEPT ![g] = NoGuess]
          /\ UNCHANGED challenge
  /\ UNCHANGED <<issue, redis>>

(* The comparison, and for a wrong code recordFailure. *)
Compared(k) == challenge' = [challenge EXCEPT ![k].compared = @ + 1]

Wrong(g) ==
  LET locks == redis.failures + 1 >= MaxFailures
  IN  /\ guess[g].step = "COUNTED" /\ ~guess[g].right
      /\ Compared(guess[g].code)
      /\ redis' = IF locks THEN [redis EXCEPT !.failures = 0, !.locked = TRUE]
                           ELSE [redis EXCEPT !.failures = @ + 1]
      /\ guess' = [guess EXCEPT ![g] = NoGuess]
      /\ UNCHANGED issue

Right(g) ==
  /\ guess[g].step = "COUNTED" /\ guess[g].right
  /\ Compared(guess[g].code)
  /\ guess' = [guess EXCEPT ![g].step = "MATCHED"]
  /\ UNCHANGED <<issue, redis>>

ConsumableTwice(k) == TRUE    \* mutant: consumes without `consumedAt: null`

Consumable(k) == ~challenge[k].consumed

Consume(g) ==
  LET k == guess[g].code
  IN  /\ guess[g].step = "MATCHED"
      /\ challenge' = [challenge EXCEPT ![k].consumed = TRUE]
      /\ guess' = IF Consumable(k) THEN [guess EXCEPT ![g].step = "VERIFIED"]
                  ELSE [guess EXCEPT ![g] = NoGuess]
      /\ UNCHANGED <<issue, redis>>

----------------------------------------------------------------------------
(* Time: keys of Redis and codes reach their end.                          *)

KeyEnds(key) ==
  /\ redis[key] # Empty[key]
  /\ redis' = [redis EXCEPT ![key] = Empty[key]]
  /\ UNCHANGED <<challenge, issue, guess>>

CodeExpires(k) ==
  /\ challenge[k].open
  /\ challenge' = [challenge EXCEPT ![k].open = FALSE]
  /\ UNCHANGED <<issue, guess, redis>>

----------------------------------------------------------------------------
OtpInit ==
  /\ challenge = [k \in Codes |-> NoCode]
  /\ issue = [i \in Issues |-> NotIssuing]
  /\ guess = [g \in Guesses |-> NoGuess]
  /\ redis = Empty

Issuing(i) ==
  \/ Ask(i)
  \/ Replace(i)
  \/ \E k \in Codes : MakeCode(i, k)
  \/ Delivered(i)
  \/ NotDelivered(i)
  \/ TakeBack(i)

Guessing(g) ==
  \/ \E k \in Codes, right \in BOOLEAN : Read(g, k, right)
  \/ Count(g)
  \/ Wrong(g)
  \/ Right(g)
  \/ Consume(g)

OtpTime == (\E key \in DOMAIN Empty : KeyEnds(key)) \/ \E k \in Codes : CodeExpires(k)

----------------------------------------------------------------------------
(* However many guesses arrive at once, a code is compared with at most    *)
(* maxAttempts of them ("so parallel guesses can never exceed              *)
(* maxAttempts").                                                          *)
GuessesBounded == \A k \in Codes : challenge[k].compared <= MaxAttempts

=============================================================================
