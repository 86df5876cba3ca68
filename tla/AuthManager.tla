---------------------------- MODULE AuthManager ----------------------------
(***************************************************************************)
(* The administrator's account (internal/auth): the password, the sessions *)
(* it opens, and the counters that lock out a client after too many wrong  *)
(* passwords.  Every method runs under the manager's own lock and is one   *)
(* action.  A password is a number, 0 before the account is set up.        *)
(***************************************************************************)
EXTENDS Naturals, FiniteSets, Functions

CONSTANTS Clients,      \* client addresses
          MaxFailed,    \* MaxFailedAttempts
          MaxTracked,   \* maxTrackedClients
          MaxPasswords, \* bound: passwords that are set
          MaxSessions   \* bound: sessions that are open

VARIABLES
  password,   \* passwordHash and salt
  sessions,   \* open sessions: the number, the password it was opened with
  attempts,   \* ipAttempts and the keys of ipAttemptAt
  aged,       \* keys of ipAttemptAt older than attemptEntryTTL
  locks,      \* ipLockedUntil: client -> "on", or "over" once its time has passed
  guesses     \* history: passwords checked and found wrong since the last reset

authVars == <<password, sessions, attempts, aged, locks, guesses>>

AuthInit ==
  /\ password \in {0, 1}
  /\ sessions = {} /\ attempts = << >> /\ aged = {} /\ locks = << >>
  /\ guesses = [c \in Clients |-> 0]

Without(f, S) == Restrict(f, DOMAIN f \ S)
With(f, c, v) == [x \in DOMAIN f \cup {c} |-> IF x = c THEN v ELSE f[x]]

SetupInitialCredentials ==
  /\ password = 0
  /\ password' = 1
  /\ UNCHANGED <<sessions, attempts, aged, locks, guesses>>

MutUpdateCredentials ==
  /\ password < MaxPasswords
  /\ password' = password + 1
  /\ UNCHANGED <<sessions, attempts, aged, locks, guesses>>

\* A new password ends every session.
UpdateCredentials ==
  /\ password < MaxPasswords
  /\ password' = password + 1
  /\ sessions' = {}
  /\ UNCHANGED <<attempts, aged, locks, guesses>>

\* pruneLocked: locks that are over and old counters go; if there are still
\* too many counters, any of the clients that are not locked lose theirs.
Over == {c \in DOMAIN locks : locks[c] = "over"}
Fresh == Without(attempts, Over \cup aged)

MutPruned == {Fresh}

Pruned ==
  LET excess == Cardinality(DOMAIN Fresh) - MaxTracked
      loose == DOMAIN Fresh \ (DOMAIN locks \ Over)
      n == IF excess > Cardinality(loose) THEN Cardinality(loose) ELSE excess
  IN  IF Cardinality(DOMAIN Fresh) <= MaxTracked THEN {Fresh}
      ELSE {Without(Fresh, S) : S \in {S \in SUBSET loose : Cardinality(S) = n}}

\* The counters of the clients that pruning forgot start again.
Reset(f, S) == [c \in Clients |-> IF c \in S \/ c \notin DOMAIN f THEN 0 ELSE guesses[c]]

MutRecordFailure(c, kept) ==
  LET n == (IF c \in DOMAIN kept THEN kept[c] ELSE 0) + 1
      locked == n > MaxFailed
  IN  /\ attempts' = With(kept, c, IF locked THEN 0 ELSE n)
      /\ locks' = IF locked THEN With(Without(locks, Over), c, "on") ELSE Without(locks, Over)
      /\ guesses' = [Reset(kept, {}) EXCEPT ![c] = @ + 1]
      /\ aged' = (aged \cap DOMAIN kept) \ {c}

RecordFailure(c, kept) ==
  LET n == (IF c \in DOMAIN kept THEN kept[c] ELSE 0) + 1
      locked == n >= MaxFailed
  IN  /\ attempts' = With(kept, c, IF locked THEN 0 ELSE n)
      /\ locks' = IF locked THEN With(Without(locks, Over), c, "on") ELSE Without(locks, Over)
      /\ guesses' = [Reset(kept, {}) EXCEPT ![c] = @ + 1]
      /\ aged' = (aged \cap DOMAIN kept) \ {c}

\* A right password clears the client's counters.
Passed(c, kept) ==
  /\ attempts' = Without(kept, {c})
  /\ locks' = Without(locks, Over \cup {c})
  /\ guesses' = Reset(kept, {c})
  /\ aged' = (aged \cap DOMAIN kept) \ {c}

OnlyPruned(kept) ==
  /\ attempts' = kept /\ locks' = Without(locks, Over)
  /\ guesses' = Reset(kept, {}) /\ aged' = aged \cap DOMAIN kept

\* The steps Login and VerifyPasswordWithIP share: prune, refuse a locked
\* client, refuse an account that is not set up, check the password.
Refused(c, kept) == (c \in DOMAIN locks \ Over \/ password = 0) /\ OnlyPruned(kept)
Checked(c) == c \notin DOMAIN locks \ Over /\ password # 0

Login(c) ==
  \E kept \in Pruned :
    \/ Refused(c, kept) /\ UNCHANGED <<password, sessions>>
    \/ Checked(c) /\ RecordFailure(c, kept) /\ UNCHANGED <<password, sessions>>
    \/ /\ Checked(c) /\ Passed(c, kept) /\ UNCHANGED password
       /\ \E n \in 1..MaxSessions :
            /\ \A s \in sessions : s.n # n
            /\ sessions' = sessions \cup {[n |-> n, with |-> password]}

VerifyPasswordWithIP(c) ==
  /\ \E kept \in Pruned :
       \/ Refused(c, kept)
       \/ Checked(c) /\ (RecordFailure(c, kept) \/ Passed(c, kept))
  /\ UNCHANGED <<password, sessions>>

\* RevokeSession, and ValidateSession of a session that has expired.
RevokeSession(s) ==
  /\ sessions' = sessions \ {s}
  /\ UNCHANGED <<password, attempts, aged, locks, guesses>>

\* Time: a lock runs out, or a counter grows old; a lock and its counter were
\* written together and end together.
TimePasses(c) ==
  /\ \/ c \in DOMAIN locks /\ locks[c] = "on" /\ locks' = [locks EXCEPT ![c] = "over"]
        /\ UNCHANGED aged
     \/ c \in DOMAIN attempts \ (aged \cup DOMAIN locks) /\ aged' = aged \cup {c}
        /\ UNCHANGED locks
  /\ UNCHANGED <<password, sessions, attempts, guesses>>

AuthNext ==
  \/ SetupInitialCredentials \/ UpdateCredentials
  \/ \E c \in Clients : Login(c) \/ VerifyPasswordWithIP(c) \/ TimePasses(c)
  \/ \E s \in sessions : RevokeSession(s)

(* --- properties ---                                                      *)

AuthTypeOK ==
  /\ password \in 0..MaxPasswords
  /\ DOMAIN attempts \subseteq Clients /\ DOMAIN locks \subseteq Clients
  /\ aged \subseteq DOMAIN attempts

\* No session outlives the password it was opened with (auth.go:176-178).
SessionsAreCurrent == \A s \in sessions : s.with = password

\* Between two resets a client has at most MaxFailed wrong passwords looked
\* at, whether it guesses through Login or through VerifyPasswordWithIP; a
\* reset is a right password, a lock that ran out, a counter that grew old or
\* was evicted (auth.go:219-277, 340-369).
AtMostMaxGuesses == \A c \in Clients : guesses[c] <= MaxFailed

\* The counters of clients that are not locked stay bounded whatever the
\* number of addresses that fail (auth.go:181-214).
TrackedBounded == Cardinality(DOMAIN attempts \ DOMAIN locks) <= MaxTracked + 1
=============================================================================
