--------------------------- MODULE OperatorSessions ---------------------------
(***************************************************************************)
(* The login of an operator: the attempt that /auth/login leaves for the   *)
(* callback of the provider, its single use, the enrollment of the         *)
(* operator that the provider names, the session, and the logout.  A       *)
(* session is named by the callback that created it.  The provider and the *)
(* deactivation of a human operator are outside.                           *)
(***************************************************************************)
EXTENDS Naturals

CONSTANTS
    Attempts,
    Callbacks,      \* calls of /auth/callback, and the sessions they end in
    Humans,         \* identities that the provider vouches for
    Approved,       \* those with a verified e-mail in oidc_allowed_emails
    Nobody

ASSUME SessionsAssumption ==
    /\ Approved \subseteq Humans
    /\ Nobody \notin Callbacks \cup Humans \cup Attempts

VARIABLES
    attempts,       \* oidc_login_attempts
    attemptLock,    \* whose transaction holds an attempt
    callback,       \* where each callback is
    state,          \* the attempt that it presents
    fresh,          \* the attempt had not expired when the callback took its time
    human,          \* the identity that the provider returned to it
    operators,      \* the operators' rows
    operatorLock,   \* whose transaction holds an operator
    sessionRows,      \* operator_sessions
    logout          \* logouts that have found their session

callbackVars == <<callback, state, fresh, human>>
loginVars == <<attempts, attemptLock, callbackVars, operators, operatorLock, sessionRows, logout>>

SessionsTypeOK ==
    /\ attempts \in [Attempts -> {"none", "open", "expired", "gone"}]
    /\ attemptLock \in [Attempts -> Callbacks \cup {Nobody}]
    /\ callback \in [Callbacks -> {"idle", "waiting", "consuming", "exchanging", "named",
                                   "enrolled", "done"}]
    /\ state \in [Callbacks -> Attempts \cup {Nobody}]
    /\ fresh \in [Callbacks -> BOOLEAN]
    /\ human \in [Callbacks -> Humans \cup {Nobody}]
    /\ operators \in [Humans -> {"none", "active", "inactive"}]
    /\ operatorLock \in [Humans -> Callbacks \cup {Nobody}]
    /\ sessionRows \in [Callbacks -> {"none", "open", "expired", "revoked", "deleted"}]
    /\ logout \subseteq Callbacks

SessionsInit ==
    /\ attempts = [a \in Attempts |-> "none"]
    /\ attemptLock = [a \in Attempts |-> Nobody]
    /\ callback = [c \in Callbacks |-> "idle"]
    /\ state = [c \in Callbacks |-> Nobody]
    /\ fresh = [c \in Callbacks |-> FALSE]
    /\ human = [c \in Callbacks |-> Nobody]
    /\ operators = [h \in Humans |-> "none"]
    /\ operatorLock = [h \in Humans |-> Nobody]
    /\ sessionRows = [c \in Callbacks |-> "none"]
    /\ logout = {}

CallbackGoes(c, from, to) ==
    /\ callback[c] = from
    /\ callback' = [callback EXCEPT ![c] = to]

\* A callback ends, and its transaction with it.
EndTransaction(c) ==
    /\ attemptLock' = [a \in Attempts |-> IF attemptLock[a] = c THEN Nobody ELSE attemptLock[a]]
    /\ operatorLock' = [h \in Humans |-> IF operatorLock[h] = c THEN Nobody ELSE operatorLock[h]]

-----------------------------------------------------------------------------
(* Time, the administration of operators.                                  *)

ExpireAttempt(a) ==
    /\ attempts[a] = "open"
    /\ attempts' = [attempts EXCEPT ![a] = "expired"]
    /\ UNCHANGED <<attemptLock, callbackVars, operators, operatorLock, sessionRows, logout>>

ExpireSession(c) ==
    /\ sessionRows[c] = "open"
    /\ sessionRows' = [sessionRows EXCEPT ![c] = "expired"]
    /\ UNCHANGED <<attempts, attemptLock, callbackVars, operators, operatorLock, logout>>

SetOperatorActive(h, b) ==
    /\ operators[h] = (IF b THEN "inactive" ELSE "active")
    /\ operatorLock[h] = Nobody
    /\ operators' = [operators EXCEPT ![h] = IF b THEN "active" ELSE "inactive"]
    /\ UNCHANGED <<attempts, attemptLock, callbackVars, operatorLock, sessionRows, logout>>

-----------------------------------------------------------------------------
(* Login.                                                                  *)

\* The deletion of the attempts that have expired waits for those who hold them.
CreateLoginAttempt(a) ==
    /\ attempts[a] = "none"
    /\ \A b \in Attempts : attempts[b] = "expired" => attemptLock[b] = Nobody
    /\ attempts' = [b \in Attempts |->
                        IF b = a THEN "open"
                        ELSE IF attempts[b] = "expired" THEN "gone" ELSE attempts[b]]
    /\ UNCHANGED <<attemptLock, callbackVars, operators, operatorLock, sessionRows, logout>>

\* The callback takes the time before it waits for the row.
PresentState(c, a) ==
    /\ CallbackGoes(c, "idle", "waiting")
    /\ attempts[a] # "none"
    /\ state' = [state EXCEPT ![c] = a]
    /\ fresh' = [fresh EXCEPT ![c] = attempts[a] = "open"]
    /\ UNCHANGED <<attempts, attemptLock, human, operators, operatorLock, sessionRows, logout>>

\* Mutant: the attempt is read without its lock.
ReadAttempt(c) ==
    /\ CallbackGoes(c, "waiting", "consuming")
    /\ attempts[state[c]] # "gone" /\ fresh[c]
    /\ UNCHANGED <<attempts, attemptLock, state, fresh, human, operators, operatorLock, sessionRows,
                   logout>>

LockAttempt(c) ==
    /\ CallbackGoes(c, "waiting", "consuming")
    /\ attemptLock[state[c]] = Nobody
    /\ attempts[state[c]] # "gone" /\ fresh[c]
    /\ attemptLock' = [attemptLock EXCEPT ![state[c]] = c]
    /\ UNCHANGED <<attempts, state, fresh, human, operators, operatorLock, sessionRows, logout>>

\* Missing, consumed, unknown or expired.
RefuseAttempt(c) ==
    /\ CallbackGoes(c, "waiting", "done")
    /\ attemptLock[state[c]] = Nobody
    /\ attempts[state[c]] = "gone" \/ ~fresh[c]
    /\ UNCHANGED <<attempts, attemptLock, state, fresh, human, operators, operatorLock, sessionRows,
                   logout>>

\* The attempt is used up before the provider is asked, whatever it answers.
ConsumeLoginAttempt(c) ==
    /\ CallbackGoes(c, "consuming", "exchanging")
    /\ attempts' = [attempts EXCEPT ![state[c]] = "gone"]
    /\ EndTransaction(c)
    /\ UNCHANGED <<state, fresh, human, operators, sessionRows, logout>>

ExchangeCode(c) ==
    /\ \E h \in Humans :
        /\ CallbackGoes(c, "exchanging", "named")
        /\ human' = [human EXCEPT ![c] = h]
    /\ UNCHANGED <<attempts, attemptLock, state, fresh, operators, operatorLock, sessionRows,
                   logout>>

\* The provider fails, or the process does, or the identity is refused.
CallbackFails(c) ==
    /\ callback[c] \in {"consuming", "exchanging", "named", "enrolled"}
    /\ callback' = [callback EXCEPT ![c] = "done"]
    /\ EndTransaction(c)
    /\ UNCHANGED <<attempts, state, fresh, human, operators, sessionRows, logout>>

\* Mutant: the operator is looked up, and not written.
LookUpOperator(c) ==
    LET h == human[c] IN
        /\ CallbackGoes(c, "named", "enrolled")
        /\ h \in Approved /\ operators[h] # "inactive"
        /\ UNCHANGED <<attempts, attemptLock, state, fresh, human, operators, operatorLock,
                       sessionRows, logout>>

\* The upsert writes the row of an active operator, or makes one, and so holds it; the
\* row and the session are committed together.
EnrollOperator(c) ==
    LET h == human[c] IN
        /\ CallbackGoes(c, "named", "enrolled")
        /\ h \in Approved /\ operators[h] # "inactive"
        /\ operatorLock[h] = Nobody
        /\ operatorLock' = [operatorLock EXCEPT ![h] = c]
        /\ UNCHANGED <<attempts, attemptLock, state, fresh, human, operators, sessionRows, logout>>

\* Sessions that have ended, anybody's, are deleted on the way.
CreateOperatorSession(c) ==
    /\ CallbackGoes(c, "enrolled", "done")
    /\ sessionRows' = [d \in Callbacks |->
                        IF d = c THEN "open"
                        ELSE IF sessionRows[d] \in {"expired", "revoked"} THEN "deleted"
                        ELSE sessionRows[d]]
    /\ operators' = [operators EXCEPT ![human[c]] = IF @ = "none" THEN "active" ELSE @]
    /\ EndTransaction(c)
    /\ UNCHANGED <<attempts, state, fresh, human, logout>>

-----------------------------------------------------------------------------
(* Logout: the session is found first, and nothing holds it.               *)

Resolves(c) == sessionRows[c] = "open" /\ operators[human[c]] = "active"

BeginLogout(c) ==
    /\ Resolves(c)
    /\ logout' = logout \cup {c}
    /\ UNCHANGED <<attempts, attemptLock, callbackVars, operators, operatorLock, sessionRows>>

\* The row may have expired and been deleted in between, and then the request fails.
RevokeOperatorSession(c) ==
    /\ c \in logout
    /\ logout' = logout \ {c}
    /\ sessionRows' = [sessionRows EXCEPT ![c] = IF @ = "deleted" THEN @ ELSE "revoked"]
    /\ UNCHANGED <<attempts, attemptLock, callbackVars, operators, operatorLock>>

-----------------------------------------------------------------------------
SessionsNext ==
    \/ \E a \in Attempts : ExpireAttempt(a) \/ CreateLoginAttempt(a)
    \/ \E h \in Humans, b \in BOOLEAN : SetOperatorActive(h, b)
    \/ \E c \in Callbacks :
        \/ ExpireSession(c)
        \/ \E a \in Attempts : PresentState(c, a)
        \/ LockAttempt(c) \/ RefuseAttempt(c) \/ ConsumeLoginAttempt(c)
        \/ ExchangeCode(c) \/ CallbackFails(c)
        \/ EnrollOperator(c) \/ CreateOperatorSession(c)
        \/ BeginLogout(c) \/ RevokeOperatorSession(c)

SessionsSpec == SessionsInit /\ [][SessionsNext]_loginVars

-----------------------------------------------------------------------------
(* Properties.                                                             *)

\* An attempt ends in one session at most, whoever presents its state, how often, and
\* however the callbacks overlap (consume_login_attempt: FOR UPDATE, then deleted).
OneSessionPerAttempt ==
    \A c, d \in Callbacks :
        c # d /\ sessionRows[c] # "none" /\ sessionRows[d] # "none" => state[c] # state[d]

\* Nobody is signed in who has been deactivated, also when that happens while the login is
\* under way (enroll_operator writes the row that it reads).
SessionsOfTheActive ==
    [][\A c \in Callbacks :
        sessionRows[c] = "none" /\ sessionRows'[c] = "open"
            => operators'[human[c]] = "active"]_loginVars
=============================================================================
