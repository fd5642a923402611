------------------------- MODULE LoginVerification -------------------------
(***************************************************************************)
(* A login with a second factor: the one-time flow a primary login starts, *)
(* the codes that are tried against it, the counter that locks the factor  *)
(* and the session the flow is exchanged for, beside changes of the factor *)
(* (service/login_verification.go, security_verification.go,               *)
(* model/auth_flow.go, twofa.go, login_verification.go).                   *)
(*                                                                         *)
(* A statement or a transaction is one step.                               *)
(***************************************************************************)
EXTENDS Integers, FiniteSets

CONSTANTS
    Procs,         \* requests
    Flows,         \* login flows
    FlowOf,        \* the flow a request presents
    Settings,      \* what the requests do and the limits, see Does and below
    Lockout,       \* LockoutDuration
    SessionLimit,  \* UserSessionActiveLimit
    Retries,       \* maxUpdateRetries
    Horizon        \* the last instant of the model

Guesses == {"totp", "backup", "wrong"}

VARIABLES
    setting,   \* the one of Settings this behaviour has
    now,       \* the time
    version,   \* the authentication version of the user
    factor,    \* the second factor: its row, the failures and the lock
    codes,     \* the unused backup codes, named by their generation
    flows,     \* the flows, version 0 before they are created
    sessions,  \* the sessions, with the flow they came from
    at,        \* where each request is
    seen,      \* what it has read
    tries,     \* its attempts to count a failure
    passed,    \* requests whose code was accepted
    counted    \* failures that were counted since the last reset

vars == <<setting, now, version, factor, codes, flows, sessions, at, seen, tries,
          passed, counted>>

Does == setting.kind          \* "totp", "backup", "wrong", "replace", "disable"
                              \* or "enable"
MaxAttempts == setting.max    \* MaxFailAttempts
FlowTTL == setting.ttl        \* LoginVerificationTTL

Nothing == [id |-> 0, failed |-> 0, locked |-> 0, version |-> 0, when |-> 0]

Init ==
    /\ setting \in Settings
    /\ now = 0
    /\ version = 1
    /\ factor = [id |-> 1, on |-> TRUE, failed |-> 0, locked |-> 0]
    /\ codes = {1}
    /\ flows = [f \in Flows |-> [version |-> 0, until |-> 0, used |-> FALSE]]
    /\ sessions = {}
    /\ at = [x \in Procs |-> "start"]
    /\ seen = [x \in Procs |-> Nothing]
    /\ tries = [x \in Procs |-> 0]
    /\ passed = {}
    /\ counted = 0

Go(x, place) == at' = [at EXCEPT ![x] = place]

\* securityVerificationPolicy for a login of a user without a passkey.
Available == factor.on /\ factor.locked <= now

Live(f) == flows[f].version > 0 /\ ~flows[f].used /\ flows[f].until > now

-----------------------------------------------------------------------------
\* StartLoginVerification.
StartFlow(f) ==
    /\ flows[f].version = 0
    /\ Available
    /\ flows' = [flows EXCEPT ![f] = [version |-> version,
                                      until |-> now + FlowTTL, used |-> FALSE]]
    /\ UNCHANGED <<now, version, factor, codes, sessions, at, seen, tries,
                   passed, counted>>

\* RequireLoginVerification: the flow, then the state of the user.
ReadFlow(x) ==
    /\ Does[x] \in Guesses
    /\ at[x] = "start"
    /\ flows[FlowOf[x]].version > 0
    /\ seen' = [seen EXCEPT ![x].version = flows[FlowOf[x]].version]
    /\ Go(x, IF Live(FlowOf[x]) THEN "state" ELSE "refused")
    /\ UNCHANGED <<now, version, factor, codes, flows, sessions, tries, passed,
                   counted>>

ReadState(x) ==
    /\ at[x] = "state"
    /\ Go(x, IF version = seen[x].version /\ Available THEN "factor" ELSE "refused")
    /\ UNCHANGED <<now, version, factor, codes, flows, sessions, seen, tries,
                   passed, counted>>

\* GetTwoFAByUserId, and the first tests of VerifyTwoFactorCode.
ReadFactor(x) ==
    /\ at[x] = "factor"
    /\ seen' = [seen EXCEPT ![x].id = factor.id]
    /\ Go(x, IF ~Available THEN "refused"
             ELSE IF Does[x] = "totp" THEN "reset"
             ELSE IF Does[x] = "backup" THEN "codes" ELSE "count")
    /\ passed' = IF Available /\ Does[x] = "totp" THEN passed \cup {x} ELSE passed
    /\ UNCHANGED <<now, version, factor, codes, flows, sessions, tries, counted>>

\* ValidateBackupCode: the unused codes are read, then one is marked.  Every
\* request of this kind presents the first code.
ReadCodes(x) ==
    /\ at[x] = "codes"
    /\ Go(x, IF 1 \in codes THEN "claim" ELSE "count")
    /\ UNCHANGED <<now, version, factor, codes, flows, sessions, seen, tries,
                   passed, counted>>

\* The condition of the statement that marks the code.
Claimable == 1 \in codes

ClaimCode(x) ==
    /\ at[x] = "claim"
    /\ codes' = codes \ {1}
    /\ Go(x, IF Claimable THEN "reset" ELSE "count")
    /\ passed' = IF Claimable THEN passed \cup {x} ELSE passed
    /\ UNCHANGED <<now, version, factor, flows, sessions, seen, tries, counted>>

\* updateUsageState after a code was accepted.
ResetFailures(x) ==
    /\ at[x] = "reset"
    /\ IF factor.on /\ factor.id = seen[x].id
       THEN /\ factor' = [factor EXCEPT !.failed = 0, !.locked = 0]
            /\ counted' = 0
       ELSE UNCHANGED <<factor, counted>>
    /\ Go(x, "complete")
    /\ UNCHANGED <<now, version, codes, flows, sessions, seen, tries, passed>>

\* IncrementFailedAttempts.
ReadFailures(x) ==
    /\ at[x] = "count"
    /\ seen' = [seen EXCEPT ![x].failed = factor.failed,
                            ![x].locked = factor.locked, ![x].when = now]
    /\ Go(x, IF ~factor.on \/ factor.id # seen[x].id \/ factor.locked > now
             THEN "refused" ELSE "increment")
    /\ UNCHANGED <<now, version, factor, codes, flows, sessions, tries, passed,
                   counted>>

\* A bug this model can tell: the counter is written without comparing it.
UnmovedWhatever(x) == factor.on /\ factor.id = seen[x].id
Unmoved(x) ==
    /\ factor.on
    /\ factor.id = seen[x].id
    /\ factor.failed = seen[x].failed
    /\ factor.locked <= seen[x].when

Again(x) == tries[x] + 1 < Retries

CountFailure(x) ==
    /\ at[x] = "increment"
    /\ \/ /\ Unmoved(x)
          /\ factor' = [factor EXCEPT
                            !.failed = seen[x].failed + 1,
                            !.locked = IF seen[x].failed + 1 >= MaxAttempts
                                       THEN seen[x].when + Lockout
                                       ELSE seen[x].locked]
          /\ counted' = counted + 1
          /\ Go(x, "refused")
          /\ UNCHANGED tries
       \/ /\ ~Unmoved(x)
          /\ tries' = [tries EXCEPT ![x] = @ + 1]
          /\ Go(x, IF Again(x) THEN "count" ELSE "refused")
          /\ UNCHANGED <<factor, counted>>
    /\ UNCHANGED <<now, version, codes, flows, sessions, seen, passed>>

\* CreateUserSessionFromLoginFlow: consumption, tests and session together.
Allowed(x) ==
    /\ Live(FlowOf[x])
    /\ version = seen[x].version
    /\ Available
    /\ Cardinality(sessions) < SessionLimit

CompleteLogin(x) ==
    /\ at[x] = "complete"
    /\ \/ /\ Allowed(x)
          /\ flows' = [flows EXCEPT ![FlowOf[x]].used = TRUE]
          /\ sessions' = sessions \cup
                {[by |-> x, version |-> seen[x].version, user |-> version]}
          /\ Go(x, "loggedin")
       \/ /\ ~Allowed(x)
          /\ Go(x, "refused")
          /\ UNCHANGED <<flows, sessions>>
    /\ UNCHANGED <<now, version, factor, codes, seen, tries, passed, counted>>

-----------------------------------------------------------------------------
(* Changes of the factor, each in one transaction that locks the user.     *)

ReplaceCodes(x) ==
    /\ Does[x] = "replace"
    /\ at[x] = "start"
    /\ factor.on
    /\ codes' = {2}
    /\ version' = version + 1
    /\ Go(x, "changed")
    /\ UNCHANGED <<now, factor, flows, sessions, seen, tries, passed, counted>>

DisableTwoFA(x) ==
    /\ Does[x] = "disable"
    /\ at[x] = "start"
    /\ factor.on
    /\ factor' = [factor EXCEPT !.on = FALSE, !.failed = 0, !.locked = 0]
    /\ codes' = {}
    /\ counted' = 0
    /\ version' = version + 1
    /\ Go(x, "changed")
    /\ UNCHANGED <<now, flows, sessions, seen, tries, passed>>

\* CreateTwoFAEnrollment: a row and codes of its own, not enabled yet.
EnrollTwoFA(x) ==
    /\ Does[x] = "enable"
    /\ at[x] = "start"
    /\ ~factor.on
    /\ factor' = [factor EXCEPT !.id = @ + 1]
    /\ codes' = {3}
    /\ seen' = [seen EXCEPT ![x].id = factor.id + 1]
    /\ Go(x, "enrolled")
    /\ UNCHANGED <<now, version, flows, sessions, tries, passed, counted>>

\* EnableTwoFAEnrollment, with a right code.
EnableTwoFA(x) ==
    /\ at[x] = "enrolled"
    /\ \/ /\ factor.id = seen[x].id /\ ~factor.on
          /\ factor' = [factor EXCEPT !.on = TRUE, !.failed = 0, !.locked = 0]
          /\ version' = version + 1
          /\ Go(x, "changed")
       \/ /\ factor.id # seen[x].id \/ factor.on
          /\ Go(x, "refused")
          /\ UNCHANGED <<version, factor>>
    /\ UNCHANGED <<now, codes, flows, sessions, seen, tries, passed, counted>>

Tick ==
    /\ now < Horizon
    /\ now' = now + 1
    /\ UNCHANGED <<version, factor, codes, flows, sessions, at, seen, tries,
                   passed, counted>>

Step(x) ==
    \/ ReadFlow(x) \/ ReadState(x) \/ ReadFactor(x) \/ ReadCodes(x)
    \/ ClaimCode(x) \/ ResetFailures(x) \/ ReadFailures(x) \/ CountFailure(x)
    \/ CompleteLogin(x) \/ ReplaceCodes(x) \/ DisableTwoFA(x) \/ EnrollTwoFA(x)
    \/ EnableTwoFA(x)

Next ==
    /\ \/ Tick
       \/ \E f \in Flows : StartFlow(f)
       \/ \E x \in Procs : Step(x)
    /\ UNCHANGED setting

Spec == Init /\ [][Next]_vars

-----------------------------------------------------------------------------
(* Properties.                                                             *)

\* A flow is exchanged for one session, however many requests present it with
\* a right code at the same time (ConsumeAuthFlowWithAction).
OneSessionPerFlow ==
    \A s, t \in sessions : FlowOf[s.by] = FlowOf[t.by] => s = t

\* A backup code admits one request (ValidateBackupCode).
CodeAdmitsOnce ==
    \A x, y \in passed : Does[x] = "backup" /\ Does[y] = "backup" => x = y

\* No failure is lost: when several wrong codes arrive together the counter
\* grows by one for each of them that is counted, so that the lock comes after
\* MaxFailAttempts of them (IncrementFailedAttempts).
NoFailureLost ==
    /\ factor.failed = counted
    /\ factor.locked > 0 => factor.failed >= MaxAttempts

\* A login that was begun before the factor changed gets no session after the
\* change, and a session needs a factor and an accepted code
\* (CompleteLoginVerification).
LoginIsCurrent ==
    \A s \in sessions : s.version = s.user /\ s.by \in passed
=============================================================================
