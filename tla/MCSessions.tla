---------------------------- MODULE MCSessions ----------------------------
(***************************************************************************)
(* Login sessions for TLC.  A behaviour is one of UserSession, with one of *)
(* five sets of requests, or one of LoginVerification, with one of three;  *)
(* the component that is not running stands still.                         *)
(***************************************************************************)
EXTENDS UserSession, TLC

CONSTANTS
    x1, x2, x3, y1, y2, y3, y4, f1, f2,
    Logins, Flows, FlowOf, LoginSettings, Lockout, SessionLimit, Retries,
    LoginHorizon       \* of LoginVerification, Logins its Procs,
                       \* LoginSettings its Settings

ASSUME LoginAssumption ==
    /\ FlowOf \in [Logins -> Flows]
    /\ Lockout \in Nat
    /\ \A s \in LoginSettings : s.max \in Nat /\ s.ttl \in Nat

VARIABLES
    part,  \* "session" or "verify"
    terms, clock, version, factor, codes, flows, sessions, place, seen,
    tries, passed, counted

-----------------------------------------------------------------------------
(* UserSession.                                                            *)

\* A validation, a bulk revocation and an advance, with faults.
Faulty ==
    [kind |-> (x1 :> "read") @@ (x2 :> "revokeall") @@ (x3 :> "advance"),
     secret |-> [x \in Procs |-> 1], ttl |-> 2, grace |-> 1, lifetime |-> 9,
     retention |-> 1, horizon |-> 4, redisFaults |-> 1, crashes |-> 1]

\* Two validations and a revocation, with every delay.
Revoking ==
    [Faulty EXCEPT !.kind = (x1 :> "read") @@ (x2 :> "read") @@ (x3 :> "revoke"),
                   !.retention = 9, !.horizon = 5, !.redisFaults = 0,
                   !.crashes = 0]

\* The same with faults, before a denial can run out.
Fenced ==
    [Revoking EXCEPT !.ttl = 4, !.horizon = 2, !.redisFaults = 1, !.crashes = 1]

\* A login, a refresh and a logout, until the row is removed.
LoggingIn ==
    [Faulty EXCEPT !.kind = (x1 :> "login") @@ (x2 :> "rotate") @@ (x3 :> "logout"),
                   !.lifetime = 3]

\* Refreshes with secrets of two generations.
Chained ==
    [Revoking EXCEPT !.kind = [x \in Procs |-> "rotate"],
                     !.secret = (x1 :> 1) @@ (x2 :> 1) @@ (x3 :> 2),
                     !.horizon = 2]

SessionSettings == {Faulty, Revoking, Fenced, LoggingIn, Chained}

-----------------------------------------------------------------------------
(* LoginVerification.                                                      *)

\* Right codes beside new codes; wrong codes beside a right one; a right code
\* beside the end of the factor and two enrollments.
RightCodes ==
    [kind |-> (y1 :> "totp") @@ (y2 :> "backup") @@ (y3 :> "backup") @@ (y4 :> "replace"),
     max |-> 2, ttl |-> 2]
WrongCodes ==
    [kind |-> (y1 :> "wrong") @@ (y2 :> "wrong") @@ (y3 :> "wrong") @@ (y4 :> "totp"),
     max |-> 2, ttl |-> 3]
Changes ==
    [kind |-> (y1 :> "totp") @@ (y2 :> "enable") @@ (y3 :> "disable") @@ (y4 :> "enable"),
     max |-> 1, ttl |-> 3]

VerifySettings == {RightCodes, WrongCodes, Changes}

\* Two requests present the first flow, the others the second.
Twos == (y1 :> f1) @@ (y2 :> f1) @@ (y3 :> f2) @@ (y4 :> f2)

Verify == INSTANCE LoginVerification WITH
    Procs <- Logins, Settings <- LoginSettings, Horizon <- LoginHorizon,
    setting <- terms, now <- clock, at <- place

verifyVars == <<terms, clock, version, factor, codes, flows, sessions, place,
                seen, tries, passed, counted>>

-----------------------------------------------------------------------------
MCInit ==
    /\ part \in {"session", "verify"}
    /\ Init /\ (part = "verify" => setting = CHOOSE s \in Settings : TRUE)
    /\ Verify!Init /\ (part = "session" => terms = CHOOSE s \in LoginSettings : TRUE)

MCNext ==
    /\ \/ part = "session" /\ Next /\ UNCHANGED verifyVars
       \/ part = "verify" /\ Verify!Next /\ UNCHANGED vars
    /\ UNCHANGED part

MCSpec == MCInit /\ [][MCNext]_<<part, vars, verifyVars>>

-----------------------------------------------------------------------------
\* A login with a second factor: a flow gives one session, a backup code admits
\* one request, a login begun before the factor changed gets no session, and no
\* wrong code that is counted is lost (CreateUserSessionFromLoginFlow,
\* ValidateBackupCode, IncrementFailedAttempts).
SecondFactorHolds ==
    /\ Verify!OneSessionPerFlow
    /\ Verify!CodeAdmitsOnce
    /\ Verify!LoginIsCurrent
    /\ Verify!NoFailureLost
=============================================================================
