----------------------------- MODULE MCPayments -----------------------------
(***************************************************************************)
(* Top-ups, and redemption codes and check-ins.  A behaviour is one of     *)
(* TopUp or one of Redemption, each with one of the settings below: the    *)
(* other stands still in an initial state.  An order is named for its      *)
(* provider.                                                               *)
(***************************************************************************)
EXTENDS TopUp

CONSTANTS n1, n2

\* The constants of Redemption; its wallet has a ceiling of its own.
CONSTANTS Requests, Codes, Quotas, Award, GivenCeiling, LastDay, Databases

ASSUME GivenAssumption ==
    /\ Quotas \subseteq Nat
    /\ Award \in Nat /\ GivenCeiling \in Nat /\ LastDay \in Nat
    /\ \A b \in Databases :
          b.locks \in BOOLEAN /\ b.faults \in Nat /\ b.edits \in Nat

VARIABLES part, base, code, edit, checkin, today, req, wallet, left, hist

givenVars == <<base, code, edit, checkin, today, req, wallet, left, hist>>

ProviderOf == [o \in Orders |-> o]

\* Two nodes, and a ceiling that two credits would pass.
TwoNodes ==
    [orders |-> {"stripe", "epay"}, nodes |-> {n1, n2}, ceiling |-> 6,
     quota |-> 1, faults |-> 1, acks |-> 1, manual |-> 1]

TwoNodesPancake == [TwoNodes EXCEPT !.orders = {"pancake", "epay"}]

\* One node: its lock keeps the handlers of an order apart.
OneNode == [TwoNodes EXCEPT !.nodes = {n1}, !.manual = 2, !.ceiling = 5]

\* Gateways whose handlers ask for a failed notice to be sent again.
Retried ==
    [OneNode EXCEPT !.orders = {"epay", "creem"}, !.ceiling = 30, !.quota = 0,
                    !.faults = 2, !.manual = 1]

RetriedWaffo == [Retried EXCEPT !.orders = {"waffo"}]

TopUpSettings == {TwoNodes, TwoNodesPancake, OneNode, Retried, RetriedWaffo}

\* With row locks and an administrator; without either, and without a
\* transaction around a check-in.
MySQL == [locks |-> TRUE, faults |-> 1, edits |-> 1]
SQLite == [locks |-> FALSE, faults |-> 2, edits |-> 0]

GivenDatabases == {MySQL, SQLite}

Given == INSTANCE Redemption WITH
    MaxWalletQuota <- GivenCeiling, quota <- wallet, budget <- left

-----------------------------------------------------------------------------
MCInit ==
    /\ part \in {"topup", "given"}
    /\ Init /\ (part = "given" => setting = OneNode)
    /\ Given!Init /\ (part = "topup" => base = MySQL)

MCNext ==
    /\ \/ part = "topup" /\ Next /\ UNCHANGED givenVars
       \/ part = "given" /\ Given!Next /\ UNCHANGED vars
    /\ UNCHANGED part

MCFairness ==
    \A o \in {"epay", "creem", "waffo"} :
        WF_vars(part = "topup" /\ Notice(o) /\ UNCHANGED setting)

MCSpec == MCInit /\ [][MCNext]_<<part, vars, givenVars>> /\ MCFairness

\* An order is credited once, as it was ordered, within the wallet's ceiling.
CreditsAreExact == CreditedOnce /\ CreditedAsOrdered /\ WalletWithinCeiling

\* A code is redeemed once and a day is awarded once, and if it is lost, then
\* by a crash or by two failures.
GivenOnce ==
    /\ Given!RedeemedOnce
    /\ Given!AwardedOnce
    /\ Given!CheckedInMeansAwarded
=============================================================================
