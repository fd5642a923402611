---------------------------- MODULE WalletLedger ----------------------------
(***************************************************************************)
(* What the quota store promises, without a cache and without a batch: one *)
(* balance, and requests each of which changes it once, by its amount, or  *)
(* not at all.  QuotaStore implements it.                                  *)
(***************************************************************************)
EXTENDS Integers

CONSTANTS
    Requests,   \* requests on the wallet
    Delta,      \* what each adds to it
    InitQuota   \* the balance at first

VARIABLES
    lossy,      \* TRUE when accepted changes may be lost before they are
                \* stored (a batch); it never changes
    bal,        \* the balance
    unstored,   \* the part of it that is accepted and not stored
    outcome     \* what became of each request

ledgerVars == <<lossy, bal, unstored, outcome>>

Init ==
    /\ lossy \in BOOLEAN
    /\ bal = InitQuota
    /\ unstored = 0
    /\ outcome = [r \in Requests |-> "open"]

\* The request is accepted: its amount is in the balance.
Accept(r) ==
    /\ outcome[r] = "open"
    /\ outcome' = [outcome EXCEPT ![r] = "accepted"]
    /\ bal' = bal + Delta[r]
    /\ unstored' \in {unstored, IF lossy THEN unstored + Delta[r] ELSE unstored}

\* The request is turned down, or fails: the balance is as it was.
Refuse(r) ==
    /\ outcome[r] = "open"
    /\ outcome' = [outcome EXCEPT ![r] = "refused"]
    /\ UNCHANGED <<bal, unstored>>

\* What was accepted is stored.
Store ==
    /\ unstored' = 0 \/ lossy
    /\ UNCHANGED <<bal, outcome>>

\* The process dies with open requests, or cannot store: what is lost comes
\* off what was not stored.
Lose ==
    /\ \E dead \in SUBSET {r \in Requests : outcome[r] = "open"} :
          outcome' = [r \in Requests |->
                        IF r \in dead THEN "refused" ELSE outcome[r]]
    /\ bal' - bal = unstored' - unstored
    /\ ~lossy => UNCHANGED bal

Next ==
    /\ Store \/ (\E r \in Requests : Accept(r) \/ Refuse(r)) \/ Lose
    /\ UNCHANGED lossy

Spec == Init /\ [][Next]_ledgerVars
=============================================================================
