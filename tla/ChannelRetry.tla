--------------------------- MODULE ChannelRetry ---------------------------
(***************************************************************************)
(* The channels one relay request tries.                                   *)
(*                                                                         *)
(* The distributor chooses the first channel, by affinity or by            *)
(* CacheGetRandomSatisfiedChannel; the relay loop calls the upstream and,  *)
(* while shouldRetry says so, asks for another channel.  The number of the *)
(* retry selects the priority within the group; a token of the "auto"      *)
(* group goes through a list of groups, whose index is kept in the request *)
(* context, and with cross-group retry it moves on, and counts from 0      *)
(* again, when a group has used its retries up.  Meanwhile channels are    *)
(* disabled and enabled by other requests and by this one's failures.      *)
(***************************************************************************)
EXTENDS Integers, Sequences, SequencesExt, FiniteSets, FiniteSetsExt

CONSTANTS
  Channels,       \* the channels that serve the model
  TokenGroups,    \* the groups of an auto token, in order: sets of channels
  Priority,       \* the priority of each channel
  RetryTimes,     \* common.RetryTimes
  MaxFlips        \* bound on the channels disabled or enabled meanwhile

VARIABLE token    \* the token: of one group, auto, or auto with cross-group retry

Tokens == {"plain", "auto", "cross"}
Auto == token # "plain"
CrossGroup == token = "cross"
Groups == IF Auto THEN TokenGroups ELSE <<TokenGroups[1]>>

VARIABLES
  on,       \* the channels enabled now
  always,   \* history: the channels that were enabled all the time
  flips,    \* how often a channel was disabled or enabled
  retry,    \* RetryParam.Retry of the relay loop
  reset,    \* RetryParam.resetNextTry of the relay loop
  group,    \* ContextKeyAutoGroupIndex, or 0 when it is not set
  tried,    \* the channels tried, with the group each was chosen in
  pc,       \* where the request is
  why       \* why it ended

vars == <<token, on, always, flips, retry, reset, group, tried, pc, why>>

-----------------------------------------------------------------------------
Init ==
  /\ token \in Tokens
  /\ on \in SUBSET Channels
  /\ always = on
  /\ flips = 0
  /\ retry = 0
  /\ reset = FALSE
  /\ group = 0
  /\ tried = <<>>
  /\ pc = "distribute"
  /\ why = "running"

Candidates(g) == Groups[g] \cap on

\* GetRandomSatisfiedChannel: the retry-th priority of the group, the lowest
\* one when there are not so many, and any channel that has it.
GetRandomSatisfiedChannel(g, n) ==
  LET ranks == {Priority[c] : c \in Candidates(g)}
      above(p) == Cardinality({q \in ranks : q > p})
      rank == IF n >= Cardinality(ranks) THEN Cardinality(ranks) - 1 ELSE n
  IN {c \in Candidates(g) : above(Priority[c]) = rank}

\* Mutant: the group after the saved one is searched first.
SearchedFromNext(start) ==
  {i \in DOMAIN Groups : i >= start + 1 /\ Candidates(i) # {}}

\* The groups from the saved index on that have a channel.
Searched(start) == {i \in DOMAIN Groups : i >= start /\ Candidates(i) # {}}

\* The group has used up its retries: the next try goes to the next one.
UsedUp(n) == CrossGroup /\ n >= RetryTimes

\* CacheGetRandomSatisfiedChannel for the auto group, with the count and the
\* flag of the caller's RetryParam: the channel and what is left behind.
AutoSelections(count, flag) ==
  LET start == IF group = 0 THEN 1 ELSE group
      i == Min(Searched(start))
      n == IF i > start THEN 0 ELSE count
  IN IF Searched(start) = {} THEN {}
     ELSE {[channel |-> c, in |-> i,
            group |-> IF UsedUp(n) THEN i + 1 ELSE i,
            retry |-> IF UsedUp(n) THEN 0 ELSE n,
            reset |-> flag \/ UsedUp(n)] : c \in GetRandomSatisfiedChannel(i, n)}

PlainSelections(count, flag) ==
  {[channel |-> c, in |-> 1, group |-> group, retry |-> count, reset |-> flag] :
     c \in IF Candidates(1) = {} THEN {} ELSE GetRandomSatisfiedChannel(1, count)}

CacheGetRandomSatisfiedChannel(count, flag) ==
  IF Auto THEN AutoSelections(count, flag) ELSE PlainSelections(count, flag)

-----------------------------------------------------------------------------
End(reason) == pc' = "ended" /\ why' = reason

\* The distributor, with a RetryParam of its own: only the group index stays.
Distribute ==
  LET selections == CacheGetRandomSatisfiedChannel(0, FALSE)
  IN /\ pc = "distribute"
     /\ \/ /\ selections = {}
           /\ End("none")
           /\ UNCHANGED <<group, tried>>
        \/ \E s \in selections :
             /\ group' = s.group
             /\ tried' = <<[channel |-> s.channel, in |-> s.in]>>
             /\ pc' = "call"
             /\ UNCHANGED why
     /\ UNCHANGED <<token, on, always, flips, retry, reset>>

\* The channel the user's earlier requests had, whatever its group.
DistributeByAffinity ==
  /\ pc = "distribute"
  /\ \E i \in DOMAIN Groups : \E c \in Candidates(i) :
       tried' = <<[channel |-> c, in |-> 0]>>
  /\ pc' = "call"
  /\ UNCHANGED <<token, on, always, flips, retry, reset, group, why>>

\* The upstream answers, or fails in a way that is never retried.
Answer ==
  /\ pc = "call"
  /\ \E reason \in {"ok", "fatal"} : End(reason)
  /\ UNCHANGED <<token, on, always, flips, retry, reset, group, tried>>

\* IncreaseRetry: the first increase after a reset only takes the flag back.
IncreaseRetry ==
  /\ retry' = IF reset THEN retry ELSE retry + 1
  /\ reset' = FALSE

\* A failure.  An error of the channel itself is retried whatever the count
\* (shouldRetry), any other while retries are left; the loop's own condition
\* follows the increase.
Fail ==
  /\ pc = "call"
  /\ \E channelError \in BOOLEAN :
       \/ /\ ~channelError /\ RetryTimes - retry <= 0
          /\ End("fatal")
          /\ UNCHANGED <<retry, reset>>
       \/ /\ channelError \/ RetryTimes - retry > 0
          /\ IncreaseRetry
          /\ IF retry' <= RetryTimes THEN pc' = "select" /\ UNCHANGED why
             ELSE End("retries")
  /\ UNCHANGED <<token, on, always, flips, group, tried>>

\* getChannel in the relay loop.
Reselect ==
  LET selections == CacheGetRandomSatisfiedChannel(retry, reset)
  IN /\ pc = "select"
     /\ \/ /\ selections = {}
           /\ End("none")
           /\ UNCHANGED <<retry, reset, group, tried>>
        \/ \E s \in selections :
             /\ retry' = s.retry
             /\ reset' = s.reset
             /\ group' = s.group
             /\ tried' = Append(tried, [channel |-> s.channel, in |-> s.in])
             /\ pc' = "call"
             /\ UNCHANGED why
     /\ UNCHANGED <<token, on, always, flips>>

\* A channel is disabled or enabled, by this request's failure or by others.
Flip ==
  /\ pc # "ended" /\ flips < MaxFlips
  /\ \E c \in Channels :
       /\ on' = IF c \in on THEN on \ {c} ELSE on \cup {c}
       /\ always' = always \ {c}
  /\ flips' = flips + 1
  /\ UNCHANGED <<token, retry, reset, group, tried, pc, why>>

Step == Distribute \/ DistributeByAffinity \/ Answer \/ Fail \/ Reselect
Next == Step \/ Flip

\* The request's goroutine goes on: every upstream call ends.
Spec == Init /\ [][Next]_vars /\ WF_vars(Step)

-----------------------------------------------------------------------------
\* However the counter is reset on the way through the groups, and whatever
\* happens to the channels, a request makes at most RetryTimes + 1 calls per
\* group and never goes back to an earlier one.
OncePerGroup ==
  /\ Len(tried) <= (RetryTimes + 1) * Len(Groups)
  /\ \A i, j \in DOMAIN tried : i < j /\ tried[i].in > 0 => tried[i].in <= tried[j].in

\* A request that is told that there is no channel has tried a channel of every
\* group that had one all the time; without cross-group retry the last group
\* had none, however many retries the request has made.
NoneMeansTried ==
  why = "none" =>
    /\ CrossGroup => \A g \in DOMAIN Groups :
         Groups[g] \cap always # {} => \E i \in DOMAIN tried :
           tried[i].channel \in Groups[g]
    /\ ~CrossGroup => Groups[Len(Groups)] \cap always = {}

=============================================================================
