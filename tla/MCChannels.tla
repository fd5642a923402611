---------------------------- MODULE MCChannels ----------------------------
(***************************************************************************)
(* The status of a channel, and the channels a request tries.  A behaviour *)
(* is one of ChannelStatus, with one of the settings below, or one of      *)
(* ChannelRetry: the other stands still in an initial state.               *)
(***************************************************************************)
EXTENDS ChannelStatus

CONSTANTS r1, r2, a1, a2, a3, b1, b2
CONSTANTS Channels, TokenGroups, Priority, RetryTimes, MaxFlips

ASSUME RetryConstantsOK ==
  /\ IsFiniteSet(Channels) /\ Priority \in [Channels -> Int]
  /\ TokenGroups \in Seq(SUBSET Channels) /\ TokenGroups # <<>>
  /\ RetryTimes \in Nat

VARIABLES part, token, on, always, flips, retry, reset, group, tried, stage, why

retryVars == <<token, on, always, flips, retry, reset, group, tried, stage, why>>

Retry == INSTANCE ChannelRetry WITH pc <- stage

-----------------------------------------------------------------------------
\* Two groups, of three priorities and of one.
TwoGroups == <<{a1, a2, a3}, {b1, b2}>>
Priorities == a1 :> 3 @@ a2 :> 2 @@ a3 :> 1 @@ b1 :> 2 @@ b2 :> 2

NoList == [i \in {} |-> AutoDisabled]
OtherKeys == <<"n1", "n2">>

\* Two keys the upstream rejects for a while; polling and the cache are on.
Base ==
  [keys |-> <<"k1", "k2">>, list |-> NoList, sick |-> {"k1", "k2"}, dead |-> {},
   multi |-> TRUE, polling |-> TRUE, cache |-> TRUE, ops |-> {},
   clients |-> {r1}, requests |-> 1, probes |-> 1, syncs |-> 1, admin |-> 0, clock |-> 0]

\* An operator sets the status while a request, a probe and a sync go on.
Operated == [Base EXCEPT !.syncs = 0, !.admin = 1, !.clock = 1]

\* Two requests at once.
TwoRequests == [Base EXCEPT !.clients = {r1, r2}, !.requests = 2, !.probes = 0]

\* The abilities route the requests, to any key of the channel.
NoCache == [Base EXCEPT !.polling = FALSE, !.cache = FALSE, !.syncs = 0,
                        !.clients = {r1, r2}, !.requests = 2]

NoCacheOperated == [NoCache EXCEPT !.clients = {r1}, !.requests = 1, !.admin = 1]

\* An operator deletes and ranks keys that a request or a probe uses.
Deleting ==
  [NoCache EXCEPT !.keys = <<"k1", "k2", "k3">>, !.list = 1 :> AutoDisabled,
                  !.sick = {"k1"}, !.requests = 0, !.admin = 2,
                  !.ops = {"delete_key", "delete_disabled_keys",
                           "set_key_priority", "clear_key_priority",
                           "enable_all_keys"}]

\* The key list is edited without a lock and keys are switched on and off.
Editing ==
  [Base EXCEPT !.polling = FALSE, !.dead = {"k1", "k2"},
               !.probes = 0, !.syncs = -1, !.admin = 1,
               !.ops = {"append", "replace", "enable_key", "disable_all_keys"}]

\* Everything heals and the channel test comes round for ever.
Recovering ==
  [Base EXCEPT !.list = 1 :> AutoDisabled, !.probes = -1, !.syncs = -1]

\* The same for a channel with one key.
Single ==
  [Base EXCEPT !.keys = <<"k1">>, !.sick = {"k1"}, !.multi = FALSE,
               !.polling = FALSE, !.probes = -1, !.syncs = -1]

\* An operator deletes the disabled keys of a channel that has no others.
DeletingAll ==
  {[NoCache EXCEPT !.list = 1 :> AutoDisabled @@ 2 :> AutoDisabled,
                   !.requests = 0, !.probes = 0, !.admin = 1,
                   !.ops = {"delete_disabled_keys"}]}

Settings ==
  {Base, Operated, TwoRequests, NoCache, NoCacheOperated, Deleting, Editing,
   Recovering, Single}

-----------------------------------------------------------------------------
MCInit ==
  /\ part \in {"status", "retry"}
  /\ Init /\ (part = "retry" => config = CHOOSE c \in Configs : TRUE)
  /\ Retry!Init /\ (part = "status" => token = "plain" /\ on = {})

MCNext ==
  /\ \/ part = "status" /\ Next /\ UNCHANGED retryVars
     \/ part = "retry" /\ Retry!Next /\ UNCHANGED vars
  /\ UNCHANGED part

\* ChannelStatus's Fairness, for the actors of the settings that last.
MCFairness ==
  /\ \A a \in {r1, Prober, Syncer, Manager} : SF_vars(part = "status" /\ Proceed(a))
  /\ WF_vars(part = "status" /\ StartProbe)
  /\ WF_vars(part = "status" /\ Heal)

MCSpec == MCInit /\ [][MCNext]_<<part, vars, retryVars>> /\ MCFairness

\* No status change is lost or invented: a key or a channel is disabled just
\* when the last report on it said so, a channel is not switched off for want of
\* a key while it has one, and what routes a request follows the status
\* (UpdateChannelStatus, CacheUpdateChannelStatus).
StatusIsSound == DisabledAsRecorded /\ AutoDisabledHasNoKey /\ RoutesFollowStatus

\* A request makes at most RetryTimes + 1 calls per group and never goes back to
\* an earlier one; one that is told that there is no channel has tried a channel
\* of every group that had one all the time, or without cross-group retry the
\* last group had none (CacheGetRandomSatisfiedChannel, RetryParam).
RetryIsSound == Retry!OncePerGroup /\ Retry!NoneMeansTried
=============================================================================
