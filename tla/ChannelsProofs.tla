--------------------------- MODULE ChannelsProofs ---------------------------
(***************************************************************************)
(* Proofs about channels: the channels a request tries (ChannelRetry), and *)
(* the status of a channel and of its keys (ChannelStatus), for any        *)
(* channels, groups, priorities, keys, settings and actors.                *)
(***************************************************************************)
EXTENDS MCChannels, FiniteSetTheorems, NaturalsInduction, WellFoundedInduction, TLAPS

-----------------------------------------------------------------------------
(* Order in finite sets of integers.                                       *)

LEMMA LeastOfNat ==
    ASSUME NEW T, T \subseteq Nat, T # {}
    PROVE  \E x \in T : \A y \in T : x <= y
<1>1. PICK x \in T : \A y \in T : ~(<<y, x>> \in OpToRel(<, Nat))
  BY NatLessThanWellFounded, WFMin
<1>2. ASSUME NEW y \in T PROVE x <= y
  <2> SUFFICES ASSUME y < x PROVE FALSE
    OBVIOUS
  <2>1. <<y, x>> \in Nat \X Nat /\ <<y, x>>[1] < <<y, x>>[2]
    OBVIOUS
  <2> QED
    BY <1>1, <2>1 DEF OpToRel
<1> QED
  BY <1>2

\* A finite set of integers has a least element: the one with the fewest below it.
LEMMA LeastExists ==
    ASSUME NEW S, IsFiniteSet(S), S \subseteq Int, S # {}
    PROVE  \E x \in S : \A y \in S : x <= y
<1> DEFINE Below(x) == {y \in S : y < x}
           T == {Cardinality(Below(x)) : x \in S}
<1>0. \A y \in S : y \in Int
  OBVIOUS
<1>1. \A x \in S : IsFiniteSet(Below(x)) /\ Cardinality(Below(x)) \in Nat
  <2> SUFFICES ASSUME NEW x \in S
               PROVE  IsFiniteSet(Below(x)) /\ Cardinality(Below(x)) \in Nat
    OBVIOUS
  <2>1. Below(x) \in SUBSET S
    OBVIOUS
  <2> QED
    BY <2>1, FS_Subset, FS_CardinalityType
<1>2. T \subseteq Nat /\ T # {}
  BY <1>1
<1>3. PICK x \in S : \A y \in S : Cardinality(Below(x)) <= Cardinality(Below(y))
  <2>1. PICK t \in T : \A u \in T : t <= u
    BY <1>2, LeastOfNat
  <2> QED
    BY <2>1
<1>4. ASSUME NEW y \in S PROVE x <= y
  <2> SUFFICES ASSUME y < x PROVE FALSE
    BY <1>0
  <2>1. Below(y) \cup {y} \in SUBSET Below(x) /\ y \notin Below(y)
    <3>1. (\A z \in S : z < y => z < x) /\ ~(y < y)
      BY <1>0
    <3>2. y \notin Below(y)
      BY <3>1
    <3>3. \A z \in Below(y) \cup {y} : z \in Below(x)
      BY <3>1
    <3> QED
      BY <3>2, <3>3
  <2>2. Cardinality(Below(y) \cup {y}) = Cardinality(Below(y)) + 1
    BY <1>1, <2>1, FS_AddElement
  <2>3. Cardinality(Below(y) \cup {y}) <= Cardinality(Below(x))
    BY <1>1, <2>1, FS_Subset
  <2>4. Cardinality(Below(x)) <= Cardinality(Below(y))
    BY <1>3
  <2>5. Cardinality(Below(x)) \in Nat /\ Cardinality(Below(y)) \in Nat
    BY <1>1
  <2> HIDE DEF Below
  <2> QED
    BY <2>2, <2>3, <2>4, <2>5
<1> QED
  BY <1>4

\* And a greatest one.
LEMMA GreatestExists ==
    ASSUME NEW S, IsFiniteSet(S), S \subseteq Int, S # {}
    PROVE  \E x \in S : \A y \in S : x >= y
<1> DEFINE Above(x) == {y \in S : y > x}
           T == {Cardinality(Above(x)) : x \in S}
<1>0. \A y \in S : y \in Int
  OBVIOUS
<1>1. \A x \in S : IsFiniteSet(Above(x)) /\ Cardinality(Above(x)) \in Nat
  <2> SUFFICES ASSUME NEW x \in S
               PROVE  IsFiniteSet(Above(x)) /\ Cardinality(Above(x)) \in Nat
    OBVIOUS
  <2>1. Above(x) \in SUBSET S
    OBVIOUS
  <2> QED
    BY <2>1, FS_Subset, FS_CardinalityType
<1>2. T \subseteq Nat /\ T # {}
  BY <1>1
<1>3. PICK x \in S : \A y \in S : Cardinality(Above(x)) <= Cardinality(Above(y))
  <2>1. PICK t \in T : \A u \in T : t <= u
    BY <1>2, LeastOfNat
  <2> QED
    BY <2>1
<1>4. ASSUME NEW y \in S PROVE x >= y
  <2> SUFFICES ASSUME y > x PROVE FALSE
    BY <1>0
  <2>1. Above(y) \cup {y} \in SUBSET Above(x) /\ y \notin Above(y)
    <3>1. (\A z \in S : z > y => z > x) /\ ~(y > y)
      BY <1>0
    <3>2. y \notin Above(y)
      BY <3>1
    <3>3. \A z \in Above(y) \cup {y} : z \in Above(x)
      BY <3>1
    <3> QED
      BY <3>2, <3>3
  <2>2. Cardinality(Above(y) \cup {y}) = Cardinality(Above(y)) + 1
    BY <1>1, <2>1, FS_AddElement
  <2>3. Cardinality(Above(y) \cup {y}) <= Cardinality(Above(x))
    BY <1>1, <2>1, FS_Subset
  <2>4. Cardinality(Above(x)) <= Cardinality(Above(y))
    BY <1>3
  <2>5. Cardinality(Above(x)) \in Nat /\ Cardinality(Above(y)) \in Nat
    BY <1>1
  <2> HIDE DEF Above
  <2> QED
    BY <2>2, <2>3, <2>4, <2>5
<1> QED
  BY <1>4

\* Every place of the ascending order is taken.
LEMMA RankFromBelow ==
    ASSUME NEW S, IsFiniteSet(S), S \subseteq Int, NEW r \in Nat, r < Cardinality(S)
    PROVE  \E p \in S : Cardinality({q \in S : q < p}) = r
<1> DEFINE Below(x) == {y \in S : y < x}
<1>0. \A y \in S : y \in Int
  OBVIOUS
<1>1. /\ \A x \in S : IsFiniteSet(Below(x)) /\ Cardinality(Below(x)) \in Nat
      /\ Cardinality(S) \in Nat
  <2>1. ASSUME NEW x \in S
        PROVE  IsFiniteSet(Below(x)) /\ Cardinality(Below(x)) \in Nat
    <3>1. Below(x) \in SUBSET S
      OBVIOUS
    <3> QED
      BY <3>1, FS_Subset, FS_CardinalityType
  <2> QED
    BY <2>1, FS_CardinalityType
<1>2. PICK p \in S : /\ Cardinality(Below(p)) <= r
                     /\ \A q \in S : p < q => Cardinality(Below(q)) > r
  <2> DEFINE B == {x \in S : Cardinality(Below(x)) <= r}
             Up == {-x : x \in B}
  <2>1. B # {}
    <3>1. S # {}
      BY FS_EmptySet, <1>1
    <3>2. PICK x \in S : \A y \in S : x <= y
      BY <3>1, LeastExists
    <3>3. Below(x) = {}
      <4>1. \A y \in S : ~(y < x)
        BY <1>0, <3>2
      <4> QED
        BY <4>1
    <3>4. Cardinality(Below(x)) = 0
      BY <3>3, FS_EmptySet
    <3> QED
      BY <3>4
  <2>2. IsFiniteSet(B) /\ B \subseteq S /\ B \subseteq Int
    BY FS_Subset
  <2>5. PICK p \in B : \A q \in B : p >= q
    BY <2>1, <2>2, GreatestExists
  <2>6. ASSUME NEW q \in S, p < q PROVE Cardinality(Below(q)) > r
    <3> SUFFICES ASSUME ~(Cardinality(Below(q)) > r) PROVE FALSE
      OBVIOUS
    <3>1. q \in B
      BY <1>1
    <3> QED
      BY <1>0, <2>2, <2>5, <2>6, <3>1
  <2> QED
    BY <2>5, <2>6
<1>3. Cardinality(Below(p)) = r
  <2> SUFFICES ASSUME Cardinality(Below(p)) < r PROVE FALSE
    BY <1>1, <1>2
  <2> DEFINE Upper == {q \in S : q > p}
  <2>1. Upper # {}
    <3> SUFFICES ASSUME Upper = {} PROVE FALSE
      OBVIOUS
    <3>1. S = Below(p) \cup {p} /\ p \notin Below(p)
      <4>1. (\A z \in S : z < p \/ z = p) /\ ~(p < p)
        BY <1>0
      <4> QED
        BY <4>1
    <3>2. Cardinality(Below(p) \cup {p}) = Cardinality(Below(p)) + 1
      BY <1>1, <3>1, FS_AddElement
    <3>3. Cardinality(S) = Cardinality(Below(p)) + 1
      BY <3>1, <3>2
    <3>4. Cardinality(Below(p)) \in Nat
      BY <1>1
    <3> HIDE DEF Below
    <3> QED
      BY <1>1, <3>3, <3>4
  <2>2. PICK q \in Upper : \A x \in Upper : q <= x
    <3>1. IsFiniteSet(Upper) /\ Upper \subseteq Int
      BY FS_Subset
    <3> QED
      BY <2>1, <3>1, LeastExists
  <2>3. Below(q) = Below(p) \cup {p} /\ p \notin Below(p)
    <3>1. (\A z \in S : z < q <=> z < p \/ z = p) /\ ~(p < p)
      BY <1>0, <2>2
    <3> QED
      BY <3>1
  <2>4. Cardinality(Below(p) \cup {p}) = Cardinality(Below(p)) + 1
    BY <1>1, <2>3, FS_AddElement
  <2>5. Cardinality(Below(q)) > r /\ Cardinality(Below(p)) \in Nat
    BY <1>1, <1>2
  <2>6. Cardinality(Below(q)) = Cardinality(Below(p)) + 1
    BY <2>3, <2>4
  <2> HIDE DEF Below
  <2> QED
    BY <2>5, <2>6
<1> QED
  BY <1>3

\* And every place of the descending one.
LEMMA RankFromAbove ==
    ASSUME NEW S, IsFiniteSet(S), S \subseteq Int, NEW r \in Nat, r < Cardinality(S)
    PROVE  \E p \in S : Cardinality({q \in S : q > p}) = r
<1> DEFINE n == Cardinality(S)
           Below(p) == {q \in S : q < p}
           Above(p) == {q \in S : q > p}
<1>0. n \in Nat /\ n - 1 - r \in Nat /\ n - 1 - r < n
  <2>1. n \in Nat
    BY FS_CardinalityType
  <2> HIDE DEF n
  <2>2. r < n
    BY DEF n
  <2> QED
    BY <2>1, <2>2
<1>1. PICK p \in S : Cardinality(Below(p)) = n - 1 - r
  BY <1>0, RankFromBelow
<1>2. /\ IsFiniteSet(Below(p)) /\ IsFiniteSet(Above(p))
      /\ Cardinality(Below(p)) \in Nat /\ Cardinality(Above(p)) \in Nat
  <2>1. Below(p) \in SUBSET S /\ Above(p) \in SUBSET S
    OBVIOUS
  <2> QED
    BY <2>1, FS_Subset, FS_CardinalityType
<1>3. /\ S = (Below(p) \cup {p}) \cup Above(p)
      /\ p \notin Below(p) /\ (Below(p) \cup {p}) \cap Above(p) = {}
  <2>1. \A z \in S : z < p \/ z = p \/ z > p
    OBVIOUS
  <2>2. ~(p < p) /\ ~(p > p) /\ \A z \in S : ~(z < p /\ z > p)
    OBVIOUS
  <2> QED
    BY <2>1, <2>2
<1>4. /\ IsFiniteSet(Below(p) \cup {p})
      /\ Cardinality(Below(p) \cup {p}) = Cardinality(Below(p)) + 1
  BY <1>2, <1>3, FS_AddElement
<1>5. Cardinality((Below(p) \cup {p}) \cup Above(p))
        = Cardinality(Below(p) \cup {p}) + Cardinality(Above(p))
          - Cardinality((Below(p) \cup {p}) \cap Above(p))
  BY <1>2, <1>4, FS_Union
<1>6. n = Cardinality(Below(p)) + 1 + Cardinality(Above(p)) - 0
  BY <1>3, <1>4, <1>5, FS_EmptySet
<1>7. Cardinality(Above(p)) = r
  <2> HIDE DEF n, Below, Above
  <2> QED
    BY <1>0, <1>1, <1>2, <1>6
<1> QED
  BY <1>7

-----------------------------------------------------------------------------
(* The channels one request tries.                                         *)

LEMMA RetryCardinality == ASSUME NEW S PROVE Retry!Cardinality(S) = Cardinality(S)
  BY DEF Retry!Cardinality, Cardinality

\* While a group has a channel, every retry finds one.
LEMMA SomeChannel ==
    ASSUME NEW g, Retry!Candidates(g) \subseteq Channels, Retry!Candidates(g) # {},
           NEW n \in Nat
    PROVE  Retry!GetRandomSatisfiedChannel(g, n) # {}
<1> DEFINE C == Retry!Candidates(g)
           ranks == {Priority[c] : c \in C}
           f == [c \in C |-> Priority[c]]
<1>1. IsFiniteSet(C) /\ \A c \in C : Priority[c] \in Int
  BY RetryConstantsOK, FS_Subset
<1>2. IsFiniteSet(ranks) /\ ranks \subseteq Int /\ ranks # {}
  <2>1. f \in Surjection(C, ranks)
    BY DEF Surjection
  <2> QED
    BY <1>1, <2>1, FS_Surjection
<1>3. Cardinality(ranks) \in Nat \ {0}
  BY <1>2, FS_CardinalityType, FS_EmptySet
<1>4. PICK rank \in Nat : /\ rank = (IF n >= Cardinality(ranks) THEN Cardinality(ranks) - 1 ELSE n)
                          /\ rank < Cardinality(ranks)
  <2>0. PICK m \in Nat \ {0} : m = Cardinality(ranks)
    BY <1>3
  <2>1. CASE n >= m
    <3> WITNESS m - 1 \in Nat
    <3> QED
      BY <2>0, <2>1
  <2>2. CASE ~(n >= m)
    <3> WITNESS n \in Nat
    <3> QED
      BY <2>0, <2>2
  <2> QED
    BY <2>1, <2>2
<1>5. PICK p \in ranks : Cardinality({q \in ranks : q > p}) = rank
  BY <1>2, <1>4, RankFromAbove
<1>6. PICK c \in C : p = Priority[c]
  BY <1>5
<1>7. /\ Retry!Cardinality(ranks) = Cardinality(ranks)
      /\ Retry!Cardinality({q \in ranks : q > Priority[c]}) = rank
  BY <1>5, <1>6, RetryCardinality
<1> QED
  BY <1>4, <1>6, <1>7 DEF Retry!GetRandomSatisfiedChannel

\* The group a search starts from.
First(g) == IF g = 0 THEN 1 ELSE g

Served(g) == \E k \in DOMAIN tried : tried[k].channel \in Retry!Groups[g]

\* The calls that the groups before g may have taken.
Calls(g) == (RetryTimes + 1) * (g - 1)

RetryTyped ==
    /\ token \in Retry!Tokens
    /\ on \subseteq Channels /\ always \subseteq on
    /\ retry \in Nat /\ reset \in BOOLEAN /\ group \in Nat
    /\ tried \in Seq([channel : Channels, in : Nat])
    /\ stage \in {"distribute", "call", "select", "ended"}

\* Where the count, the flag and the group index are between two calls.
CountsOK ==
    /\ stage # "ended" => retry <= RetryTimes
    /\ stage = "distribute" => tried = <<>> /\ group = 0 /\ retry = 0 /\ ~reset
    /\ stage = "select" => ~reset /\ Len(tried) <= Calls(First(group)) + retry
    /\ stage = "call" /\ reset => Len(tried) <= Calls(First(group)) + retry
    /\ stage = "call" /\ ~reset => Len(tried) <= Calls(First(group)) + retry + 1
    /\ ~Retry!CrossGroup => group <= Len(Retry!Groups)

\* The groups before the index are done with: they had no channel that stayed, or
\* one of them was tried.
GroupsDone ==
    /\ \A k \in DOMAIN tried : tried[k].in <= First(group)
    /\ \A g \in DOMAIN Retry!Groups :
         g < First(group) => Retry!Groups[g] \cap always = {} \/ Served(g)
    /\ why = "none" => stage = "ended"

RetryInv ==
    /\ RetryTyped /\ CountsOK /\ GroupsDone
    /\ Retry!OncePerGroup /\ Retry!NoneMeansTried

LEMMA GroupsFacts ==
    /\ Len(Retry!Groups) \in Nat \ {0} /\ DOMAIN Retry!Groups = 1 .. Len(Retry!Groups)
    /\ \A g \in DOMAIN Retry!Groups : Retry!Groups[g] \subseteq Channels
    /\ ~Retry!Auto => Len(Retry!Groups) = 1
<1>1. /\ TokenGroups \in Seq(SUBSET Channels) /\ TokenGroups # <<>>
  BY RetryConstantsOK
<1>2. Len(TokenGroups) \in Nat \ {0} /\ TokenGroups[1] \in SUBSET Channels
  BY <1>1
<1>3. CASE Retry!Auto
  BY <1>1, <1>2, <1>3 DEF Retry!Groups
<1>4. CASE ~Retry!Auto
  <2>1. Retry!Groups = <<TokenGroups[1]>>
    BY <1>4 DEF Retry!Groups
  <2> QED
    BY <1>2, <1>4, <2>1
<1> QED
  BY <1>3, <1>4

LEMMA CallsFacts ==
    ASSUME NEW g \in Nat, NEW h \in Nat
    PROVE  /\ RetryTimes \in Nat /\ Calls(g) \in Int /\ Calls(1) = 0
           /\ Calls(g + 1) = Calls(g) + RetryTimes + 1
           /\ g <= h => Calls(g) <= Calls(h)
           /\ Calls(g + 1) = (RetryTimes + 1) * g
<1>1. RetryTimes \in Nat
  BY RetryConstantsOK
<1>3. ASSUME g <= h PROVE Calls(g) <= Calls(h)
  <2>1. PICK d \in Nat : h = g + d
    BY <1>3
  <2>2. (RetryTimes + 1) * (g - 1 + d) = (RetryTimes + 1) * (g - 1) + (RetryTimes + 1) * d
    BY <1>1
  <2>3. (RetryTimes + 1) * d \in Nat /\ (RetryTimes + 1) * (g - 1) \in Int
    BY <1>1
  <2>4. h - 1 = g - 1 + d
    BY <2>1
  <2> QED
    BY <2>2, <2>3, <2>4 DEF Calls
<1>4. Calls(g + 1) = Calls(g) + RetryTimes + 1
  BY <1>1 DEF Calls
<1> QED
  BY <1>1, <1>3, <1>4 DEF Calls

\* What a selection from the groups of an auto token may be.
AutoChoice(s, count, flag) ==
    \E i \in DOMAIN Retry!Groups, n \in Nat :
      /\ i >= First(group)
      /\ \A g \in DOMAIN Retry!Groups :
           First(group) <= g /\ g < i => Retry!Groups[g] \cap on = {}
      /\ s.in = i /\ s.channel \in Retry!Groups[i] /\ s.channel \in Channels
      /\ i > First(group) => n = 0
      /\ i = First(group) => n = count
      /\ Retry!UsedUp(n) => s.group = i + 1 /\ s.retry = 0 /\ s.reset = TRUE
      /\ ~Retry!UsedUp(n) => s.group = i /\ s.retry = n /\ s.reset = flag

LEMMA AutoSearch ==
    ASSUME RetryTyped, NEW count \in Nat, NEW flag \in BOOLEAN
    PROVE  /\ \A s \in Retry!AutoSelections(count, flag) : AutoChoice(s, count, flag)
           /\ Retry!AutoSelections(count, flag) = {} =>
                \A g \in DOMAIN Retry!Groups : g >= First(group) => Retry!Groups[g] \cap on = {}
<1> DEFINE start == First(group)
           found == Retry!Searched(start)
           i == Retry!Min(found)
           n == IF i > start THEN 0 ELSE count
<1>1. /\ start \in Nat /\ found \subseteq DOMAIN Retry!Groups /\ DOMAIN Retry!Groups \subseteq Nat
      /\ \A g \in found : g >= start /\ Retry!Groups[g] \cap on # {}
      /\ \A g \in DOMAIN Retry!Groups : g >= start /\ g \notin found => Retry!Groups[g] \cap on = {}
  BY GroupsFacts DEF RetryTyped, First, Retry!Searched, Retry!Candidates
<1>2. Retry!AutoSelections(count, flag) =
        IF found = {} THEN {}
        ELSE {[channel |-> c, in |-> i,
               group |-> IF Retry!UsedUp(n) THEN i + 1 ELSE i,
               retry |-> IF Retry!UsedUp(n) THEN 0 ELSE n,
               reset |-> flag \/ Retry!UsedUp(n)] : c \in Retry!GetRandomSatisfiedChannel(i, n)}
  BY DEF Retry!AutoSelections, First
<1>3. CASE found = {}
  BY <1>1, <1>2, <1>3
<1>4. CASE found # {}
  <2>1. i \in found /\ \A g \in found : i <= g
    <3>1. \E x \in found : \A y \in found : x <= y
      BY <1>1, <1>4, LeastOfNat
    <3> QED
      BY <3>1 DEF Retry!Min
  <2>2. /\ i \in DOMAIN Retry!Groups /\ i \in Nat /\ i >= start
        /\ \A g \in DOMAIN Retry!Groups : start <= g /\ g < i => Retry!Groups[g] \cap on = {}
    <3>1. i \in DOMAIN Retry!Groups /\ i \in Nat /\ i >= start
      BY <1>1, <2>1
    <3>2. ASSUME NEW g \in DOMAIN Retry!Groups, start <= g, g < i
          PROVE  Retry!Groups[g] \cap on = {}
      <4>1. g \notin found
        BY <1>1, <2>1, <3>1, <3>2
      <4> QED
        BY <1>1, <3>2, <4>1
    <3> QED
      BY <3>1, <3>2
  <2>3. n \in Nat /\ (i > start => n = 0) /\ (i = start => n = count)
    BY <1>1, <2>2
  <2>4. Retry!Candidates(i) \subseteq Channels /\ Retry!Candidates(i) # {}
    BY <1>1, <2>1, <2>2, GroupsFacts DEF Retry!Candidates, RetryTyped
  <2> HIDE DEF n, i, found, start
  <2>5. Retry!GetRandomSatisfiedChannel(i, n) # {}
    BY <2>3, <2>4, SomeChannel
  <2>6. Retry!AutoSelections(count, flag) # {}
    BY <1>2, <1>4, <2>5
  <2>7. ASSUME NEW s \in Retry!AutoSelections(count, flag)
        PROVE  AutoChoice(s, count, flag)
    <3>1. PICK c \in Retry!GetRandomSatisfiedChannel(i, n) :
            s = [channel |-> c, in |-> i,
                 group |-> IF Retry!UsedUp(n) THEN i + 1 ELSE i,
                 retry |-> IF Retry!UsedUp(n) THEN 0 ELSE n,
                 reset |-> flag \/ Retry!UsedUp(n)]
      BY <1>2, <1>4
    <3>2. c \in Retry!Groups[i] /\ c \in Channels
      BY <2>4 DEF Retry!GetRandomSatisfiedChannel, Retry!Candidates
    <3>3. s.in = i /\ s.channel = c
      BY <3>1
    <3>4. /\ Retry!UsedUp(n) => s.group = i + 1 /\ s.retry = 0 /\ s.reset = TRUE
          /\ ~Retry!UsedUp(n) => s.group = i /\ s.retry = n /\ s.reset = flag
      BY <3>1
    <3> QED
      BY <2>2, <2>3, <3>2, <3>3, <3>4 DEF AutoChoice, start
  <2> QED
    BY <2>6, <2>7
<1> QED
  BY <1>3, <1>4

LEMMA PlainSearch ==
    ASSUME RetryTyped, ~Retry!Auto, NEW count \in Nat, NEW flag \in BOOLEAN
    PROVE  /\ \A s \in Retry!PlainSelections(count, flag) :
                /\ s.in = 1 /\ s.channel \in Retry!Groups[1] /\ s.channel \in Channels
                /\ s.group = group /\ s.retry = count /\ s.reset = flag
           /\ Retry!PlainSelections(count, flag) = {} => Retry!Groups[1] \cap on = {}
<1>1. Retry!Candidates(1) \subseteq Channels
  BY GroupsFacts DEF Retry!Candidates, RetryTyped
<1>2. Retry!GetRandomSatisfiedChannel(1, count) \subseteq Retry!Candidates(1)
  BY DEF Retry!GetRandomSatisfiedChannel
<1>3. ASSUME NEW s \in Retry!PlainSelections(count, flag)
      PROVE  /\ s.in = 1 /\ s.channel \in Retry!Groups[1] /\ s.channel \in Channels
             /\ s.group = group /\ s.retry = count /\ s.reset = flag
  <2>1. PICK c \in Retry!GetRandomSatisfiedChannel(1, count) :
          s = [channel |-> c, in |-> 1, group |-> group, retry |-> count, reset |-> flag]
    BY <1>3 DEF Retry!PlainSelections
  <2>2. c \in Retry!Groups[1] /\ c \in Channels
    BY <1>1, <1>2 DEF Retry!Candidates
  <2> QED
    BY <2>1, <2>2
<1>4. ASSUME Retry!PlainSelections(count, flag) = {}
      PROVE  Retry!Groups[1] \cap on = {}
  <2> SUFFICES ASSUME Retry!Candidates(1) # {} PROVE FALSE
    BY DEF Retry!Candidates
  <2>1. PICK c : c \in Retry!GetRandomSatisfiedChannel(1, count)
    BY <1>1, SomeChannel
  <2>2. [channel |-> c, in |-> 1, group |-> group, retry |-> count, reset |-> flag]
          \in Retry!PlainSelections(count, flag)
    BY <2>1 DEF Retry!PlainSelections
  <2> QED
    BY <1>4, <2>2
<1> QED
  BY <1>3, <1>4

LEMMA ElementOfSeq ==
    ASSUME NEW T, NEW s \in Seq(T), NEW k \in 1 .. Len(s)
    PROVE  s[k] \in T
  OBVIOUS

\* The token, and with it the groups, stay.
LEMMA SameToken ==
    ASSUME token' = token
    PROVE  /\ Retry!Groups' = Retry!Groups /\ Retry!CrossGroup' = Retry!CrossGroup
           /\ Retry!Auto' = Retry!Auto
  BY DEF Retry!Groups, Retry!CrossGroup, Retry!Auto

\* How many calls the next one makes.
LEMMA NextCall ==
    ASSUME RetryInv, stage \in {"distribute", "select"}
    PROVE  /\ Len(tried) \in Nat /\ retry \in 0 .. RetryTimes
           /\ Len(tried) <= Calls(First(group)) + retry
           /\ First(group) \in Nat \ {0} /\ ~reset
<1>1. RetryTyped /\ CountsOK /\ RetryTimes \in Nat
  BY RetryConstantsOK DEF RetryInv
<1>2. CASE stage = "distribute"
  <2>1. tried = <<>> /\ group = 0 /\ retry = 0 /\ ~reset
    BY <1>1, <1>2 DEF CountsOK
  <2>2. Calls(1) = 0
    BY CallsFacts
  <2> QED
    BY <1>1, <2>1, <2>2 DEF First
<1>3. CASE stage = "select"
  BY <1>1, <1>3 DEF CountsOK, RetryTyped, First
<1> QED
  BY <1>2, <1>3

\* A channel of group i is tried next.
LEMMA TryKeeps ==
    ASSUME RetryInv, stage \in {"distribute", "select"},
           NEW i \in DOMAIN Retry!Groups, i >= First(group),
           \A g \in DOMAIN Retry!Groups :
             First(group) <= g /\ g < i => Retry!Groups[g] \cap on = {},
           NEW c \in Channels, c \in Retry!Groups[i],
           tried' = Append(tried, [channel |-> c, in |-> i]),
           group' \in Nat, First(group') = i \/ First(group') = i + 1,
           retry' \in Nat, reset' \in BOOLEAN, stage' = "call",
           UNCHANGED <<token, on, always, flips, why>>
    PROVE  /\ RetryTyped' /\ GroupsDone' /\ Retry!OncePerGroup' /\ Retry!NoneMeansTried'
           /\ Len(tried') \in Nat
           /\ Len(tried') <= Calls(First(group)) + retry + 1
           /\ Len(tried') <= Calls(i + 1)
<1> DEFINE x == [channel |-> c, in |-> i]
           n == Len(tried)
<1>1. /\ RetryTyped /\ CountsOK /\ GroupsDone /\ Retry!OncePerGroup
  BY DEF RetryInv
<1>2. /\ tried \in Seq([channel : Channels, in : Nat]) /\ x \in [channel : Channels, in : Nat]
      /\ i \in Nat \ {0} /\ x.channel = c /\ x.in = i
  BY <1>1, GroupsFacts DEF RetryTyped
<1> HIDE DEF x
<1>3. /\ tried' \in Seq([channel : Channels, in : Nat])
      /\ n \in Nat /\ Len(tried') = n + 1 /\ DOMAIN tried = 1 .. n /\ DOMAIN tried' = 1 .. n + 1
      /\ tried'[n + 1] = x /\ \A k \in 1 .. n : tried'[k] = tried[k]
  <2>1. tried' = Append(tried, x)
    BY DEF x
  <2> QED
    BY <1>2, <2>1
<1>4. /\ Retry!Groups' = Retry!Groups /\ Retry!CrossGroup' = Retry!CrossGroup
  BY SameToken
<1>5. RetryTyped'
  BY <1>1, <1>3 DEF RetryTyped
<1>6. /\ n <= Calls(First(group)) + retry /\ retry \in 0 .. RetryTimes
      /\ First(group) \in Nat \ {0} /\ First(group') \in Nat
      /\ First(group) <= First(group') /\ i <= First(group')
  BY <1>2, NextCall
<1>7. \A k \in 1 .. n : tried[k].in \in Nat /\ tried[k].in <= First(group)
  <2> SUFFICES ASSUME NEW k \in 1 .. n
               PROVE  tried[k].in \in Nat /\ tried[k].in <= First(group)
    OBVIOUS
  <2>1. k \in DOMAIN tried /\ tried[k] \in [channel : Channels, in : Nat]
    BY <1>2, <1>3, ElementOfSeq
  <2> QED
    BY <1>1, <2>1 DEF GroupsDone
<1>8. GroupsDone'
  <2>1. \A k \in 1 .. n + 1 : tried'[k].in <= First(group')
    <3>1. ASSUME NEW k \in 1 .. n PROVE tried'[k].in <= First(group')
      BY <1>3, <1>6, <1>7
    <3>2. tried'[n + 1].in <= First(group')
      BY <1>2, <1>3, <1>6
    <3> QED
      BY <1>3, <3>1, <3>2
  <2>2. ASSUME NEW g \in DOMAIN Retry!Groups, g < First(group')
        PROVE  \/ Retry!Groups[g] \cap always = {}
               \/ \E k \in 1 .. n + 1 : tried'[k].channel \in Retry!Groups[g]
    <3>0. g \in Nat /\ always \subseteq on
      BY <1>1, GroupsFacts DEF RetryTyped
    <3>1. CASE g < First(group)
      <4>1. Retry!Groups[g] \cap always = {} \/ Served(g)
        BY <1>1, <3>1 DEF GroupsDone
      <4>2. Served(g) => \E k \in 1 .. n : tried[k].channel \in Retry!Groups[g]
        BY <1>3 DEF Served
      <4> QED
        BY <1>3, <4>1, <4>2
    <3>2. CASE First(group) <= g /\ g < i
      BY <3>0, <3>2
    <3>3. CASE g = i
      BY <1>2, <1>3, <3>3
    <3> QED
      BY <1>2, <1>6, <2>2, <3>0, <3>1, <3>2, <3>3, SMTT(30)
  <2>3. why # "none"
    BY <1>1 DEF GroupsDone
  <2> QED
    BY <1>3, <1>4, <2>1, <2>2, <2>3 DEF GroupsDone, Served
<1>9. n + 1 <= Calls(First(group)) + retry + 1 /\ n + 1 <= Calls(i + 1)
  <2>1. /\ Calls(First(group)) \in Int /\ Calls(First(group) + 1) = Calls(First(group)) + RetryTimes + 1
        /\ RetryTimes \in Nat /\ First(group) + 1 \in Nat /\ i + 1 \in Nat
        /\ First(group) + 1 <= i + 1
    <3>1. First(group) \in Nat /\ First(group) + 1 \in Nat /\ i + 1 \in Nat
          /\ First(group) + 1 <= i + 1
      BY <1>2, <1>6
    <3> QED
      BY <3>1, CallsFacts
  <2>2. Calls(First(group) + 1) <= Calls(i + 1) /\ Calls(i + 1) \in Int
    BY <2>1, CallsFacts
  <2> HIDE DEF n
  <2> QED
    BY <1>3, <1>6, <2>1, <2>2, SMTT(30)
<1>10. Retry!OncePerGroup'
  <2>1. n + 1 <= (RetryTimes + 1) * Len(Retry!Groups)
    <3>1. /\ Len(Retry!Groups) \in Nat /\ i + 1 \in Nat /\ Len(Retry!Groups) + 1 \in Nat
          /\ i + 1 <= Len(Retry!Groups) + 1
      BY <1>2, GroupsFacts
    <3>2. Calls(i + 1) <= Calls(Len(Retry!Groups) + 1)
          /\ Calls(i + 1) \in Int /\ Calls(Len(Retry!Groups) + 1) \in Int
      BY <3>1, CallsFacts
    <3>3. Calls(Len(Retry!Groups) + 1) = (RetryTimes + 1) * Len(Retry!Groups)
      BY <3>1, CallsFacts
    <3> HIDE DEF n
    <3> QED
      BY <1>3, <1>9, <3>2, <3>3
  <2>2. ASSUME NEW a \in 1 .. n + 1, NEW b \in 1 .. n + 1, a < b, tried'[a].in > 0
        PROVE  tried'[a].in <= tried'[b].in
    <3>1. a \in 1 .. n /\ tried'[a] = tried[a]
      BY <1>3, <2>2
    <3>2. CASE b = n + 1
      BY <1>2, <1>3, <1>6, <1>7, <3>1, <3>2
    <3>3. CASE b # n + 1
      <4>1. b \in 1 .. n /\ tried'[b] = tried[b]
        BY <1>3, <3>3
      <4> QED
        BY <1>1, <1>3, <2>2, <3>1, <4>1 DEF Retry!OncePerGroup
    <3> QED
      BY <3>2, <3>3
  <2> QED
    BY <1>3, <1>4, <2>1, <2>2 DEF Retry!OncePerGroup
<1>11. Retry!NoneMeansTried'
  BY <1>1 DEF GroupsDone, Retry!NoneMeansTried
<1> QED
  BY <1>3, <1>5, <1>8, <1>9, <1>10, <1>11

\* No channel is found, and the request ends.
LEMMA NoneKeeps ==
    ASSUME RetryInv, stage \in {"distribute", "select"},
           \A g \in DOMAIN Retry!Groups : g >= First(group) => Retry!Groups[g] \cap on = {},
           stage' = "ended", why' = "none",
           UNCHANGED <<token, on, always, flips, retry, reset, group, tried>>
    PROVE  RetryInv'
<1>1. /\ RetryTyped /\ CountsOK /\ GroupsDone /\ Retry!OncePerGroup
  BY DEF RetryInv
<1>2. /\ Retry!Groups' = Retry!Groups /\ Retry!CrossGroup' = Retry!CrossGroup
  BY SameToken
<1>3. /\ Len(Retry!Groups) \in Nat \ {0} /\ DOMAIN Retry!Groups = 1 .. Len(Retry!Groups)
      /\ First(group) \in Nat /\ always \subseteq on /\ group \in Nat
  BY <1>1, GroupsFacts DEF RetryTyped, First
<1>4. RetryTyped'
  BY <1>1 DEF RetryTyped
<1>5. CountsOK'
  BY <1>1, <1>2 DEF CountsOK
<1>6. GroupsDone'
  BY <1>1, <1>2 DEF GroupsDone, Served
<1>7. Retry!OncePerGroup'
  BY <1>1, <1>2 DEF Retry!OncePerGroup
<1>8. ASSUME Retry!CrossGroup, NEW g \in DOMAIN Retry!Groups, Retry!Groups[g] \cap always # {}
      PROVE  \E k \in DOMAIN tried : tried[k].channel \in Retry!Groups[g]
  <2>1. g < First(group)
    BY <1>3, <1>8
  <2> QED
    BY <1>1, <1>8, <2>1 DEF GroupsDone, Served
<1>9. ASSUME ~Retry!CrossGroup
      PROVE  Retry!Groups[Len(Retry!Groups)] \cap always = {}
  <2>1. First(group) <= Len(Retry!Groups)
    BY <1>1, <1>3, <1>9 DEF CountsOK, First
  <2> QED
    BY <1>3, <2>1
<1>10. Retry!NoneMeansTried'
  BY <1>2, <1>8, <1>9 DEF Retry!NoneMeansTried
<1> QED
  BY <1>4, <1>5, <1>6, <1>7, <1>10 DEF RetryInv

\* The first call.
LEMMA DistributeKeeps == RetryInv /\ Retry!Distribute => RetryInv'
<1> SUFFICES ASSUME RetryInv, Retry!Distribute PROVE RetryInv'
  OBVIOUS
<1> DEFINE selections == Retry!CacheGetRandomSatisfiedChannel(0, FALSE)
<1>1. /\ stage = "distribute"
      /\ \/ /\ selections = {} /\ stage' = "ended" /\ why' = "none"
            /\ UNCHANGED <<group, tried>>
         \/ \E s \in selections :
              /\ group' = s.group
              /\ tried' = <<[channel |-> s.channel, in |-> s.in]>>
              /\ stage' = "call" /\ why' = why
      /\ UNCHANGED <<token, on, always, flips, retry, reset>>
  BY DEF Retry!Distribute, Retry!End
<1>2. /\ RetryTyped /\ CountsOK /\ tried = <<>> /\ group = 0 /\ retry = 0 /\ ~reset
      /\ First(group) = 1 /\ reset \in BOOLEAN
  BY <1>1 DEF RetryInv, CountsOK, RetryTyped, First
<1>3. \A z : Append(<<>>, z) = <<z>>
  OBVIOUS
<1>4. /\ Len(Retry!Groups) \in Nat \ {0} /\ DOMAIN Retry!Groups = 1 .. Len(Retry!Groups)
      /\ ~Retry!Auto => Len(Retry!Groups) = 1
      /\ Retry!Groups' = Retry!Groups /\ Retry!CrossGroup' = Retry!CrossGroup
      /\ RetryTimes \in Nat /\ Calls(1) = 0
  BY <1>1, GroupsFacts, SameToken, CallsFacts
<1>5. CASE Retry!Auto
  <2>0. selections = Retry!AutoSelections(0, FALSE)
    BY <1>5 DEF Retry!CacheGetRandomSatisfiedChannel
  <2>1. CASE selections = {} /\ stage' = "ended" /\ why' = "none" /\ UNCHANGED <<group, tried>>
    <3>1. \A g \in DOMAIN Retry!Groups : g >= First(group) => Retry!Groups[g] \cap on = {}
      BY <1>2, <2>0, <2>1, AutoSearch
    <3> HIDE DEF selections
    <3> QED
      BY <1>1, <2>1, <3>1, NoneKeeps
  <2>2. ASSUME NEW s \in selections, group' = s.group, stage' = "call", why' = why,
               tried' = <<[channel |-> s.channel, in |-> s.in]>>
        PROVE  RetryInv'
    <3>1. AutoChoice(s, 0, FALSE)
      BY <1>2, <2>0, <2>2, AutoSearch
    <3>2. PICK i \in DOMAIN Retry!Groups, n \in Nat :
            /\ i >= First(group)
            /\ \A g \in DOMAIN Retry!Groups :
                 First(group) <= g /\ g < i => Retry!Groups[g] \cap on = {}
            /\ s.in = i /\ s.channel \in Retry!Groups[i] /\ s.channel \in Channels
            /\ Retry!UsedUp(n) => s.group = i + 1
            /\ ~Retry!UsedUp(n) => s.group = i
      BY <3>1 DEF AutoChoice
    <3>3. i \in Nat \ {0} /\ i <= Len(Retry!Groups)
      BY <1>4
    <3>4. group' \in Nat /\ First(group') = group' /\ (group' = i \/ group' = i + 1)
      BY <2>2, <3>2, <3>3 DEF First
    <3>5. tried' = Append(tried, [channel |-> s.channel, in |-> i])
      BY <1>2, <1>3, <2>2, <3>2
    <3> HIDE DEF selections
    <3>6. /\ RetryTyped' /\ GroupsDone' /\ Retry!OncePerGroup' /\ Retry!NoneMeansTried'
          /\ Len(tried') \in Nat /\ Len(tried') <= Calls(First(group)) + retry + 1
      BY <1>1, <1>2, <2>2, <3>2, <3>4, <3>5, TryKeeps
    <3>7. CountsOK'
      <4>1. Len(tried') <= Calls(First(group')) + retry' + 1
        <5>1. Calls(1) <= Calls(group') /\ Calls(group') \in Int
          BY <3>3, <3>4, CallsFacts
        <5> QED
          BY <1>1, <1>2, <1>4, <3>4, <3>6, <5>1
      <4>2. ~Retry!CrossGroup => group' <= Len(Retry!Groups)
        BY <2>2, <3>2, <3>3 DEF Retry!UsedUp
      <4> QED
        BY <1>1, <1>2, <1>4, <2>2, <4>1, <4>2 DEF CountsOK
    <3> QED
      BY <3>6, <3>7 DEF RetryInv
  <2> QED
    BY <1>1, <2>1, <2>2
<1>6. CASE ~Retry!Auto
  <2>0. selections = Retry!PlainSelections(0, FALSE)
    BY <1>6 DEF Retry!CacheGetRandomSatisfiedChannel
  <2>1. CASE selections = {} /\ stage' = "ended" /\ why' = "none" /\ UNCHANGED <<group, tried>>
    <3>1. Retry!Groups[1] \cap on = {}
      BY <1>2, <1>6, <2>0, <2>1, PlainSearch
    <3>2. \A g \in DOMAIN Retry!Groups : g >= First(group) => Retry!Groups[g] \cap on = {}
      BY <1>4, <1>6, <3>1
    <3> HIDE DEF selections
    <3> QED
      BY <1>1, <2>1, <3>2, NoneKeeps
  <2>2. ASSUME NEW s \in selections, group' = s.group, stage' = "call", why' = why,
               tried' = <<[channel |-> s.channel, in |-> s.in]>>
        PROVE  RetryInv'
    <3>2. /\ s.in = 1 /\ s.channel \in Retry!Groups[1] /\ s.channel \in Channels
          /\ s.group = group
      <4>1. s \in Retry!PlainSelections(0, FALSE)
        BY <2>0
      <4> HIDE DEF selections
      <4> QED
        BY <1>2, <1>6, <4>1, PlainSearch
    <3>4. group' = 0 /\ First(group') = 1 /\ 1 \in DOMAIN Retry!Groups
      BY <1>2, <1>4, <1>6, <2>2, <3>2 DEF First
    <3>5. tried' = Append(tried, [channel |-> s.channel, in |-> 1])
      BY <1>2, <1>3, <2>2, <3>2
    <3>a. \A g \in DOMAIN Retry!Groups : ~(First(group) <= g /\ g < 1)
      BY <1>4
    <3> HIDE DEF selections
    <3>6. /\ RetryTyped' /\ GroupsDone' /\ Retry!OncePerGroup' /\ Retry!NoneMeansTried'
          /\ Len(tried') \in Nat /\ Len(tried') <= Calls(First(group)) + retry + 1
      BY <1>1, <1>2, <2>2, <3>2, <3>4, <3>5, <3>a, TryKeeps
    <3>7. CountsOK'
      BY <1>1, <1>2, <1>4, <2>2, <3>4, <3>6 DEF CountsOK
    <3> QED
      BY <3>6, <3>7 DEF RetryInv
  <2> QED
    BY <1>1, <2>1, <2>2
<1> QED
  BY <1>5, <1>6

LEMMA AffinityKeeps == RetryInv /\ Retry!DistributeByAffinity => RetryInv'
<1> SUFFICES ASSUME RetryInv, Retry!DistributeByAffinity PROVE RetryInv'
  OBVIOUS
<1>1. /\ stage = "distribute" /\ stage' = "call"
      /\ UNCHANGED <<token, on, always, flips, retry, reset, group, why>>
  BY DEF Retry!DistributeByAffinity
<1>0. PICK i \in DOMAIN Retry!Groups :
        \E c \in Retry!Candidates(i) : tried' = <<[channel |-> c, in |-> 0]>>
  BY DEF Retry!DistributeByAffinity
<1>2. PICK c \in Retry!Candidates(i) : tried' = <<[channel |-> c, in |-> 0]>>
  BY <1>0
<1>3. /\ RetryTyped /\ CountsOK /\ group = 0 /\ retry = 0 /\ ~reset /\ First(group) = 1
      /\ GroupsDone /\ c \in Channels
  BY <1>1, <1>2, GroupsFacts DEF RetryInv, CountsOK, RetryTyped, First, GroupsDone, Retry!Candidates
<1>4. /\ Len(Retry!Groups) \in Nat \ {0} /\ DOMAIN Retry!Groups = 1 .. Len(Retry!Groups)
      /\ Retry!Groups' = Retry!Groups /\ Retry!CrossGroup' = Retry!CrossGroup
      /\ RetryTimes \in Nat /\ Calls(1) = 0
      /\ Calls(1 + 1) <= Calls(Len(Retry!Groups) + 1)
      /\ Calls(Len(Retry!Groups) + 1) = (RetryTimes + 1) * Len(Retry!Groups)
      /\ Calls(1 + 1) = Calls(1) + RetryTimes + 1
  <2>1. Len(Retry!Groups) \in Nat \ {0} /\ DOMAIN Retry!Groups = 1 .. Len(Retry!Groups)
    BY GroupsFacts
  <2>2. Len(Retry!Groups) + 1 \in Nat /\ 1 + 1 <= Len(Retry!Groups) + 1 /\ 1 + 1 \in Nat
    BY <2>1
  <2> QED
    BY <1>1, <2>1, <2>2, SameToken, CallsFacts
<1>5. /\ tried' \in Seq([channel : Channels, in : Nat]) /\ Len(tried') = 1
      /\ DOMAIN tried' = 1 .. 1 /\ tried'[1].in = 0
  <2>1. [channel |-> c, in |-> 0] \in [channel : Channels, in : Nat]
    BY <1>3
  <2>2. tried' \in Seq([channel : Channels, in : Nat]) /\ Len(tried') = 1
        /\ tried'[1] = [channel |-> c, in |-> 0]
    BY <1>2, <2>1
  <2> QED
    BY <2>2
<1>6. RetryTyped'
  BY <1>1, <1>3, <1>5 DEF RetryTyped
<1>7. CountsOK'
  BY <1>1, <1>3, <1>4, <1>5 DEF CountsOK
<1>8. GroupsDone'
  BY <1>1, <1>3, <1>4, <1>5 DEF GroupsDone
<1>9. Retry!OncePerGroup'
  <2>1. 1 <= (RetryTimes + 1) * Len(Retry!Groups)
    BY <1>4
  <2> QED
    BY <1>4, <1>5, <2>1 DEF Retry!OncePerGroup
<1>10. Retry!NoneMeansTried'
  BY <1>1, <1>3 DEF GroupsDone, Retry!NoneMeansTried
<1> QED
  BY <1>6, <1>7, <1>8, <1>9, <1>10 DEF RetryInv

\* A step that leaves the calls and the channels alone.
LEMMA CountKeeps ==
    ASSUME RetryInv, stage = "call", retry' \in Nat, reset' \in BOOLEAN,
           \/ /\ stage' = "select" /\ why' = why /\ reset' = FALSE /\ retry' <= RetryTimes
              /\ retry' = (IF reset THEN retry ELSE retry + 1)
           \/ stage' = "ended" /\ why' # "none",
           UNCHANGED <<token, on, always, flips, group, tried>>
    PROVE  RetryInv'
<1>1. /\ RetryTyped /\ CountsOK /\ GroupsDone /\ Retry!OncePerGroup
  BY DEF RetryInv
<1>2. /\ Retry!Groups' = Retry!Groups /\ Retry!CrossGroup' = Retry!CrossGroup
  BY SameToken
<1>3. RetryTyped'
  BY <1>1 DEF RetryTyped
<1>4. CountsOK'
  <2>1. First(group) \in Nat /\ retry \in Nat
    BY <1>1 DEF RetryTyped, First
  <2>2. Calls(First(group)) \in Int
    BY <2>1, CallsFacts
  <2>3. stage' = "select" => Len(tried) <= Calls(First(group)) + retry'
    BY <1>1, <2>1, <2>2 DEF CountsOK
  <2> QED
    BY <1>1, <1>2, <2>3 DEF CountsOK
<1>5. GroupsDone'
  BY <1>1, <1>2 DEF GroupsDone, Served
<1>6. Retry!OncePerGroup'
  BY <1>1, <1>2 DEF Retry!OncePerGroup
<1>7. Retry!NoneMeansTried'
  BY <1>1 DEF GroupsDone, Retry!NoneMeansTried
<1> QED
  BY <1>3, <1>4, <1>5, <1>6, <1>7 DEF RetryInv

LEMMA AnswerKeeps == RetryInv /\ Retry!Answer => RetryInv'
<1> SUFFICES ASSUME RetryInv, Retry!Answer PROVE RetryInv'
  OBVIOUS
<1>1. /\ stage = "call" /\ stage' = "ended" /\ why' # "none"
      /\ UNCHANGED <<token, on, always, flips, retry, reset, group, tried>>
  BY DEF Retry!Answer, Retry!End
<1>2. retry' \in Nat /\ reset' \in BOOLEAN
  BY <1>1 DEF RetryInv, RetryTyped
<1> QED
  BY <1>1, <1>2, CountKeeps

LEMMA FailKeeps == RetryInv /\ Retry!Fail => RetryInv'
<1> SUFFICES ASSUME RetryInv, Retry!Fail PROVE RetryInv'
  OBVIOUS
<1>1. /\ stage = "call" /\ UNCHANGED <<token, on, always, flips, group, tried>>
      /\ \/ stage' = "ended" /\ why' = "fatal" /\ UNCHANGED <<retry, reset>>
         \/ /\ retry' = (IF reset THEN retry ELSE retry + 1) /\ reset' = FALSE
            /\ IF retry' <= RetryTimes THEN stage' = "select" /\ why' = why
               ELSE stage' = "ended" /\ why' = "retries"
  BY DEF Retry!Fail, Retry!End, Retry!IncreaseRetry
<1>2. retry' \in Nat /\ reset' \in BOOLEAN
  <2>1. retry \in Nat /\ reset \in BOOLEAN
    BY DEF RetryInv, RetryTyped
  <2>2. retry' = retry \/ retry' = retry + 1
    BY <1>1
  <2>3. reset' = reset \/ reset' = FALSE
    BY <1>1
  <2>4. retry' \in Nat
    BY <2>1, <2>2
  <2>5. reset' \in BOOLEAN
    BY <2>1, <2>3
  <2> QED
    BY <2>4, <2>5
<1> QED
  BY <1>1, <1>2, CountKeeps

\* The next call.
LEMMA ReselectKeeps == RetryInv /\ Retry!Reselect => RetryInv'
<1> SUFFICES ASSUME RetryInv, Retry!Reselect PROVE RetryInv'
  OBVIOUS
<1> DEFINE selections == Retry!CacheGetRandomSatisfiedChannel(retry, reset)
<1>1. /\ stage = "select"
      /\ \/ /\ selections = {} /\ stage' = "ended" /\ why' = "none"
            /\ UNCHANGED <<retry, reset, group, tried>>
         \/ \E s \in selections :
              /\ retry' = s.retry /\ reset' = s.reset /\ group' = s.group
              /\ tried' = Append(tried, [channel |-> s.channel, in |-> s.in])
              /\ stage' = "call" /\ why' = why
      /\ UNCHANGED <<token, on, always, flips>>
  BY DEF Retry!Reselect, Retry!End
<1>2. /\ RetryTyped /\ CountsOK /\ ~reset /\ reset = FALSE /\ retry \in Nat /\ group \in Nat
      /\ retry \in 0 .. RetryTimes /\ First(group) \in Nat \ {0}
      /\ Len(tried) <= Calls(First(group)) + retry
  BY <1>1, NextCall DEF RetryInv, CountsOK, RetryTyped
<1>4. /\ Len(Retry!Groups) \in Nat \ {0} /\ DOMAIN Retry!Groups = 1 .. Len(Retry!Groups)
      /\ ~Retry!Auto => Len(Retry!Groups) = 1
      /\ Retry!Groups' = Retry!Groups /\ Retry!CrossGroup' = Retry!CrossGroup
      /\ RetryTimes \in Nat
  BY <1>1, GroupsFacts, SameToken, RetryConstantsOK
<1>5. CASE Retry!Auto
  <2>0. selections = Retry!AutoSelections(retry, reset)
    BY <1>5 DEF Retry!CacheGetRandomSatisfiedChannel
  <2>1. CASE selections = {} /\ stage' = "ended" /\ why' = "none"
             /\ UNCHANGED <<retry, reset, group, tried>>
    <3>1. \A g \in DOMAIN Retry!Groups : g >= First(group) => Retry!Groups[g] \cap on = {}
      BY <1>2, <2>0, <2>1, AutoSearch
    <3> HIDE DEF selections
    <3> QED
      BY <1>1, <2>1, <3>1, NoneKeeps
  <2>2. ASSUME NEW s \in selections, group' = s.group, stage' = "call", why' = why,
               retry' = s.retry, reset' = s.reset,
               tried' = Append(tried, [channel |-> s.channel, in |-> s.in])
        PROVE  RetryInv'
    <3>1. AutoChoice(s, retry, reset)
      BY <1>2, <2>0, <2>2, AutoSearch
    <3>2. PICK i \in DOMAIN Retry!Groups, n \in Nat :
            /\ i >= First(group)
            /\ \A g \in DOMAIN Retry!Groups :
                 First(group) <= g /\ g < i => Retry!Groups[g] \cap on = {}
            /\ s.in = i /\ s.channel \in Retry!Groups[i] /\ s.channel \in Channels
            /\ i > First(group) => n = 0
            /\ i = First(group) => n = retry
            /\ Retry!UsedUp(n) => s.group = i + 1 /\ s.retry = 0 /\ s.reset = TRUE
            /\ ~Retry!UsedUp(n) => s.group = i /\ s.retry = n /\ s.reset = reset
      BY <3>1 DEF AutoChoice
    <3>3. i \in Nat \ {0} /\ i <= Len(Retry!Groups)
      BY <1>4
    <3>4. /\ group' \in Nat /\ First(group') = group' /\ (group' = i \/ group' = i + 1)
          /\ retry' \in Nat /\ reset' \in BOOLEAN
      <4>1. \/ s.group = i + 1 /\ s.retry = 0 /\ s.reset = TRUE
            \/ s.group = i /\ s.retry = n /\ s.reset = FALSE
        BY <1>2, <3>2
      <4>2. group' \in Nat \ {0} /\ (group' = i \/ group' = i + 1)
        BY <2>2, <3>3, <4>1
      <4>3. retry' \in Nat
        BY <2>2, <4>1
      <4>4. reset' \in BOOLEAN
        BY <2>2, <4>1
      <4> QED
        BY <4>2, <4>3, <4>4 DEF First
    <3>5. tried' = Append(tried, [channel |-> s.channel, in |-> i])
      BY <2>2, <3>2
    <3> HIDE DEF selections
    <3>6. /\ RetryTyped' /\ GroupsDone' /\ Retry!OncePerGroup' /\ Retry!NoneMeansTried'
          /\ Len(tried') \in Nat /\ Len(tried') <= Calls(First(group)) + retry + 1
          /\ Len(tried') <= Calls(i + 1)
      BY <1>1, <1>2, <2>2, <3>2, <3>4, <3>5, TryKeeps
    <3>7. CountsOK'
      <4>1. CASE Retry!UsedUp(n)
        <5>1. group' = i + 1 /\ retry' = 0 /\ reset' = TRUE /\ Retry!CrossGroup
          BY <2>2, <3>2, <4>1 DEF Retry!UsedUp
        <5>2. Calls(i + 1) \in Int /\ i + 1 \in Nat
          <6>1. i + 1 \in Nat
            BY <3>3
          <6> QED
            BY <6>1, CallsFacts
        <5>3. Len(tried') <= Calls(First(group')) + retry'
          BY <3>4, <3>6, <5>1, <5>2
        <5> QED
          BY <1>4, <2>2, <5>1, <5>3 DEF CountsOK
      <4>2. CASE ~Retry!UsedUp(n)
        <5>1. group' = i /\ retry' = n /\ reset' = FALSE
          BY <1>2, <2>2, <3>2, <4>2
        <5>2. Len(tried') <= Calls(First(group')) + retry' + 1
          <6>1. CASE i = First(group)
            BY <3>2, <3>4, <3>6, <5>1, <6>1
          <6>2. CASE i # First(group)
            <7>1. First(group) + 1 <= i /\ First(group) + 1 \in Nat /\ First(group) \in Nat /\ n = 0
              BY <1>2, <3>2, <3>3, <6>2
            <7>2. /\ Calls(First(group) + 1) <= Calls(i) /\ Calls(i) \in Int
                  /\ Calls(First(group)) \in Int
                  /\ Calls(First(group) + 1) = Calls(First(group)) + RetryTimes + 1
              BY <3>3, <7>1, CallsFacts
            <7> QED
              BY <1>2, <1>4, <3>4, <3>6, <5>1, <7>1, <7>2, SMTT(30)
          <6> QED
            BY <6>1, <6>2
        <5>3. retry' <= RetryTimes
          BY <1>2, <1>4, <3>2, <3>3, <5>1
        <5> QED
          BY <1>4, <2>2, <3>3, <5>1, <5>2, <5>3 DEF CountsOK
      <4> QED
        BY <4>1, <4>2
    <3> QED
      BY <3>6, <3>7 DEF RetryInv
  <2> QED
    BY <1>1, <2>1, <2>2
<1>6. CASE ~Retry!Auto
  <2>0. selections = Retry!PlainSelections(retry, reset)
    BY <1>6 DEF Retry!CacheGetRandomSatisfiedChannel
  <2>a. group <= 1 /\ First(group) = 1
    BY <1>2, <1>4, <1>6 DEF CountsOK, First, Retry!Auto, Retry!CrossGroup
  <2>1. CASE selections = {} /\ stage' = "ended" /\ why' = "none"
             /\ UNCHANGED <<retry, reset, group, tried>>
    <3>1. Retry!Groups[1] \cap on = {}
      BY <1>2, <1>6, <2>0, <2>1, PlainSearch
    <3>2. \A g \in DOMAIN Retry!Groups : g >= First(group) => Retry!Groups[g] \cap on = {}
      BY <1>4, <1>6, <3>1
    <3> HIDE DEF selections
    <3> QED
      BY <1>1, <2>1, <3>2, NoneKeeps
  <2>2. ASSUME NEW s \in selections, group' = s.group, stage' = "call", why' = why,
               retry' = s.retry, reset' = s.reset,
               tried' = Append(tried, [channel |-> s.channel, in |-> s.in])
        PROVE  RetryInv'
    <3>2. /\ s.in = 1 /\ s.channel \in Retry!Groups[1] /\ s.channel \in Channels
          /\ s.group = group /\ s.retry = retry /\ s.reset = reset
      <4>1. s \in Retry!PlainSelections(retry, reset)
        BY <2>0
      <4> HIDE DEF selections
      <4> QED
        BY <1>2, <1>6, <4>1, PlainSearch
    <3>4. group' = group /\ First(group') = 1 /\ 1 \in DOMAIN Retry!Groups
          /\ retry' = retry /\ reset' = reset
      BY <1>4, <1>6, <2>2, <2>a, <3>2 DEF First
    <3>5. tried' = Append(tried, [channel |-> s.channel, in |-> 1])
      BY <2>2, <3>2
    <3>a. 1 >= First(group) /\ \A g \in DOMAIN Retry!Groups : ~(First(group) <= g /\ g < 1)
      BY <1>4, <2>a
    <3> HIDE DEF selections
    <3>6. /\ RetryTyped' /\ GroupsDone' /\ Retry!OncePerGroup' /\ Retry!NoneMeansTried'
          /\ Len(tried') \in Nat /\ Len(tried') <= Calls(First(group)) + retry + 1
      BY <1>1, <1>2, <2>2, <3>2, <3>4, <3>5, <3>a, TryKeeps
    <3>7. CountsOK'
      BY <1>1, <1>2, <1>4, <2>2, <2>a, <3>4, <3>6 DEF CountsOK
    <3> QED
      BY <3>6, <3>7 DEF RetryInv
  <2> QED
    BY <1>1, <2>1, <2>2
<1> QED
  BY <1>5, <1>6

LEMMA FlipKeeps == RetryInv /\ Retry!Flip => RetryInv'
<1> SUFFICES ASSUME RetryInv, Retry!Flip PROVE RetryInv'
  OBVIOUS
<1>1. /\ stage # "ended" /\ UNCHANGED <<token, retry, reset, group, tried, stage, why>>
      /\ on' \subseteq on \cup Channels
  BY DEF Retry!Flip
<1>2. PICK c \in Channels : /\ on' = IF c \in on THEN on \ {c} ELSE on \cup {c}
                            /\ always' = always \ {c}
  BY DEF Retry!Flip
<1>3. /\ RetryTyped /\ CountsOK /\ GroupsDone /\ Retry!OncePerGroup
  BY DEF RetryInv
<1>4. /\ Retry!Groups' = Retry!Groups /\ Retry!CrossGroup' = Retry!CrossGroup
  BY <1>1, SameToken
<1>5. RetryTyped'
  BY <1>1, <1>2, <1>3 DEF RetryTyped
<1>6. CountsOK'
  BY <1>1, <1>3, <1>4 DEF CountsOK
<1>7. GroupsDone'
  BY <1>1, <1>2, <1>3, <1>4 DEF GroupsDone, Served
<1>8. Retry!OncePerGroup'
  BY <1>1, <1>3, <1>4 DEF Retry!OncePerGroup
<1>9. Retry!NoneMeansTried'
  BY <1>1, <1>3 DEF GroupsDone, Retry!NoneMeansTried
<1> QED
  BY <1>5, <1>6, <1>7, <1>8, <1>9 DEF RetryInv

LEMMA RetryInitInv == Retry!Init => RetryInv
<1> SUFFICES ASSUME Retry!Init PROVE RetryInv
  OBVIOUS
<1>1. /\ token \in Retry!Tokens /\ on \subseteq Channels /\ always = on /\ retry = 0
      /\ reset = FALSE /\ group = 0 /\ tried = <<>> /\ stage = "distribute" /\ why = "running"
  BY DEF Retry!Init
<1>2. /\ Len(Retry!Groups) \in Nat \ {0} /\ DOMAIN Retry!Groups = 1 .. Len(Retry!Groups)
      /\ RetryTimes \in Nat
  BY GroupsFacts, RetryConstantsOK
<1>3. RetryTyped
  <2>1. tried \in Seq([channel : Channels, in : Nat])
    BY <1>1
  <2>2. retry \in Nat /\ group \in Nat
    BY <1>1
  <2>3. reset \in BOOLEAN /\ always \subseteq on
    BY <1>1
  <2>4. stage \in {"distribute", "call", "select", "ended"}
    BY <1>1
  <2> QED
    BY <1>1, <2>1, <2>2, <2>3, <2>4 DEF RetryTyped
<1>4. CountsOK
  BY <1>1, <1>2 DEF CountsOK
<1>5. GroupsDone
  BY <1>1, <1>2 DEF GroupsDone, First
<1>6. Retry!OncePerGroup
  <2>1. 0 <= (RetryTimes + 1) * Len(Retry!Groups)
    BY <1>2
  <2>2. Len(tried) = 0 /\ DOMAIN tried = {}
    BY <1>1
  <2> QED
    BY <2>1, <2>2 DEF Retry!OncePerGroup
<1>7. Retry!NoneMeansTried
  BY <1>1 DEF Retry!NoneMeansTried
<1> QED
  BY <1>3, <1>4, <1>5, <1>6, <1>7 DEF RetryInv

LEMMA RetryNext ==
    ASSUME RetryInv, Retry!Next \/ UNCHANGED retryVars
    PROVE  RetryInv'
<1>1. CASE UNCHANGED retryVars
  <2>1. UNCHANGED <<token, on, always, flips, retry, reset, group, tried, stage, why>>
    BY <1>1 DEF retryVars
  <2>2. /\ Retry!Groups' = Retry!Groups /\ Retry!CrossGroup' = Retry!CrossGroup
    BY <2>1, SameToken
  <2> QED
    BY <2>1, <2>2 DEF RetryInv, RetryTyped, CountsOK, GroupsDone, Served,
                      Retry!OncePerGroup, Retry!NoneMeansTried
<1> QED
  BY <1>1, DistributeKeeps, AffinityKeeps, AnswerKeeps, FailKeeps, ReselectKeeps, FlipKeeps
     DEF Retry!Next, Retry!Step


\* Whatever happens to the channels meanwhile, a request makes at most
\* RetryTimes + 1 calls per group, never goes back to an earlier group, and is
\* told that there is no channel only after it has tried every group that had
\* one all the time (CacheGetRandomSatisfiedChannel, RetryParam).
THEOREM ChannelsAreTried == MCSpec => []RetryIsSound
<1>1. MCInit => RetryInv
  BY RetryInitInv DEF MCInit
<1>2. RetryInv /\ [MCNext]_<<part, vars, retryVars>> => RetryInv'
  <2> SUFFICES ASSUME RetryInv, [MCNext]_<<part, vars, retryVars>> PROVE RetryInv'
    OBVIOUS
  <2>1. Retry!Next \/ UNCHANGED retryVars
    BY DEF MCNext
  <2> QED
    BY <2>1, RetryNext
<1>3. RetryInv => RetryIsSound
  BY DEF RetryInv, RetryIsSound
<1> QED
  BY <1>1, <1>2, <1>3, PTL DEF MCSpec

-----------------------------------------------------------------------------
(* The status of a channel: the inductive invariant.                       *)

\* No operator edits the key list, which takes no lock.
NoEdits == ManageOps \cap {"append", "replace"} = {}

\* A channel object, or the row.
Object(ch) ==
    /\ DOMAIN ch = {"status", "keys", "list", "since", "prio", "cursor"}
    /\ ch.keys \in Seq(AllKeys) /\ ch.keys # <<>> /\ IsInjective(ch.keys)
    /\ \A i \in DOMAIN ch.since : ch.since[i] \in Nat

\* Where an actor has an object that nobody else can reach ...
Private == {"manage", "reload", "abilities", "saveRow", "saveBoth", "swap"}

\* ... or one that others may share, and where it has the lock.
Holding == Private \cup {"pick", "probe"}
Critical == {"cached", "unroute", "load", "saveRow", "saveBoth"}

StatusTyped ==
    /\ config \in Configs
    /\ DOMAIN pc = Actors /\ DOMAIN at = Actors
    /\ DOMAIN key = Actors /\ DOMAIN goal = Actors
    /\ DOMAIN heap = Slots
    /\ MemoryCache => cur \in Slots
    /\ \A a \in Actors : at[a] \in Slots \cup {NoOne}
    /\ clock \in Nat

\* Every object somebody can reach is whole, and what is private is apart.
Places ==
    /\ \A a \in Actors : pc[a] \in Holding => at[a] \in Slots
    /\ \A a \in Actors : pc[a] \in Private =>
         at[a] # cur /\ \A b \in Actors \ {a} : at[b] # at[a]
    /\ Object(row)
    /\ MemoryCache => Object(heap[cur])
    /\ \A a \in Actors : at[a] \in Slots => Object(heap[at[a]])

Locked ==
    /\ \A a \in Actors : pc[a] \in Critical => lock = a
    /\ \A a \in Actors \ {Manager} : pc[a] = "abilities" => lock = a
    /\ NoEdits /\ pc[Manager] \in {"reload", "abilities"} => lock = Manager
    /\ pc[Manager] = "manage" => goal[Manager] \in ManageOps

\* The routing map of the cache.
Routed ==
    /\ ~MemoryCache => /\ ~routable
                       /\ \A a \in Actors :
                            pc[a] \notin {"cached", "unroute", "refresh", "swap"}
    /\ routable => heap[cur].status = Enabled \/ \E a \in Actors : pc[a] = "unroute"

\* The abilities table.
AbleAsStored ==
    NoEdits =>
      /\ \/ ability = (row.status = Enabled)
         \/ pc[Manager] = "reload"
         \/ \E a \in Actors : pc[a] = "abilities"
      /\ \A a \in Actors \ {Manager} :
           pc[a] = "abilities" => (row.status = Enabled <=> goal[a] = Enabled)
      /\ pc[Manager] = "abilities" => heap[at[Manager]].status = row.status
      /\ \A a \in Actors : pc[a] = "saveRow" => heap[at[a]].status = row.status
      /\ \A a \in Actors :
           pc[a] = "saveBoth" => (heap[at[a]].status = Enabled <=> goal[a] = Enabled)

\* The statuses of a channel's keys, and its own, given the keys recorded.
Sound(ch, keys) ==
    /\ \A i \in DOMAIN ch.keys : ch.keys[i] \in keys => StatusOf(ch, i) # Enabled
    /\ \A i \in DOMAIN ch.keys : StatusOf(ch, i) = AutoDisabled => ch.keys[i] \in keys
    /\ MultiKey /\ ch.status = AutoDisabled => Usable(ch) = {}

\* The keys recorded once the actor has saved its object.
RecordedBy(a) == RecordedAfter(IF MultiKey THEN key[a] ELSE NoOne, goal[a])

RowSound ==
    Protected =>
      /\ pc[Manager] = "idle"
      /\ Sound(row, recorded)
      /\ \A a \in Actors : pc[a] \in {"saveRow", "saveBoth"} =>
           Sound(heap[at[a]], RecordedBy(a)) /\ heap[at[a]].keys = row.keys
      /\ goal[Admin] # AutoDisabled
      /\ \A a \in Actors \ {Admin} :
           pc[a] \in {"answer", "update", "cached", "unroute", "load"} => key[a] # NoOne

StatusInv ==
    StatusTyped /\ Places /\ Locked /\ Routed /\ AbleAsStored /\ RowSound


-----------------------------------------------------------------------------
(* Channel objects.                                                        *)

LEMMA ActorsApart ==
    /\ Prober \in Actors /\ Syncer \in Actors /\ Admin \in Actors /\ Manager \in Actors
    /\ Requests \subseteq Actors /\ NoOne \notin Actors /\ NoOne \notin Slots
    /\ Prober \notin Requests /\ Admin \notin Requests /\ Manager \notin Requests
    /\ Prober # Admin /\ Prober # Manager /\ Admin # Manager /\ Syncer # Manager
    /\ Syncer # Admin /\ Syncer # Prober /\ Syncer \notin Requests
<1> DEFINE s == <<Prober, Syncer, Admin, Manager>>
<1>1. /\ DOMAIN s = 1 .. 4 /\ s[1] = Prober /\ s[2] = Syncer /\ s[3] = Admin
      /\ s[4] = Manager
  OBVIOUS
<1>2. \A i, j \in 1 .. 4 : s[i] = s[j] => i = j
  BY <1>1, ConstantsOK DEF IsInjective
<1>3. /\ Prober # Admin /\ Prober # Manager /\ Admin # Manager /\ Syncer # Manager
      /\ Syncer # Admin /\ Syncer # Prober
  <2> HIDE DEF s
  <2>1. /\ s[1] # s[3] /\ s[1] # s[4] /\ s[3] # s[4] /\ s[2] # s[4] /\ s[2] # s[3]
        /\ s[2] # s[1]
    BY <1>2
  <2> QED
    BY <1>1, <2>1
<1> QED
  BY <1>3, ConstantsOK DEF Actors

\* What EXCEPT makes of a channel object.
LEMMA ObjectWithStatus ==
    ASSUME NEW ch, Object(ch), NEW st
    PROVE  LET new == [ch EXCEPT !.status = st]
           IN /\ Object(new) /\ new.status = st /\ new.keys = ch.keys /\ new.list = ch.list
              /\ new.since = ch.since /\ new.prio = ch.prio /\ new.cursor = ch.cursor
<1> DEFINE new == [ch EXCEPT !.status = st]
<1>1. /\ DOMAIN new = DOMAIN ch
      /\ new.status = st /\ new.keys = ch.keys /\ new.list = ch.list
      /\ new.since = ch.since /\ new.prio = ch.prio /\ new.cursor = ch.cursor
  BY DEF Object
<1> HIDE DEF new
<1>2. Object(new)
  BY <1>1 DEF Object
<1> QED
  BY <1>1, <1>2 DEF new

LEMMA ObjectWithCursor ==
    ASSUME NEW ch, Object(ch), NEW cu
    PROVE  LET new == [ch EXCEPT !.cursor = cu]
           IN /\ Object(new) /\ new.status = ch.status /\ new.keys = ch.keys
              /\ new.list = ch.list /\ new.since = ch.since /\ new.prio = ch.prio
<1> DEFINE new == [ch EXCEPT !.cursor = cu]
<1>1. /\ DOMAIN new = DOMAIN ch
      /\ new.status = ch.status /\ new.keys = ch.keys /\ new.list = ch.list
      /\ new.since = ch.since /\ new.prio = ch.prio
  BY DEF Object
<1> HIDE DEF new
<1>2. Object(new)
  BY <1>1 DEF Object
<1> QED
  BY <1>1, <1>2 DEF new

LEMMA ObjectWithInfo ==
    ASSUME NEW ch, NEW from, Object(ch), Object(from)
    PROVE  LET new == WithInfoOf(ch, from)
           IN /\ Object(new) /\ new.status = ch.status /\ new.keys = ch.keys
              /\ new.list = from.list
<1> DEFINE new == WithInfoOf(ch, from)
<1>1. /\ DOMAIN new = DOMAIN ch
      /\ new.status = ch.status /\ new.keys = ch.keys /\ new.list = from.list
      /\ new.since = from.since
  BY DEF Object, WithInfoOf
<1> HIDE DEF new
<1>2. Object(new)
  BY <1>1 DEF Object
<1> QED
  BY <1>1, <1>2 DEF new

\* No key is in the list twice.
LEMMA KeyIndex ==
    ASSUME NEW ch, Object(ch), NEW i \in DOMAIN ch.keys
    PROVE  IndexOfKey(ch, ch.keys[i]) = i
<1> DEFINE S == {j \in DOMAIN ch.keys : ch.keys[j] = ch.keys[i]}
<1>1. S = {i} /\ i \in Int
  BY DEF Object, IsInjective
<1>2. \A x \in S : (\A y \in S : x <= y) <=> x = i
  BY <1>1
<1>3. Min(S) = i
  <2> HIDE DEF S
  <2> QED
    BY <1>1, <1>2 DEF Min
<1> QED
  BY <1>3 DEF IndexOfKey

LEMMA KeyThere ==
    ASSUME NEW ch, Object(ch), NEW k \in ToSet(ch.keys)
    PROVE  IndexOfKey(ch, k) \in DOMAIN ch.keys /\ ch.keys[IndexOfKey(ch, k)] = k
<1>1. PICK i \in DOMAIN ch.keys : ch.keys[i] = k
  BY DEF ToSet
<1> QED
  BY <1>1, KeyIndex

LEMMA MarkedFacts ==
    ASSUME NEW ch, Object(ch), clock \in Nat, NEW i, NEW st
    PROVE  LET new == Marked(ch, i, st)
           IN /\ Object(new) /\ new.keys = ch.keys /\ new.status = ch.status
              /\ \A j : StatusOf(new, j) = (IF j = i THEN st ELSE StatusOf(ch, j))
<1> DEFINE new == Marked(ch, i, st)
<1>1. CASE st = Enabled
  <2> DEFINE ls == [j \in DOMAIN ch.list \ {i} |-> ch.list[j]]
             si == [j \in DOMAIN ch.since \ {i} |-> ch.since[j]]
  <2>1. new = [ch EXCEPT !.list = ls, !.since = si]
    BY <1>1 DEF Marked
  <2>2. \A j \in DOMAIN si : si[j] \in Nat
    BY DEF Object
  <2>3. /\ Object(new) /\ new.keys = ch.keys /\ new.status = ch.status /\ new.list = ls
    <3> HIDE DEF ls, si, new
    <3>1. /\ DOMAIN new = DOMAIN ch /\ new.keys = ch.keys /\ new.status = ch.status
          /\ new.list = ls /\ new.since = si
      BY <2>1 DEF Object
    <3> QED
      BY <2>2, <3>1 DEF Object
  <2>4. \A j : StatusOf(new, j) = (IF j = i THEN st ELSE StatusOf(ch, j))
    <3> HIDE DEF new
    <3> QED
      BY <1>1, <2>3 DEF StatusOf
  <2> QED
    BY <2>3, <2>4
<1>2. CASE st # Enabled /\ StatusOf(ch, i) = st
  BY <1>2 DEF Marked
<1>3. CASE st # Enabled /\ StatusOf(ch, i) # st
  <2> DEFINE ls == [j \in DOMAIN ch.list \cup {i} |-> IF j = i THEN st ELSE ch.list[j]]
             si == [j \in DOMAIN ch.since \cup {i} |-> IF j = i THEN clock ELSE ch.since[j]]
  <2>1. new = [ch EXCEPT !.list = ls, !.since = si]
    BY <1>3 DEF Marked
  <2>2. \A j \in DOMAIN si : si[j] \in Nat
    BY DEF Object
  <2>3. /\ Object(new) /\ new.keys = ch.keys /\ new.status = ch.status /\ new.list = ls
    <3> HIDE DEF ls, si, new
    <3>1. /\ DOMAIN new = DOMAIN ch /\ new.keys = ch.keys /\ new.status = ch.status
          /\ new.list = ls /\ new.since = si
      BY <2>1 DEF Object
    <3> QED
      BY <2>2, <3>1 DEF Object
  <2>4. \A j : StatusOf(new, j) = (IF j = i THEN st ELSE StatusOf(ch, j))
    <3> HIDE DEF new
    <3> QED
      BY <1>3, <2>3 DEF StatusOf
  <2> QED
    BY <2>3, <2>4
<1> QED
  BY <1>1, <1>2, <1>3

\* What UpdateChannelStatus makes of an object: the keys stay, and if the
\* status of the channel changes then it is enabled just when that was asked for.
LEMMA UpdatedFacts ==
    ASSUME NEW ch, Object(ch), clock \in Nat, NEW k, NEW st
    PROVE  LET new == Updated(ch, k, st)
           IN /\ Object(new) /\ new.keys = ch.keys
              /\ new.status # ch.status => (new.status = Enabled <=> st = Enabled)
<1> DEFINE new == Updated(ch, k, st)
           i == IndexOfKey(ch, k)
           marked == Marked(ch, i, st)
<1>1. CASE new = [ch EXCEPT !.status = st]
  BY <1>1, ObjectWithStatus
<1>2. CASE MultiKey /\ k # NoOne /\ k \notin ToSet(ch.keys)
  BY <1>2 DEF Updated, handlerMultiKeyUpdate
<1>3. CASE MultiKey /\ k # NoOne /\ k \in ToSet(ch.keys)
  <2>1. /\ Object(marked) /\ marked.keys = ch.keys /\ marked.status = ch.status
        /\ \A j : StatusOf(marked, j) = (IF j = i THEN st ELSE StatusOf(ch, j))
    BY MarkedFacts
  <2>2. i \in DOMAIN ch.keys
    BY <1>3, KeyThere
  <2>3. st = Enabled => hasEnabledMultiKey(marked)
    <3> HIDE DEF marked, i
    <3> QED
      BY <2>1, <2>2 DEF hasEnabledMultiKey, Usable
  <2>4. /\ ~hasEnabledMultiKey(marked) => new = [marked EXCEPT !.status = AutoDisabled]
        /\ hasEnabledMultiKey(marked) /\ st = Enabled =>
             new = [marked EXCEPT !.status = Enabled]
        /\ hasEnabledMultiKey(marked) /\ st # Enabled => new = marked
    BY <1>3 DEF Updated, handlerMultiKeyUpdate
  <2>5. AutoDisabled # Enabled
    BY DEF AutoDisabled, Enabled
  <2> DEFINE With(s) == [marked EXCEPT !.status = s]
  <2>6. \A s : Object(With(s)) /\ With(s).keys = marked.keys /\ With(s).status = s
    <3> HIDE DEF marked
    <3> QED
      BY <2>1, ObjectWithStatus
  <2> HIDE DEF new, marked, i
  <2>7. /\ ~hasEnabledMultiKey(marked) => new = With(AutoDisabled)
        /\ hasEnabledMultiKey(marked) /\ st = Enabled => new = With(Enabled)
    BY <2>4
  <2> HIDE DEF With
  <2>8. /\ Object(new) /\ new.keys = ch.keys
        /\ new.status # ch.status => (new.status = Enabled <=> st = Enabled)
    BY <2>1, <2>3, <2>4, <2>5, <2>6, <2>7
  <2> QED
    BY <2>8 DEF new
<1> QED
  BY <1>1, <1>2, <1>3 DEF Updated, handlerMultiKeyUpdate

\* It keeps the statuses sound, for the keys that are recorded then.
LEMMA UpdatedSound ==
    ASSUME NEW ch, Object(ch), clock \in Nat, NEW k, NEW st, Sound(ch, recorded),
           k = NoOne => st # AutoDisabled
    PROVE  Sound(Updated(ch, k, st), RecordedAfter(IF MultiKey THEN k ELSE NoOne, st))
<1> DEFINE new == Updated(ch, k, st)
           i == IndexOfKey(ch, k)
           marked == Marked(ch, i, st)
<1>1. CASE ~MultiKey \/ k = NoOne
  <2>1. new = [ch EXCEPT !.status = st]
    BY <1>1 DEF Updated, handlerMultiKeyUpdate
  <2>2. new.keys = ch.keys /\ new.list = ch.list /\ new.status = st
    BY <2>1, ObjectWithStatus
  <2>3. RecordedAfter(IF MultiKey THEN k ELSE NoOne, st) = recorded
    BY <1>1 DEF RecordedAfter
  <2> HIDE DEF new
  <2> QED
    BY <1>1, <2>2, <2>3 DEF Sound, StatusOf, Usable, new
<1>2. CASE MultiKey /\ k # NoOne /\ k \notin ToSet(ch.keys)
  <2>1. new = ch
    BY <1>2 DEF Updated, handlerMultiKeyUpdate
  <2>2. \A j \in DOMAIN ch.keys : ch.keys[j] # k
    BY <1>2 DEF ToSet
  <2>3. \A x : x # k => (x \in RecordedAfter(IF MultiKey THEN k ELSE NoOne, st) <=> x \in recorded)
    BY <1>2 DEF RecordedAfter
  <2> QED
    BY <2>1, <2>2, <2>3 DEF Sound
<1>3. CASE MultiKey /\ k # NoOne /\ k \in ToSet(ch.keys)
  <2>1. /\ Object(marked) /\ marked.keys = ch.keys /\ marked.status = ch.status
        /\ \A j : StatusOf(marked, j) = (IF j = i THEN st ELSE StatusOf(ch, j))
    BY MarkedFacts
  <2>2. i \in DOMAIN ch.keys /\ ch.keys[i] = k
    BY <1>3, KeyThere
  <2>3. \A j \in DOMAIN ch.keys : ch.keys[j] = k => j = i
    BY <2>2 DEF Object, IsInjective
  <2>4. /\ ~hasEnabledMultiKey(marked) => new = [marked EXCEPT !.status = AutoDisabled]
        /\ hasEnabledMultiKey(marked) /\ st = Enabled =>
             new = [marked EXCEPT !.status = Enabled]
        /\ hasEnabledMultiKey(marked) /\ st # Enabled => new = marked
    BY <1>3 DEF Updated, handlerMultiKeyUpdate
  <2>5. AutoDisabled # Enabled
    BY DEF AutoDisabled, Enabled
  <2> DEFINE after == RecordedAfter(IF MultiKey THEN k ELSE NoOne, st)
  <2>6. /\ \A x : x # k => (x \in after <=> x \in recorded)
        /\ k \in after <=> st # Enabled
    BY <1>3 DEF RecordedAfter
  <2> HIDE DEF new, marked, i, after
  <2>7. /\ new.keys = ch.keys /\ new.list = marked.list
        /\ ~hasEnabledMultiKey(marked) => new.status = AutoDisabled
        /\ hasEnabledMultiKey(marked) => new.status = Enabled \/ (st # Enabled /\ new.status = ch.status)
    <3> DEFINE With(s) == [marked EXCEPT !.status = s]
    <3>1. \A s : /\ With(s).keys = marked.keys /\ With(s).status = s
                 /\ With(s).list = marked.list
      BY <2>1, ObjectWithStatus
    <3>2. /\ ~hasEnabledMultiKey(marked) => new = With(AutoDisabled)
          /\ hasEnabledMultiKey(marked) /\ st = Enabled => new = With(Enabled)
      BY <2>4
    <3> HIDE DEF With
    <3> QED
      BY <2>1, <2>4, <3>1, <3>2
  <2>8. \A j : StatusOf(new, j) = (IF j = i THEN st ELSE StatusOf(ch, j))
    BY <2>1, <2>7 DEF StatusOf
  <2>9. /\ \A j \in DOMAIN new.keys : new.keys[j] \in after => StatusOf(new, j) # Enabled
        /\ \A j \in DOMAIN new.keys : StatusOf(new, j) = AutoDisabled => new.keys[j] \in after
    BY <2>2, <2>3, <2>5, <2>6, <2>7, <2>8 DEF Sound
  <2>10. ASSUME new.status = AutoDisabled PROVE Usable(new) = {}
    <3>1. CASE ~hasEnabledMultiKey(marked)
      BY <2>1, <2>7, <3>1 DEF hasEnabledMultiKey, Usable, StatusOf
    <3>2. CASE hasEnabledMultiKey(marked)
      <4>1. st # Enabled /\ ch.status = AutoDisabled
        BY <2>5, <2>7, <2>10, <3>2
      <4>2. Usable(ch) = {}
        BY <1>3, <4>1 DEF Sound
      <4> QED
        BY <2>7, <2>8, <4>1, <4>2 DEF Usable
    <3> QED
      BY <3>1, <3>2
  <2>11. Sound(new, after)
    BY <2>9, <2>10 DEF Sound
  <2> QED
    BY <2>11 DEF new, after
<1> QED
  BY <1>1, <1>2, <1>3


-----------------------------------------------------------------------------
(* The objects in memory.                                                  *)

\* Only one actor moves.
Moves(a) ==
    /\ config' = config
    /\ DOMAIN pc' = Actors /\ DOMAIN at' = Actors
    /\ DOMAIN key' = Actors /\ DOMAIN goal' = Actors
    /\ \A b \in Actors \ {a} :
         pc'[b] = pc[b] /\ at'[b] = at[b] /\ key'[b] = key[b] /\ goal'[b] = goal[b]

\* The private objects of the others stay as they are.
Calm(a) ==
    \A b \in Actors \ {a} : pc[b] \in Private => heap'[at[b]] = heap[at[b]]

LEMMA ActorsFinite == IsFiniteSet(Actors) /\ Cardinality(Actors) \in Nat
<1>1. IsFiniteSet({Prober} \cup {Syncer}) /\ IsFiniteSet({Admin} \cup {Manager})
  BY FS_Singleton, FS_Union
<1>2. IsFiniteSet(({Prober} \cup {Syncer}) \cup ({Admin} \cup {Manager}))
  BY <1>1, FS_Union
<1>3. {Prober, Syncer, Admin, Manager}
        = ({Prober} \cup {Syncer}) \cup ({Admin} \cup {Manager})
  OBVIOUS
<1>4. IsFiniteSet(Requests \cup {Prober, Syncer, Admin, Manager})
  BY <1>2, <1>3, ConstantsOK, FS_Union
<1> QED
  BY <1>4, FS_CardinalityType DEF Actors

\* There is always a free place for one more object.
LEMMA FreePlace ==
    ASSUME StatusTyped
    PROVE  Free \in Slots /\ Free # cur /\ \A a \in Actors : at[a] # Free
<1> DEFINE Held == {at[a] : a \in Actors}
<1>1. IsFiniteSet(Actors)
  BY ActorsFinite
<1>2. IsFiniteSet(Held) /\ Cardinality(Held) <= Cardinality(Actors)
  <2> DEFINE f == [a \in Actors |-> at[a]]
  <2>1. f \in Surjection(Actors, Held)
    BY DEF Surjection
  <2> QED
    BY <1>1, <2>1, FS_Surjection
<1>3. /\ IsFiniteSet(Held \cup {cur})
      /\ Cardinality(Held \cup {cur}) <= Cardinality(Held) + 1
      /\ Cardinality(Held) \in Nat /\ Cardinality(Held \cup {cur}) \in Nat
  <2>1. /\ IsFiniteSet(Held \cup {cur})
        /\ Cardinality(Held \cup {cur})
             = (IF cur \in Held THEN Cardinality(Held) ELSE Cardinality(Held) + 1)
    BY <1>2, FS_AddElement
  <2>2. Cardinality(Held) \in Nat /\ Cardinality(Held \cup {cur}) \in Nat
    BY <1>2, <2>1, FS_CardinalityType
  <2> HIDE DEF Held
  <2> QED
    BY <2>1, <2>2
<1>4. ~(Slots \subseteq Held \cup {cur})
  <2> SUFFICES ASSUME Slots \subseteq Held \cup {cur} PROVE FALSE
    OBVIOUS
  <2>1. Cardinality(Slots) <= Cardinality(Held \cup {cur})
    BY <1>3, FS_Subset
  <2>2. Cardinality(Slots) > Cardinality(Actors) + 1 /\ Cardinality(Slots) \in Nat
    BY ConstantsOK, FS_CardinalityType
  <2>3. Cardinality(Actors) \in Nat
    BY <1>1, FS_CardinalityType
  <2> HIDE DEF Held
  <2> QED
    BY <1>2, <1>3, <2>1, <2>2, <2>3
<1>5. \E s \in Slots : s # cur /\ \A a \in Actors : at[a] # s
  BY <1>4
<1> QED
  BY <1>5 DEF Free

LEMMA KeptFacts ==
    ASSUME NEW H, NEW top, heap' = Kept(H, top, at')
    PROVE  /\ DOMAIN heap' = Slots
           /\ \A s \in Slots : s = top \/ (\E b \in Actors : at'[b] = s) => heap'[s] = H[s]
  BY DEF Kept

\* What the step of an actor has to leave in order.
LEMMA PlacesKeep ==
    ASSUME StatusTyped, Places, NEW a \in Actors, Moves(a),
           DOMAIN heap' = Slots, clock' \in Nat,
           MemoryCache => cur' \in Slots,
           at'[a] \in Slots \cup {NoOne},
           pc'[a] \in Holding => at'[a] \in Slots,
           pc'[a] \in Private => at'[a] # cur' /\ \A b \in Actors \ {a} : at[b] # at'[a],
           \A b \in Actors \ {a} : pc[b] \in Private => at[b] # cur' /\ at[b] # at'[a],
           Object(row'),
           MemoryCache => Object(heap'[cur']),
           at'[a] \in Slots => Object(heap'[at'[a]]),
           \A b \in Actors \ {a} : at[b] \in Slots => Object(heap'[at[b]])
    PROVE  StatusTyped' /\ Places'
<1>0. MemoryCache' = MemoryCache
  BY DEF Moves, MemoryCache
<1>1. StatusTyped'
  BY <1>0 DEF StatusTyped, Moves
<1>2. \A b \in Actors : pc'[b] \in Holding => at'[b] \in Slots
  BY DEF Places, Moves
<1>3. \A b \in Actors : pc'[b] \in Private =>
         at'[b] # cur' /\ \A c \in Actors \ {b} : at'[c] # at'[b]
  BY DEF Places, Moves
<1>4. \A b \in Actors : at'[b] \in Slots => Object(heap'[at'[b]])
  BY DEF Moves
<1> QED
  BY <1>0, <1>1, <1>2, <1>3, <1>4 DEF Places

\* A step that changes no object; it may drop the one it has.
LEMMA ObjectsStay ==
    ASSUME StatusTyped, Places, NEW a \in Actors, Moves(a), clock' \in Nat,
           cur' = cur, DOMAIN heap' = Slots,
           \A s \in Slots : s = cur \/ (\E b \in Actors : at'[b] = s) => heap'[s] = heap[s],
           at'[a] \in {at[a], NoOne},
           pc'[a] \in Private => pc[a] \in Private /\ at'[a] = at[a],
           pc'[a] \in Holding => at'[a] \in Slots,
           Object(row')
    PROVE  /\ StatusTyped' /\ Places' /\ Calm(a)
           /\ MemoryCache => heap'[cur'] = heap[cur]
           /\ at'[a] \in Slots => heap'[at'[a]] = heap[at[a]]
<1>1. \A b \in Actors \ {a} : at[b] \in Slots => heap'[at[b]] = heap[at[b]]
  BY DEF Moves
<1>2. MemoryCache => heap'[cur'] = heap[cur]
  BY DEF StatusTyped
<1>3. at'[a] \in Slots => heap'[at'[a]] = heap[at[a]] /\ at'[a] = at[a]
  BY ActorsApart
<1>4. /\ \A b \in Actors : pc[b] \in Private => at[b] \in Slots
      /\ \A b \in Actors : at[b] \in Slots \cup {NoOne}
  BY DEF Places, StatusTyped, Holding
<1>5. Calm(a)
  BY <1>1, <1>4 DEF Calm
<1>6. /\ MemoryCache => cur' \in Slots
      /\ at'[a] \in Slots \cup {NoOne}
      /\ pc'[a] \in Private => at'[a] # cur' /\ \A b \in Actors \ {a} : at[b] # at'[a]
  BY <1>4 DEF Places, StatusTyped
<1>7. \A b \in Actors \ {a} : pc[b] \in Private => at[b] # cur' /\ at[b] # at'[a]
  BY <1>4, ActorsApart DEF Places
<1>8. /\ MemoryCache => Object(heap'[cur'])
      /\ at'[a] \in Slots => Object(heap'[at'[a]])
      /\ \A b \in Actors \ {a} : at[b] \in Slots => Object(heap'[at[b]])
  BY <1>1, <1>2, <1>3 DEF Places
<1>9. StatusTyped' /\ Places'
  BY <1>6, <1>7, <1>8, PlacesKeep
<1> QED
  BY <1>2, <1>3, <1>5, <1>9

\* A step that puts an object of its own in a place nobody else has.
LEMMA ObjectPut ==
    ASSUME StatusTyped, Places, NEW a \in Actors, Moves(a), clock' \in Nat,
           cur' = cur, NEW s \in Slots, s # cur, \A b \in Actors \ {a} : at[b] # s,
           NEW object, Object(object), Hold(a, s, object), Object(row')
    PROVE  /\ StatusTyped' /\ Places' /\ Calm(a)
           /\ MemoryCache => heap'[cur'] = heap[cur]
           /\ at'[a] = s /\ heap'[s] = object
<1>1. /\ at'[a] = s /\ DOMAIN heap' = Slots
      /\ \A p \in Slots : p = cur \/ (\E b \in Actors : at'[b] = p) =>
           heap'[p] = [heap EXCEPT ![s] = object][p]
  BY KeptFacts DEF Hold, StatusTyped
<1>2. heap'[s] = object
  BY <1>1 DEF StatusTyped
<1>3. \A b \in Actors \ {a} : at[b] \in Slots => heap'[at[b]] = heap[at[b]]
  BY <1>1 DEF StatusTyped, Moves
<1>4. MemoryCache => heap'[cur'] = heap[cur]
  BY <1>1 DEF StatusTyped
<1>5. \A b \in Actors : pc[b] \in Private => at[b] \in Slots
  BY DEF Places, Holding
<1>6. Calm(a)
  BY <1>3, <1>5 DEF Calm
<1>7. /\ MemoryCache => cur' \in Slots
      /\ \A b \in Actors \ {a} : pc[b] \in Private => at[b] # cur' /\ at[b] # at'[a]
  BY <1>1, <1>5 DEF Places, StatusTyped
<1>8. /\ MemoryCache => Object(heap'[cur'])
      /\ Object(heap'[at'[a]])
      /\ \A b \in Actors \ {a} : at[b] \in Slots => Object(heap'[at[b]])
  BY <1>1, <1>2, <1>3, <1>4 DEF Places
<1>9. StatusTyped' /\ Places'
  BY <1>1, <1>7, <1>8, PlacesKeep
<1> QED
  BY <1>1, <1>2, <1>4, <1>6, <1>9


\* A step that changes an object others may share.
LEMMA ObjectChanged ==
    ASSUME StatusTyped, Places, NEW a \in Actors, Moves(a), clock' \in Nat,
           cur' = cur, DOMAIN heap' = Slots, NEW s \in Slots, NEW object, Object(object),
           \A b \in Actors \ {a} : pc[b] \in Private => at[b] # s,
           \A p \in Slots : p = cur \/ (\E b \in Actors : at'[b] = p) =>
             heap'[p] = (IF p = s THEN object ELSE heap[p]),
           at'[a] = at[a] \/ (MemoryCache /\ at'[a] = cur),
           pc'[a] \notin Holding, Object(row')
    PROVE  /\ StatusTyped' /\ Places' /\ Calm(a)
           /\ MemoryCache => heap'[cur'] = (IF cur = s THEN object ELSE heap[cur])
<1>1. \A b \in Actors \ {a} : at[b] \in Slots =>
        heap'[at[b]] = (IF at[b] = s THEN object ELSE heap[at[b]])
  BY DEF Moves
<1>2. MemoryCache => heap'[cur'] = (IF cur = s THEN object ELSE heap[cur])
  BY DEF StatusTyped
<1>3. at'[a] \in Slots =>
        heap'[at'[a]] = (IF at'[a] = s THEN object ELSE heap[at'[a]])
  OBVIOUS
<1>4. \A b \in Actors : pc[b] \in Private => at[b] \in Slots /\ at[b] # NoOne
  BY ActorsApart DEF Places, Holding
<1>5. Calm(a)
  BY <1>1, <1>4 DEF Calm
<1>6. /\ MemoryCache => cur' \in Slots
      /\ at'[a] \in Slots \cup {NoOne} /\ pc'[a] \notin Private
  BY DEF StatusTyped, Holding
<1>7. \A b \in Actors \ {a} : pc[b] \in Private => at[b] # cur' /\ at[b] # at'[a]
  BY DEF Places
<1>8. /\ MemoryCache => Object(heap'[cur'])
      /\ at'[a] \in Slots => Object(heap'[at'[a]])
      /\ \A b \in Actors \ {a} : at[b] \in Slots => Object(heap'[at[b]])
  BY <1>1, <1>2, <1>3 DEF Places
<1>9. StatusTyped' /\ Places'
  BY <1>6, <1>7, <1>8, PlacesKeep
<1> QED
  BY <1>2, <1>5, <1>9

-----------------------------------------------------------------------------
(* Steps that leave the row's status, the abilities and what is recorded.  *)

SameSettings(a) ==
    /\ MemoryCache' = MemoryCache /\ MultiKey' = MultiKey /\ ManageOps' = ManageOps
    /\ Protected' = Protected /\ NoEdits' = NoEdits

LEMMA Settled == ASSUME NEW a, Moves(a) PROVE SameSettings(a)
  BY DEF Moves, SameSettings, MemoryCache, MultiKey, ManageOps, Protected, NoEdits, Polling

LEMMA LockedKeeps ==
    ASSUME Locked, NEW a \in Actors, Moves(a),
           lock' = lock \/ lock = NoOne \/ (lock = a /\ lock' = NoOne),
           pc'[a] \in Critical => lock' = a,
           a # Manager /\ pc'[a] = "abilities" => lock' = a,
           a = Manager /\ NoEdits /\ pc'[a] \in {"reload", "abilities"} => lock' = Manager,
           a = Manager /\ pc'[a] = "manage" => goal'[a] \in ManageOps
    PROVE  Locked'
<1>1. SameSettings(a)
  BY Settled
<1>2. \A b \in Actors : pc'[b] \in Critical => lock' = b
  BY ActorsApart DEF Locked, Moves
<1>3. \A b \in Actors \ {Manager} : pc'[b] = "abilities" => lock' = b
  BY ActorsApart DEF Locked, Moves
<1>4. NoEdits /\ pc'[Manager] \in {"reload", "abilities"} => lock' = Manager
  BY ActorsApart DEF Locked, Moves
<1>5. pc'[Manager] = "manage" => goal'[Manager] \in ManageOps
  BY ActorsApart DEF Locked, Moves
<1> QED
  BY <1>1, <1>2, <1>3, <1>4, <1>5 DEF Locked, SameSettings

LEMMA RoutedKeeps ==
    ASSUME Routed, NEW a \in Actors, Moves(a),
           ~MemoryCache => /\ ~routable'
                           /\ pc'[a] \notin {"cached", "unroute", "refresh", "swap"},
           routable' => \/ heap'[cur'].status = Enabled
                        \/ pc'[a] = "unroute"
                        \/ /\ routable /\ heap'[cur'].status = heap[cur].status
                           /\ pc[a] # "unroute"
    PROVE  Routed'
<1>1. SameSettings(a)
  BY Settled
<1>2. ~MemoryCache => \A b \in Actors :
        pc'[b] \notin {"cached", "unroute", "refresh", "swap"}
  BY DEF Routed, Moves
<1>3. routable' => heap'[cur'].status = Enabled \/ \E b \in Actors : pc'[b] = "unroute"
  BY DEF Routed, Moves
<1> QED
  BY <1>1, <1>2, <1>3 DEF Routed, SameSettings

LEMMA AbleKeeps ==
    ASSUME AbleAsStored, NEW a \in Actors, Moves(a), Calm(a),
           row'.status = row.status, ability' = ability,
           pc[a] \notin {"abilities", "reload"}, pc'[a] \notin {"abilities", "reload"},
           pc'[a] = "saveRow" => heap'[at'[a]].status = row.status,
           pc'[a] = "saveBoth" => (heap'[at'[a]].status = Enabled <=> goal'[a] = Enabled)
    PROVE  AbleAsStored'
<1>1. SameSettings(a)
  BY Settled
<1> SUFFICES ASSUME NoEdits
             PROVE  AbleAsStored'
  BY <1>1 DEF AbleAsStored, SameSettings
<1>2. \A b \in Actors \ {a} : /\ pc'[b] = pc[b] /\ at'[b] = at[b] /\ goal'[b] = goal[b]
                              /\ pc[b] \in Private => heap'[at'[b]] = heap[at[b]]
  BY DEF Moves, Calm
<1>3. \/ ability' = (row'.status = Enabled)
      \/ pc'[Manager] = "reload"
      \/ \E b \in Actors : pc'[b] = "abilities"
  BY <1>2, ActorsApart DEF AbleAsStored
<1>4. \A b \in Actors \ {Manager} :
        pc'[b] = "abilities" => (row'.status = Enabled <=> goal'[b] = Enabled)
  BY <1>2 DEF AbleAsStored
<1>5. pc'[Manager] = "abilities" => heap'[at'[Manager]].status = row'.status
  BY <1>2, ActorsApart DEF AbleAsStored, Private
<1>6. \A b \in Actors : pc'[b] = "saveRow" => heap'[at'[b]].status = row'.status
  BY <1>2 DEF AbleAsStored, Private
<1>7. \A b \in Actors :
        pc'[b] = "saveBoth" => (heap'[at'[b]].status = Enabled <=> goal'[b] = Enabled)
  BY <1>2 DEF AbleAsStored, Private
<1> QED
  BY <1>3, <1>4, <1>5, <1>6, <1>7 DEF AbleAsStored

LEMMA RowKeeps ==
    ASSUME RowSound, NEW a \in Actors, Moves(a), Calm(a),
           Protected => row' = row /\ recorded' = recorded /\ a # Manager,
           Protected /\ a = Admin => goal'[a] # AutoDisabled,
           Protected /\ a # Admin
             /\ pc'[a] \in {"answer", "update", "cached", "unroute", "load"}
             => key'[a] # NoOne,
           Protected /\ pc'[a] \in {"saveRow", "saveBoth"} =>
             Sound(heap[at[a]], RecordedBy(a))' /\ heap'[at'[a]].keys = row.keys
    PROVE  RowSound'
<1>1. SameSettings(a)
  BY Settled
<1> SUFFICES ASSUME Protected
             PROVE  RowSound'
  BY <1>1 DEF RowSound, SameSettings
<1>2. \A b \in Actors \ {a} : /\ pc'[b] = pc[b] /\ at'[b] = at[b] /\ goal'[b] = goal[b]
                              /\ key'[b] = key[b]
                              /\ pc[b] \in Private => heap'[at'[b]] = heap[at[b]]
  BY DEF Moves, Calm
<1>3. pc'[Manager] = "idle" /\ goal'[Admin] # AutoDisabled
  BY <1>2, ActorsApart DEF RowSound
<1>4. Sound(row, recorded)'
  BY <1>1 DEF RowSound, SameSettings, Sound, Usable, StatusOf
<1>5. \A b \in Actors \ {Admin} :
        pc'[b] \in {"answer", "update", "cached", "unroute", "load"} => key'[b] # NoOne
  BY <1>2 DEF RowSound
<1>6. ASSUME NEW b \in Actors, pc'[b] \in {"saveRow", "saveBoth"}
      PROVE  Sound(heap[at[b]], RecordedBy(b))' /\ heap'[at'[b]].keys = row'.keys
  <2>1. CASE b = a
    BY <1>6, <2>1
  <2>2. CASE b # a
    <3>1. /\ heap'[at'[b]] = heap[at[b]] /\ goal'[b] = goal[b] /\ key'[b] = key[b]
          /\ pc[b] \in {"saveRow", "saveBoth"}
      BY <1>2, <1>6, <2>2 DEF Private
    <3>2. Sound(heap[at[b]], RecordedBy(b)) /\ heap[at[b]].keys = row.keys
      BY <3>1 DEF RowSound
    <3>3. RecordedBy(b)' = RecordedBy(b)
      BY <1>1, <3>1 DEF RecordedBy, RecordedAfter, SameSettings
    <3> QED
      BY <1>1, <3>1, <3>2, <3>3 DEF Sound, SameSettings, Usable, StatusOf
  <2> QED
    BY <2>1, <2>2
<1> QED
  BY <1>3, <1>4, <1>5, <1>6 DEF RowSound

LEMMA QuietKeeps ==
    ASSUME StatusInv, NEW a \in Actors, Moves(a), StatusTyped', Places', Calm(a),
           row'.status = row.status, ability' = ability,
           pc[a] \notin {"abilities", "reload"}, pc'[a] \notin {"abilities", "reload"},
           lock' = lock \/ lock = NoOne \/ (lock = a /\ lock' = NoOne),
           pc'[a] \in Critical => lock' = a,
           a = Manager /\ pc'[a] = "manage" => goal'[a] \in ManageOps,
           ~MemoryCache => /\ ~routable'
                           /\ pc'[a] \notin {"cached", "unroute", "refresh", "swap"},
           routable' => \/ heap'[cur'].status = Enabled
                        \/ pc'[a] = "unroute"
                        \/ /\ routable /\ heap'[cur'].status = heap[cur].status
                           /\ pc[a] # "unroute",
           pc'[a] = "saveRow" => heap'[at'[a]].status = row.status,
           pc'[a] = "saveBoth" => (heap'[at'[a]].status = Enabled <=> goal'[a] = Enabled),
           Protected => row' = row /\ recorded' = recorded /\ a # Manager,
           Protected /\ a = Admin => goal'[a] # AutoDisabled,
           Protected /\ a # Admin
             /\ pc'[a] \in {"answer", "update", "cached", "unroute", "load"}
             => key'[a] # NoOne,
           Protected /\ pc'[a] \in {"saveRow", "saveBoth"} =>
             Sound(heap[at[a]], RecordedBy(a))' /\ heap'[at'[a]].keys = row.keys
    PROVE  StatusInv'
<1>0. StatusTyped /\ Places /\ Locked /\ Routed /\ AbleAsStored /\ RowSound
  BY DEF StatusInv
<1>1. Locked'
  BY <1>0, LockedKeeps
<1>2. Routed'
  BY <1>0, RoutedKeeps
<1>3. AbleAsStored'
  BY <1>0, AbleKeeps
<1>4. RowSound'
  BY <1>0, RowKeeps
<1> QED
  BY <1>1, <1>2, <1>3, <1>4 DEF StatusInv


LEMMA RouteStays ==
    ASSUME StatusInv, routable' = routable, MemoryCache => heap'[cur'] = heap[cur]
    PROVE  /\ ~MemoryCache => ~routable'
           /\ routable' => routable /\ heap'[cur'].status = heap[cur].status
  BY DEF StatusInv, Routed

-----------------------------------------------------------------------------
(* The steps of a request.                                                 *)

LEMMA SelectKeeps ==
    ASSUME StatusInv, NEW r \in Requests, Select(r)
    PROVE  StatusInv'
<1>0. StatusTyped /\ Places /\ Locked /\ Routed /\ AbleAsStored /\ RowSound
  BY DEF StatusInv
<1>1. /\ r \in Actors /\ r # Manager /\ r # Admin
      /\ UNCHANGED <<row, ability, cur, routable, lock, key, goal, config, clock, recorded>>
      /\ pc' = [pc EXCEPT ![r] = "pick"] /\ pc[r] = "idle"
  BY ActorsApart DEF Select, Goto, db, cache, world, history
<1>2. Moves(r) /\ pc'[r] = "pick"
  BY <1>0, <1>1 DEF Moves, StatusTyped, Select, Hold
<1>3. /\ "pick" \notin Private /\ "pick" \in Holding
  BY DEF Private, Holding
<1>4. StatusTyped' /\ Places' /\ Calm(r) /\ (MemoryCache => heap'[cur'] = heap[cur])
  <2>1. CASE MemoryCache /\ at' = [at EXCEPT ![r] = cur] /\ UNCHANGED heap
    <3>1. at'[r] = cur /\ cur \in Slots /\ heap' = heap /\ MemoryCache
      BY <1>0, <1>1, <2>1 DEF StatusTyped
    <3>2. \A b \in Actors \ {r} : pc[b] \in Private => at[b] # cur' /\ at[b] # at'[r]
      BY <1>0, <1>1, <3>1 DEF Places
    <3>3. DOMAIN heap' = Slots /\ clock' \in Nat
      BY <1>0, <1>1, <3>1 DEF StatusTyped
    <3>4. StatusTyped' /\ Places'
      BY <1>0, <1>1, <1>2, <1>3, <3>1, <3>2, <3>3, PlacesKeep DEF Places
    <3> QED
      BY <1>1, <3>1, <3>4 DEF Calm
  <2>2. CASE Hold(r, Free, row)
    <3>1. Object(row) /\ Object(row') /\ clock' \in Nat
      BY <1>0, <1>1 DEF Places, StatusTyped
    <3>2. Free \in Slots /\ Free # cur /\ \A a \in Actors : at[a] # Free
      BY <1>0, FreePlace
    <3> HIDE DEF Free
    <3> QED
      BY <1>0, <1>1, <1>2, <2>2, <3>1, <3>2, ObjectPut
  <2> QED
    BY <2>1, <2>2 DEF Select
<1>5. /\ ~MemoryCache => ~routable'
      /\ routable' => routable /\ heap'[cur'].status = heap[cur].status
  BY <1>1, <1>4, RouteStays
<1> QED
  BY <1>1, <1>2, <1>4, <1>5, QuietKeeps DEF Critical

\* The indices GetNextEnabledKey chooses from are indices of keys.
LEMMA NextIndicesThere ==
    ASSUME NEW ch, Object(ch), NEW cursor, NEW i \in NextIndices(ch, cursor)
    PROVE  ch.keys[i] # NoOne
<1>1. i \in DOMAIN ch.keys
  <2>1. CASE ~MultiKey
    <3>1. i = 1
      BY <2>1 DEF NextIndices
    <3>2. Len(ch.keys) \in Nat /\ DOMAIN ch.keys = 1 .. Len(ch.keys) /\ Len(ch.keys) # 0
      BY DEF Object
    <3> QED
      BY <3>1, <3>2
  <2>2. CASE MultiKey
    BY <2>2 DEF NextIndices, Tier, Usable
  <2> QED
    BY <2>1, <2>2
<1>2. ch.keys[i] \in AllKeys
  BY <1>1, ElementOfSeq DEF Object
<1> QED
  BY <1>2, ConstantsOK

LEMMA NextKeyKeeps ==
    ASSUME StatusInv, NEW a \in Requests \cup {Prober}, pc[a] \in {"pick", "probe"},
           GetNextEnabledKey(a),
           UNCHANGED <<ability, cache, lock, index, world, used, history>>
    PROVE  StatusInv'
<1>0. StatusTyped /\ Places /\ Locked /\ Routed /\ AbleAsStored /\ RowSound
  BY DEF StatusInv
<1>1. /\ a \in Actors /\ a # Manager /\ a # Admin
      /\ UNCHANGED <<ability, cur, routable, lock, config, clock, recorded>>
      /\ clock' \in Nat
  BY <1>0, ActorsApart DEF cache, world, history, StatusTyped
<1> DEFINE object == heap[at[a]]
<1>2. at[a] \in Slots /\ Object(object) /\ Object(row)
  BY <1>0, <1>1 DEF Places, Holding
<1>3. CASE Done(a) /\ heap' = Kept(heap, cur, at') /\ row' = row
  <2>1. Moves(a) /\ pc'[a] = "idle" /\ at'[a] = NoOne
    BY <1>0, <1>1, <1>3 DEF Done, Moves, StatusTyped
  <2>2. /\ DOMAIN heap' = Slots
        /\ \A s \in Slots : s = cur \/ (\E b \in Actors : at'[b] = s) => heap'[s] = heap[s]
    BY <1>3, KeptFacts
  <2>3. StatusTyped' /\ Places' /\ Calm(a) /\ (MemoryCache => heap'[cur'] = heap[cur])
    BY <1>0, <1>1, <1>2, <1>3, <2>1, <2>2, ObjectsStay DEF Private, Holding
  <2>4. /\ ~MemoryCache => ~routable'
        /\ routable' => routable /\ heap'[cur'].status = heap[cur].status
    BY <1>1, <2>3, RouteStays
  <2> QED
    BY <1>1, <1>3, <2>1, <2>3, <2>4, QuietKeeps DEF Critical
<1>4. ASSUME NEW cursor, NEW i \in NextIndices(object, cursor), NEW picked,
             picked = object \/ picked = [object EXCEPT !.cursor = NextCursor(object, i)],
             key' = [key EXCEPT ![a] = object.keys[i]],
             heap' = [heap EXCEPT ![at[a]] = picked],
             row' = (IF MultiKey /\ Polling /\ ~MemoryCache
                     THEN WithInfoOf(row, picked) ELSE row),
             Goto(a, "answer"), UNCHANGED <<at, goal>>
      PROVE  StatusInv'
  <2>1. Moves(a) /\ pc'[a] = "answer" /\ at' = at /\ key'[a] = object.keys[i]
    BY <1>0, <1>1, <1>4 DEF Goto, Moves, StatusTyped
  <2>2. Object(picked) /\ picked.status = object.status
    <3> DEFINE moved == [object EXCEPT !.cursor = NextCursor(object, i)]
    <3>1. Object(moved) /\ moved.status = object.status
      <4> HIDE DEF object
      <4> QED
        BY <1>2, ObjectWithCursor
    <3>2. picked = object \/ picked = moved
      BY <1>4
    <3> HIDE DEF moved, object
    <3> QED
      BY <1>2, <3>1, <3>2
  <2>3. Object(row') /\ row'.status = row.status /\ (Protected => row' = row)
    BY <1>2, <1>4, <2>2, ObjectWithInfo DEF Protected
  <2>4. key'[a] # NoOne
    BY <1>2, <1>4, <2>1, NextIndicesThere
  <2>5. /\ DOMAIN heap' = Slots
        /\ \A p \in Slots : heap'[p] = (IF p = at[a] THEN picked ELSE heap[p])
    BY <1>0, <1>4 DEF StatusTyped
  <2>6. \A b \in Actors \ {a} : pc[b] \in Private => at[b] # at[a]
    BY <1>0, <1>1 DEF Places
  <2> HIDE DEF object
  <2>7. /\ StatusTyped' /\ Places' /\ Calm(a)
        /\ MemoryCache => heap'[cur'] = (IF cur = at[a] THEN picked ELSE heap[cur])
    BY <1>0, <1>1, <1>2, <2>1, <2>2, <2>3, <2>5, <2>6, ObjectChanged DEF Holding, Private
  <2>8. /\ ~MemoryCache => ~routable'
        /\ routable' => routable /\ heap'[cur'].status = heap[cur].status
    BY <1>0, <1>1, <2>2, <2>7 DEF Routed, object
  <2> QED
    BY <1>1, <2>1, <2>3, <2>4, <2>7, <2>8, QuietKeeps DEF Critical
<1> QED
  BY <1>3, <1>4 DEF GetNextEnabledKey

LEMMA PickKeeps ==
    ASSUME StatusInv, NEW r \in Requests, Pick(r)
    PROVE  StatusInv'
  BY NextKeyKeeps DEF Pick

\* An actor that is done and drops its object.
LEMMA DoneKeeps ==
    ASSUME StatusInv, NEW a \in Actors, Done(a), heap' = Kept(heap, cur, at'),
           pc[a] \notin {"abilities", "reload", "unroute"},
           lock' = lock \/ (lock = a /\ lock' = NoOne),
           Protected => a # Manager,
           UNCHANGED <<row, ability, cur, routable, config, recorded>>, clock' \in Nat
    PROVE  StatusInv'
<1>0. StatusTyped /\ Places /\ Locked /\ Routed /\ AbleAsStored /\ RowSound
  BY DEF StatusInv
<1>1. /\ Moves(a) /\ pc'[a] = "idle" /\ at'[a] = NoOne /\ goal'[a] = Enabled
      /\ Enabled # AutoDisabled
  BY <1>0 DEF Done, Moves, StatusTyped, Enabled, AutoDisabled
<1>2. /\ DOMAIN heap' = Slots /\ Object(row')
      /\ \A s \in Slots : s = cur \/ (\E b \in Actors : at'[b] = s) => heap'[s] = heap[s]
  BY <1>0, KeptFacts DEF Places
<1>3. StatusTyped' /\ Places' /\ Calm(a) /\ (MemoryCache => heap'[cur'] = heap[cur])
  BY <1>0, <1>1, <1>2, ObjectsStay DEF Private, Holding
<1>4. /\ ~MemoryCache => ~routable'
      /\ routable' => routable /\ heap'[cur'].status = heap[cur].status
  BY <1>3, RouteStays
<1> QED
  BY <1>1, <1>3, <1>4, QuietKeeps DEF Critical

\* An actor whose status or goal becomes another.
LEMMA TurnsKeep ==
    ASSUME StatusInv, NEW a \in Actors, NEW p, pc' = [pc EXCEPT ![a] = p],
           p \in {"answer", "update", "cached", "load", "refresh"},
           pc[a] \notin {"abilities", "reload", "unroute"},
           DOMAIN key' = Actors, DOMAIN goal' = Actors,
           \A b \in Actors \ {a} : key'[b] = key[b] /\ goal'[b] = goal[b],
           p \in {"cached", "load"} => lock' = a,
           p \in {"cached", "refresh"} => MemoryCache,
           lock' = lock \/ lock = NoOne,
           Protected => a # Manager,
           Protected /\ a = Admin => goal'[a] # AutoDisabled,
           Protected /\ a # Admin => p = "refresh" \/ key'[a] # NoOne,
           UNCHANGED <<row, ability, heap, cur, routable, at, config, recorded>>,
           clock' \in Nat
    PROVE  StatusInv'
<1>0. StatusTyped /\ Places /\ Locked /\ Routed /\ AbleAsStored /\ RowSound
  BY DEF StatusInv
<1>1. Moves(a) /\ pc'[a] = p /\ at'[a] = at[a]
  BY <1>0 DEF Moves, StatusTyped
<1>2. StatusTyped' /\ Places' /\ Calm(a) /\ (MemoryCache => heap'[cur'] = heap[cur])
  <2>1. DOMAIN heap' = Slots /\ Object(row')
    BY <1>0 DEF StatusTyped, Places
  <2> QED
    BY <1>0, <1>1, <2>1, ObjectsStay DEF Private, Holding
<1>3. /\ ~MemoryCache => ~routable'
      /\ routable' => routable /\ heap'[cur'].status = heap[cur].status
  BY <1>2, RouteStays
<1> QED
  BY <1>1, <1>2, <1>3, QuietKeeps DEF Critical

LEMMA RequestAnswerKeeps ==
    ASSUME StatusInv, NEW r \in Requests, Answer(r)
    PROVE  StatusInv'
<1>0. StatusTyped /\ RowSound
  BY DEF StatusInv
<1>1. /\ r \in Actors /\ r # Manager /\ r # Admin /\ pc[r] = "answer"
      /\ UNCHANGED <<row, ability, cur, routable, lock, config, clock, recorded>>
      /\ clock' \in Nat
  BY <1>0, ActorsApart DEF Answer, db, cache, world, history, StatusTyped
<1>2. CASE Done(r) /\ heap' = Kept(heap, cur, at')
  BY <1>1, <1>2, DoneKeeps
<1>3. CASE goal' = [goal EXCEPT ![r] = AutoDisabled] /\ Goto(r, "update")
           /\ UNCHANGED <<heap, at, key>>
  <2>1. /\ DOMAIN key' = Actors /\ DOMAIN goal' = Actors
        /\ \A b \in Actors \ {r} : key'[b] = key[b] /\ goal'[b] = goal[b]
    BY <1>0, <1>1, <1>3 DEF StatusTyped
  <2>2. Protected => key'[r] # NoOne
    BY <1>0, <1>1, <1>3 DEF RowSound
  <2>3. pc' = [pc EXCEPT ![r] = "update"]
    BY <1>3 DEF Goto
  <2> QED
    BY <1>1, <1>3, <2>1, <2>2, <2>3, TurnsKeep
<1> QED
  BY <1>2, <1>3 DEF Answer


-----------------------------------------------------------------------------
(* The steps of UpdateChannelStatus.                                       *)

LEMMA TakeLockKeeps ==
    ASSUME StatusInv, NEW a \in Actors, TakeLock(a)
    PROVE  StatusInv'
<1>0. StatusTyped /\ RowSound
  BY DEF StatusInv
<1> DEFINE p == IF MemoryCache THEN "cached" ELSE "load"
<1>1. /\ pc[a] = "update" /\ lock = NoOne /\ lock' = a
      /\ pc' = [pc EXCEPT ![a] = p] /\ p \in {"cached", "load"}
      /\ p = "cached" => MemoryCache
      /\ UNCHANGED <<row, ability, heap, cur, routable, at, key, goal, config, clock, recorded>>
      /\ clock' \in Nat
  BY <1>0 DEF TakeLock, Goto, db, cache, world, history, StatusTyped
<1>2. /\ DOMAIN key' = Actors /\ DOMAIN goal' = Actors
      /\ \A b \in Actors \ {a} : key'[b] = key[b] /\ goal'[b] = goal[b]
  BY <1>0, <1>1 DEF StatusTyped
<1>3. /\ Protected => a # Manager
      /\ Protected /\ a = Admin => goal'[a] # AutoDisabled
      /\ Protected /\ a # Admin => key'[a] # NoOne
  BY <1>0, <1>1 DEF RowSound
<1> HIDE DEF p
<1> QED
  BY <1>1, <1>2, <1>3, TurnsKeep

LEMMA UpdateCachedKeeps ==
    ASSUME StatusInv, NEW a \in Actors, UpdateCached(a)
    PROVE  StatusInv'
<1>0. StatusTyped /\ Places /\ Locked /\ Routed /\ AbleAsStored /\ RowSound
  BY DEF StatusInv
<1> DEFINE old == heap[cur]
           new == Updated(old, key[a], goal[a])
           p == IF old.status # new.status THEN "unroute" ELSE "load"
<1>1. /\ pc[a] = "cached" /\ lock = a /\ MemoryCache /\ cur \in Slots
      /\ UNCHANGED <<row, ability, cur, routable, config, clock, recorded>>
      /\ clock' \in Nat /\ clock \in Nat
  BY <1>0 DEF UpdateCached, db, cache, world, history, StatusTyped, Locked, Critical, Routed
<1>2. Object(old) /\ Object(new) /\ Object(row')
  <2>1. Object(old) /\ Object(row')
    BY <1>0, <1>1 DEF Places
  <2> HIDE DEF old
  <2> QED
    BY <1>1, <2>1, UpdatedFacts
<1>3. /\ Protected => a # Manager
      /\ Protected /\ a = Admin => goal[a] # AutoDisabled
      /\ Protected /\ a # Admin => key[a] # NoOne
  BY <1>0, <1>1 DEF RowSound
<1>4. CASE Done(a) /\ Release(a) /\ heap' = Kept(heap, cur, at')
  BY <1>1, <1>3, <1>4, DoneKeeps DEF Release
<1>5. CASE /\ at' = [at EXCEPT ![a] = cur]
           /\ heap' = Kept(IF MultiKey THEN [heap EXCEPT ![cur] = new] ELSE heap, cur, at')
           /\ Goto(a, p) /\ UNCHANGED <<lock, key, goal>>
  <2> DEFINE object == IF MultiKey THEN new ELSE old
  <2>1. /\ Moves(a) /\ pc'[a] = p /\ p \in {"unroute", "load"} /\ at'[a] = cur
        /\ key'[a] = key[a] /\ goal'[a] = goal[a]
    BY <1>0, <1>1, <1>5 DEF Goto, Moves, StatusTyped
  <2>2. Object(object) /\ (p = "load" => object.status = old.status)
    BY <1>2
  <2>3. /\ DOMAIN heap' = Slots
        /\ \A q \in Slots : q = cur \/ (\E b \in Actors : at'[b] = q) =>
             heap'[q] = (IF q = cur THEN object ELSE heap[q])
    <3> DEFINE H == IF MultiKey THEN [heap EXCEPT ![cur] = new] ELSE heap
    <3>1. \A q \in Slots : H[q] = (IF q = cur THEN object ELSE heap[q])
      BY <1>0, <1>1 DEF StatusTyped
    <3>2. heap' = Kept(H, cur, at')
      BY <1>5
    <3> HIDE DEF H, object
    <3> QED
      BY <3>1, <3>2, KeptFacts
  <2>4. \A b \in Actors \ {a} : pc[b] \in Private => at[b] # cur
    BY <1>0 DEF Places
  <2> HIDE DEF object, new, old, p
  <2>5. /\ StatusTyped' /\ Places' /\ Calm(a) /\ heap'[cur'] = object
    BY <1>0, <1>1, <1>2, <2>1, <2>2, <2>3, <2>4, ObjectChanged DEF Holding, Private
  <2>6. \/ pc'[a] = "unroute"
        \/ routable' = routable /\ heap'[cur'].status = heap[cur].status
    <3>1. p = "load" => object.status = heap[cur].status
      BY <2>2 DEF old
    <3> QED
      BY <1>1, <2>1, <2>5, <3>1
  <2> QED
    BY <1>1, <1>3, <1>5, <2>1, <2>5, <2>6, QuietKeeps DEF Critical
<1> QED
  BY <1>4, <1>5 DEF UpdateCached

LEMMA CacheUpdateKeeps ==
    ASSUME StatusInv, NEW a \in Actors, CacheUpdateChannelStatus(a)
    PROVE  StatusInv'
<1>0. StatusTyped /\ Places /\ Locked /\ Routed /\ AbleAsStored /\ RowSound
  BY DEF StatusInv
<1> DEFINE st == IF MultiKey THEN heap[at[a]].status ELSE goal[a]
           object == [heap[cur] EXCEPT !.status = st]
<1>1. /\ pc[a] = "unroute" /\ lock = a /\ MemoryCache /\ cur \in Slots
      /\ UNCHANGED <<row, ability, cur, lock, at, key, goal, config, clock, recorded>>
      /\ clock' \in Nat /\ pc' = [pc EXCEPT ![a] = "load"]
      /\ routable' = (routable /\ st = Enabled)
      /\ heap' = [heap EXCEPT ![cur].status = st]
  BY <1>0 DEF CacheUpdateChannelStatus, Goto, db, world, history, StatusTyped, Locked,
              Critical, Routed
<1>2. Object(object) /\ Object(row') /\ object.status = st
  <2>1. Object(heap[cur]) /\ Object(row')
    BY <1>0, <1>1 DEF Places
  <2> HIDE DEF st
  <2> QED
    BY <2>1, ObjectWithStatus
<1>3. /\ Protected => a # Manager
      /\ Protected /\ a = Admin => goal[a] # AutoDisabled
      /\ Protected /\ a # Admin => key[a] # NoOne
  BY <1>0, <1>1 DEF RowSound
<1>4. Moves(a) /\ pc'[a] = "load"
  BY <1>0, <1>1 DEF Moves, StatusTyped
<1>5. /\ DOMAIN heap' = Slots
      /\ \A q \in Slots : heap'[q] = (IF q = cur THEN object ELSE heap[q])
  BY <1>0, <1>1 DEF StatusTyped
<1>6. \A b \in Actors \ {a} : pc[b] \in Private => at[b] # cur
  BY <1>0 DEF Places
<1> HIDE DEF object, st
<1>7. /\ StatusTyped' /\ Places' /\ Calm(a) /\ heap'[cur'] = object
  BY <1>0, <1>1, <1>2, <1>4, <1>5, <1>6, ObjectChanged DEF Holding, Private
<1>8. routable' => heap'[cur'].status = Enabled
  BY <1>1, <1>2, <1>7
<1> QED
  BY <1>1, <1>3, <1>4, <1>7, <1>8, QuietKeeps DEF Critical

LEMMA SoundSame ==
    ASSUME NEW ch, NEW other, NEW K, Sound(ch, K),
           other.keys = ch.keys, other.list = ch.list, other.status = ch.status
    PROVE  Sound(other, K)
  BY DEF Sound, StatusOf, Usable

LEMMA LoadRowKeeps ==
    ASSUME StatusInv, NEW a \in Actors, LoadRow(a)
    PROVE  StatusInv'
<1>0. StatusTyped /\ Places /\ Locked /\ Routed /\ AbleAsStored /\ RowSound
  BY DEF StatusInv
<1> DEFINE new == Updated(row, key[a], goal[a])
           object == [new EXCEPT !.cursor = row.cursor]
           p == IF row.status # new.status THEN "saveBoth" ELSE "saveRow"
<1>1. /\ pc[a] = "load" /\ lock = a
      /\ UNCHANGED <<row, ability, cur, routable, config, clock, recorded>>
      /\ clock' \in Nat /\ clock \in Nat
  BY <1>0 DEF LoadRow, db, cache, world, history, StatusTyped, Locked, Critical
<1>2. /\ Object(row) /\ Object(row') /\ Object(new) /\ new.keys = row.keys
      /\ new.status # row.status => (new.status = Enabled <=> goal[a] = Enabled)
  BY <1>0, <1>1, UpdatedFacts DEF Places
<1>3. /\ Protected => a # Manager
      /\ Protected /\ a = Admin => goal[a] # AutoDisabled
      /\ Protected /\ a # Admin => key[a] # NoOne
      /\ Protected => Sound(row, recorded)
  BY <1>0, <1>1 DEF RowSound
<1>4. CASE Done(a) /\ Release(a) /\ heap' = Kept(heap, cur, at')
  BY <1>1, <1>3, <1>4, DoneKeeps DEF Release
<1>5. CASE Hold(a, Free, object) /\ Goto(a, p) /\ UNCHANGED <<lock, key, goal>>
  <2>1. /\ Moves(a) /\ pc'[a] = p /\ p \in {"saveBoth", "saveRow"}
        /\ key'[a] = key[a] /\ goal'[a] = goal[a]
    BY <1>0, <1>1, <1>5 DEF Goto, Hold, Moves, StatusTyped
  <2>2. /\ Object(object) /\ object.status = new.status /\ object.keys = new.keys
        /\ object.list = new.list
    <3> HIDE DEF new
    <3> QED
      BY <1>2, ObjectWithCursor
  <2>3. Free \in Slots /\ Free # cur /\ \A b \in Actors : at[b] # Free
    BY <1>0, FreePlace
  <2>4. Protected => Sound(new, RecordedBy(a))
    <3> HIDE DEF new
    <3>1. Protected => (key[a] = NoOne => goal[a] # AutoDisabled)
      BY <1>3
    <3> QED
      BY <1>1, <1>2, <1>3, <3>1, UpdatedSound DEF RecordedBy, new
  <2>5. /\ p = "saveRow" => new.status = row.status
        /\ p = "saveBoth" => new.status # row.status
    OBVIOUS
  <2> HIDE DEF object, new, p, Free
  <2>6. /\ StatusTyped' /\ Places' /\ Calm(a) /\ (MemoryCache => heap'[cur'] = heap[cur])
        /\ heap'[at'[a]] = object
    BY <1>0, <1>1, <1>2, <1>5, <2>1, <2>2, <2>3, ObjectPut
  <2>7. /\ ~MemoryCache => ~routable'
        /\ routable' => routable /\ heap'[cur'].status = heap[cur].status
    BY <1>1, <2>6, RouteStays
  <2>8. Protected => Sound(heap[at[a]], RecordedBy(a))' /\ heap'[at'[a]].keys = row.keys
    <3> SUFFICES ASSUME Protected
                 PROVE  Sound(heap[at[a]], RecordedBy(a))' /\ heap'[at'[a]].keys = row.keys
      OBVIOUS
    <3>1. Sound(object, RecordedBy(a))
      BY <2>2, <2>4, SoundSame
    <3>2. SameSettings(a)
      BY <2>1, Settled
    <3>3. RecordedBy(a)' = RecordedBy(a)
      BY <1>1, <2>1, <3>2 DEF RecordedBy, RecordedAfter, SameSettings
    <3>4. Sound(heap[at[a]], RecordedBy(a))'
      BY <2>6, <3>1, <3>2, <3>3 DEF Sound, SameSettings, StatusOf, Usable
    <3> QED
      BY <1>2, <2>2, <2>6, <3>4
  <2> QED
    BY <1>1, <1>2, <1>3, <1>5, <2>1, <2>2, <2>5, <2>6, <2>7, <2>8, QuietKeeps DEF Critical
<1> QED
  BY <1>4, <1>5 DEF LoadRow


\* While somebody else is in the middle of UpdateChannelStatus.
LEMMA OthersOut ==
    ASSUME StatusInv, NEW a \in Actors \ {Manager}, lock = a, NoEdits
    PROVE  /\ \A b \in Actors \ {a} : pc[b] \notin Critical /\ pc[b] # "abilities"
           /\ pc[Manager] # "reload"
  BY ActorsApart DEF StatusInv, Locked

LEMMA ReturnFacts ==
    ASSUME StatusTyped, NEW a \in Actors, Return(a), config' = config
    PROVE  /\ Moves(a) /\ at'[a] = NoOne /\ goal'[a] = Enabled
           /\ pc'[a] \in {"idle", "refresh"} /\ (pc'[a] = "refresh" => MemoryCache)
<1>1. CASE a = Admin
  BY <1>1 DEF Return, Moves, StatusTyped
<1>2. CASE a # Admin
  BY <1>2 DEF Return, Done, Moves, StatusTyped
<1> QED
  BY <1>1, <1>2

LEMMA SaveKeeps ==
    ASSUME StatusInv, NEW a \in Actors, SaveStatusState(a)
    PROVE  StatusInv'
<1>0. StatusTyped /\ Places /\ Locked /\ Routed /\ AbleAsStored /\ RowSound
  BY DEF StatusInv
<1> DEFINE object == heap[at[a]]
           saved == [row EXCEPT !.status = object.status]
<1>1. /\ pc[a] \in {"saveRow", "saveBoth"} /\ lock = a
      /\ row' = (IF MultiKey THEN WithInfoOf(saved, object) ELSE saved)
      /\ recorded' = RecordedBy(a)
      /\ UNCHANGED <<ability, cur, routable, config, clock>> /\ clock' \in Nat
  BY <1>0 DEF SaveStatusState, cache, world, StatusTyped, Locked, Critical, RecordedBy
<1>2. Object(object) /\ Object(row) /\ at[a] \in Slots
  BY <1>0, <1>1 DEF Places, Holding, Private
<1>3. /\ Object(row') /\ row'.status = object.status /\ row'.keys = row.keys
      /\ MultiKey => row'.list = object.list
      /\ ~MultiKey => row'.list = row.list
  <2> HIDE DEF object
  <2>1. /\ Object(saved) /\ saved.status = object.status /\ saved.keys = row.keys
        /\ saved.list = row.list
    BY <1>2, ObjectWithStatus
  <2> HIDE DEF saved
  <2> QED
    BY <1>1, <1>2, <2>1, ObjectWithInfo
<1>4. /\ Moves(a) /\ StatusTyped' /\ Places' /\ Calm(a) /\ Locked'
      /\ (MemoryCache => heap'[cur'] = heap[cur])
      /\ goal'[a] = (IF pc[a] = "saveBoth" THEN goal[a] ELSE Enabled)
      /\ pc[a] = "saveBoth" => pc'[a] = "abilities"
                               /\ heap'[at'[a]].status = object.status
      /\ pc[a] = "saveRow" => pc'[a] \in {"idle", "refresh"}
      /\ pc'[a] = "refresh" => MemoryCache
  <2>1. CASE pc[a] = "saveBoth" /\ Goto(a, "abilities") /\ UNCHANGED <<heap, lock, at, key, goal>>
    <3>1. Moves(a) /\ pc'[a] = "abilities" /\ at'[a] = at[a] /\ goal'[a] = goal[a]
      BY <1>0, <1>1, <2>1 DEF Moves, StatusTyped, Goto
    <3>2. DOMAIN heap' = Slots
      BY <1>0, <2>1 DEF StatusTyped
    <3>3. StatusTyped' /\ Places' /\ Calm(a) /\ (MemoryCache => heap'[cur'] = heap[cur])
      BY <1>0, <1>1, <1>2, <1>3, <2>1, <3>1, <3>2, ObjectsStay DEF Private, Holding
    <3>4. Locked'
      BY <1>0, <1>1, <2>1, <3>1, LockedKeeps DEF Critical
    <3> QED
      BY <2>1, <3>1, <3>3, <3>4
  <2>2. CASE pc[a] = "saveRow" /\ Return(a) /\ Release(a) /\ heap' = Kept(heap, cur, at')
    <3>1. /\ Moves(a) /\ at'[a] = NoOne /\ goal'[a] = Enabled
          /\ pc'[a] \in {"idle", "refresh"} /\ (pc'[a] = "refresh" => MemoryCache)
      BY <1>0, <1>1, <2>2, ReturnFacts
    <3>2. /\ DOMAIN heap' = Slots
          /\ \A s \in Slots : s = cur \/ (\E b \in Actors : at'[b] = s) => heap'[s] = heap[s]
      BY <2>2, KeptFacts
    <3>3. StatusTyped' /\ Places' /\ Calm(a) /\ (MemoryCache => heap'[cur'] = heap[cur])
      BY <1>0, <1>1, <1>3, <3>1, <3>2, ObjectsStay DEF Private, Holding
    <3>4. Locked'
      BY <1>0, <1>1, <2>2, <3>1, LockedKeeps DEF Critical, Release
    <3> QED
      BY <2>2, <3>1, <3>3, <3>4
  <2> QED
    BY <2>1, <2>2 DEF SaveStatusState
<1>5. Routed'
  <2>1. /\ ~MemoryCache => ~routable'
        /\ routable' => routable /\ heap'[cur'].status = heap[cur].status
    BY <1>1, <1>4, RouteStays
  <2> QED
    BY <1>0, <1>1, <1>4, <2>1, RoutedKeeps
<1>6. AbleAsStored'
  <2>1. CASE pc[a] = "saveRow" /\ NoEdits
    <3>1. row'.status = row.status
      BY <1>0, <1>3, <2>1 DEF AbleAsStored
    <3> QED
      BY <1>0, <1>1, <1>4, <2>1, <3>1, AbleKeeps
  <2>2. CASE pc[a] = "saveBoth" /\ NoEdits
    <3>1. /\ object.status = Enabled <=> goal[a] = Enabled
      BY <1>0, <2>2 DEF AbleAsStored
    <3>2. \A b \in Actors \ {a} : pc'[b] = pc[b] /\ pc'[b] \notin Critical
      BY <1>0, <1>1, <1>4, ActorsApart DEF Locked, Moves
    <3>3. \A b \in Actors \ {a, Manager} : pc'[b] # "abilities"
      BY <1>0, <1>1, <1>4 DEF Locked, Moves
    <3>4. a # Manager => pc'[Manager] # "abilities"
      BY <1>0, <1>1, <1>4, <2>2, ActorsApart DEF Locked, Moves
    <3>5. pc'[a] = "abilities"
      BY <1>4, <2>2
    <3>6. \A b \in Actors \ {Manager} :
            pc'[b] = "abilities" => (row'.status = Enabled <=> goal'[b] = Enabled)
      BY <1>3, <1>4, <2>2, <3>1, <3>3
    <3>7. pc'[Manager] = "abilities" => heap'[at'[Manager]].status = row'.status
      BY <1>3, <1>4, <2>2, <3>4
    <3>8. \A b \in Actors : pc'[b] \notin {"saveRow", "saveBoth"}
      BY <3>2, <3>5 DEF Critical
    <3> HIDE DEF object
    <3> QED
      BY <3>5, <3>6, <3>7, <3>8 DEF AbleAsStored
  <2>3. CASE ~NoEdits
    <3>1. ~NoEdits'
      BY <1>4, <2>3, Settled DEF SameSettings
    <3> QED
      BY <3>1 DEF AbleAsStored
  <2> QED
    BY <1>1, <2>1, <2>2, <2>3
<1>7. RowSound'
  <2>1. SameSettings(a)
    BY <1>4, Settled
  <2> SUFFICES ASSUME Protected PROVE RowSound'
    BY <2>1 DEF RowSound, SameSettings
  <2>2. /\ Sound(object, RecordedBy(a)) /\ object.keys = row.keys /\ Sound(row, recorded)
        /\ pc[Manager] = "idle" /\ a # Manager /\ goal[Admin] # AutoDisabled
    BY <1>0, <1>1 DEF RowSound
  <2>3. Sound(row', RecordedBy(a))
    <3>1. CASE MultiKey
      BY <1>3, <2>2, <3>1, SoundSame
    <3>2. CASE ~MultiKey
      <4>1. RecordedBy(a) = recorded
        BY <3>2 DEF RecordedBy, RecordedAfter
      <4> QED
        BY <1>3, <2>2, <3>2, <4>1 DEF Sound, StatusOf
    <3> QED
      BY <3>1, <3>2
  <2>4. Sound(row, recorded)'
    BY <1>1, <2>1, <2>3 DEF Sound, SameSettings, StatusOf, Usable
  <2>5. pc'[Manager] = "idle" /\ goal'[Admin] # AutoDisabled
    BY <1>4, <2>2, ActorsApart DEF Moves, Enabled, AutoDisabled
  <2>6. \A b \in Actors : pc'[b] \notin {"saveRow", "saveBoth"}
    BY <1>0, <1>1, <1>4 DEF Locked, Moves, Critical
  <2>7. \A b \in Actors \ {Admin} :
          pc'[b] \in {"answer", "update", "cached", "unroute", "load"} => key'[b] # NoOne
    BY <1>0, <1>1, <1>4 DEF RowSound, Moves
  <2> QED
    BY <2>4, <2>5, <2>6, <2>7 DEF RowSound
<1> QED
  BY <1>4, <1>5, <1>6, <1>7 DEF StatusInv

LEMMA AbilityStatusKeeps ==
    ASSUME StatusInv, NEW a \in Actors, UpdateAbilityStatus(a)
    PROVE  StatusInv'
<1>0. StatusTyped /\ Places /\ Locked /\ Routed /\ AbleAsStored /\ RowSound
  BY DEF StatusInv
<1>1. /\ pc[a] = "abilities" /\ a # Manager /\ lock = a
      /\ ability' = (goal[a] = Enabled) /\ Return(a) /\ Release(a)
      /\ heap' = Kept(heap, cur, at')
      /\ UNCHANGED <<row, cur, routable, config, clock, recorded>> /\ clock' \in Nat
  BY <1>0 DEF UpdateAbilityStatus, cache, world, history, StatusTyped, Locked
<1>2. /\ Moves(a) /\ at'[a] = NoOne /\ goal'[a] = Enabled
      /\ pc'[a] \in {"idle", "refresh"} /\ (pc'[a] = "refresh" => MemoryCache)
  BY <1>0, <1>1, ReturnFacts
<1>3. /\ DOMAIN heap' = Slots /\ Object(row')
      /\ \A s \in Slots : s = cur \/ (\E b \in Actors : at'[b] = s) => heap'[s] = heap[s]
  BY <1>0, <1>1, KeptFacts DEF Places
<1>4. StatusTyped' /\ Places' /\ Calm(a) /\ (MemoryCache => heap'[cur'] = heap[cur])
  BY <1>0, <1>1, <1>2, <1>3, ObjectsStay DEF Private, Holding
<1>5. Locked'
  BY <1>0, <1>1, <1>2, LockedKeeps DEF Critical, Release
<1>6. Routed'
  <2>1. /\ ~MemoryCache => ~routable'
        /\ routable' => routable /\ heap'[cur'].status = heap[cur].status
    BY <1>1, <1>4, RouteStays
  <2> QED
    BY <1>0, <1>1, <1>2, <2>1, RoutedKeeps
<1>7. AbleAsStored'
  <2>1. SameSettings(a)
    BY <1>2, Settled
  <2> SUFFICES ASSUME NoEdits PROVE AbleAsStored'
    BY <2>1 DEF AbleAsStored, SameSettings
  <2>2. \A b \in Actors : pc'[b] \notin {"abilities", "saveRow", "saveBoth"}
    BY <1>0, <1>1, <1>2, OthersOut DEF Moves, Critical
  <2>3. ability' = (row'.status = Enabled)
    BY <1>0, <1>1 DEF AbleAsStored
  <2> QED
    BY <2>2, <2>3, ActorsApart DEF AbleAsStored
<1>8. RowSound'
  BY <1>0, <1>1, <1>2, <1>4, RowKeeps DEF Enabled, AutoDisabled, RowSound
<1> QED
  BY <1>4, <1>5, <1>6, <1>7, <1>8 DEF StatusInv


-----------------------------------------------------------------------------
(* Copies of the row: the channel test, InitChannelCache and the operators. *)

LEMMA CopyKeeps ==
    ASSUME StatusInv, NEW a \in Actors, NEW p \in {"probe", "swap", "manage"},
           Hold(a, Free, row), pc' = [pc EXCEPT ![a] = p],
           pc[a] \notin {"abilities", "reload", "unroute"},
           DOMAIN key' = Actors, DOMAIN goal' = Actors,
           \A b \in Actors \ {a} : key'[b] = key[b] /\ goal'[b] = goal[b],
           p = "swap" => MemoryCache,
           a = Manager /\ p = "manage" => goal'[a] \in ManageOps,
           Protected => a # Manager,
           Protected /\ a = Admin => goal'[a] # AutoDisabled,
           UNCHANGED <<row, ability, cur, routable, lock, config, recorded>>, clock' \in Nat
    PROVE  StatusInv'
<1>0. StatusTyped /\ Places /\ Locked /\ Routed /\ AbleAsStored /\ RowSound
  BY DEF StatusInv
<1>1. Moves(a) /\ pc'[a] = p
  BY <1>0 DEF Moves, StatusTyped, Hold
<1>2. Object(row) /\ Object(row')
  BY <1>0 DEF Places
<1>3. Free \in Slots /\ Free # cur /\ \A b \in Actors : at[b] # Free
  BY <1>0, FreePlace
<1> HIDE DEF Free
<1>4. StatusTyped' /\ Places' /\ Calm(a) /\ (MemoryCache => heap'[cur'] = heap[cur])
  BY <1>0, <1>1, <1>2, <1>3, ObjectPut
<1>5. /\ ~MemoryCache => ~routable'
      /\ routable' => routable /\ heap'[cur'].status = heap[cur].status
  BY <1>4, RouteStays
<1> QED
  BY <1>1, <1>4, <1>5, QuietKeeps DEF Critical

LEMMA StartProbeKeeps ==
    ASSUME StatusInv, StartProbe
    PROVE  StatusInv'
<1>0. StatusTyped
  BY DEF StatusInv
<1>1. /\ Hold(Prober, Free, row) /\ pc' = [pc EXCEPT ![Prober] = "probe"]
      /\ pc[Prober] = "idle"
      /\ UNCHANGED <<row, ability, cur, routable, lock, key, goal, config, recorded>>
      /\ clock' \in Nat
  BY <1>0 DEF StartProbe, Goto, db, cache, world, history, StatusTyped
<1>2. /\ DOMAIN key' = Actors /\ DOMAIN goal' = Actors
      /\ \A b \in Actors \ {Prober} : key'[b] = key[b] /\ goal'[b] = goal[b]
  BY <1>0, <1>1 DEF StatusTyped
<1> HIDE DEF Free
<1> QED
  BY <1>1, <1>2, ActorsApart, CopyKeeps

LEMMA RefreshKeeps ==
    ASSUME StatusInv, NEW a \in Actors, Refresh(a)
    PROVE  StatusInv'
<1>0. StatusTyped /\ Routed /\ RowSound
  BY DEF StatusInv
<1>1. /\ Hold(a, Free, row) /\ pc' = [pc EXCEPT ![a] = "swap"]
      /\ pc[a] = "refresh" \/ (a = Syncer /\ pc[a] = "idle" /\ MemoryCache)
      /\ UNCHANGED <<row, ability, cur, routable, lock, key, goal, config, recorded>>
      /\ clock' \in Nat
  BY <1>0 DEF Refresh, Goto, db, cache, world, history, StatusTyped
<1>2. /\ DOMAIN key' = Actors /\ DOMAIN goal' = Actors
      /\ \A b \in Actors \ {a} : key'[b] = key[b] /\ goal'[b] = goal[b]
  BY <1>0, <1>1 DEF StatusTyped
<1>3. MemoryCache /\ (Protected => a # Manager)
  BY <1>0, <1>1, ActorsApart DEF Routed, RowSound
<1>4. Protected /\ a = Admin => goal'[a] # AutoDisabled
  BY <1>0, <1>1 DEF RowSound
<1> HIDE DEF Free
<1> QED
  BY <1>1, <1>2, <1>3, <1>4, CopyKeeps

LEMMA SwapKeeps ==
    ASSUME StatusInv, NEW a \in Actors, Swap(a)
    PROVE  StatusInv'
<1>0. StatusTyped /\ Places /\ Locked /\ Routed /\ AbleAsStored /\ RowSound
  BY DEF StatusInv
<1> DEFINE copy == heap[at[a]]
           new == IF MultiKey /\ Polling THEN [copy EXCEPT !.cursor = heap[cur].cursor]
                  ELSE copy
<1>1. /\ pc[a] = "swap" /\ cur' = at[a] /\ routable' = (new.status = Enabled)
      /\ Done(a) /\ Release(a)
      /\ heap' = Kept([heap EXCEPT ![at[a]] = new], cur', at')
      /\ UNCHANGED <<row, ability, config, clock, recorded>> /\ clock' \in Nat
  BY <1>0 DEF Swap, db, world, history, StatusTyped
<1>2. /\ MemoryCache /\ at[a] \in Slots /\ Object(copy) /\ Object(row')
      /\ \A b \in Actors \ {a} : at[b] # at[a]
  BY <1>0, <1>1 DEF Routed, Places, Holding, Private
<1>3. Object(new)
  <2> HIDE DEF copy
  <2> QED
    BY <1>2, ObjectWithCursor
<1>4. Moves(a) /\ pc'[a] = "idle" /\ at'[a] = NoOne /\ goal'[a] = Enabled
  BY <1>0, <1>1 DEF Done, Moves, StatusTyped
<1> HIDE DEF new, copy
<1>5. /\ DOMAIN heap' = Slots /\ heap'[cur'] = new
      /\ \A b \in Actors \ {a} : at[b] \in Slots => heap'[at[b]] = heap[at[b]]
  <2> DEFINE H == [heap EXCEPT ![at[a]] = new]
  <2>1. /\ H[at[a]] = new
        /\ \A b \in Actors \ {a} : at[b] \in Slots => H[at[b]] = heap[at[b]]
    BY <1>0, <1>2 DEF StatusTyped
  <2> HIDE DEF H
  <2>2. /\ DOMAIN heap' = Slots
        /\ \A s \in Slots : s = cur' \/ (\E b \in Actors : at'[b] = s) => heap'[s] = H[s]
    BY <1>1, KeptFacts, ZenonT(60) DEF H
  <2> QED
    BY <1>1, <1>2, <1>4, <2>1, <2>2 DEF Moves
<1>6. \A b \in Actors \ {a} : pc[b] \in Private => at[b] \in Slots /\ at[b] # NoOne
  BY <1>0, ActorsApart DEF Places, Holding
<1>7. Calm(a)
  BY <1>5, <1>6 DEF Calm
<1>8. StatusTyped' /\ Places'
  <2>1. \A b \in Actors \ {a} : at[b] \in Slots => Object(heap'[at[b]])
    BY <1>0, <1>5 DEF Places
  <2>2. at'[a] \notin Slots /\ pc'[a] \notin Holding /\ pc'[a] \notin Private
    BY <1>4, ActorsApart DEF Holding, Private
  <2> QED
    BY <1>0, <1>1, <1>2, <1>3, <1>4, <1>5, <1>6, <2>1, <2>2, PlacesKeep
<1>9. (routable' => heap'[cur'].status = Enabled) /\ (Protected => a # Manager)
  BY <1>0, <1>1, <1>5 DEF RowSound
<1> QED
  BY <1>1, <1>2, <1>4, <1>7, <1>8, <1>9, QuietKeeps DEF Critical, Release, Enabled, AutoDisabled

\* There is a key that went bad first.
LEMMA ProbeIndexThere ==
    ASSUME NEW ch, Object(ch), AutoDisabledOf(ch) # {}
    PROVE  ch.keys[selectRecoveryProbeKeyIndex(ch)] # NoOne
<1> DEFINE A == AutoDisabledOf(ch)
           Since(i) == IF i \in DOMAIN ch.since THEN ch.since[i] ELSE 0
           Before(i, j) == \/ Since(i) < Since(j)
                           \/ Since(i) = Since(j) /\ i <= j
           T == {Since(i) : i \in A}
<1>1. A \subseteq Nat /\ A # {} /\ A \subseteq DOMAIN ch.keys
  <2>1. DOMAIN ch.keys \subseteq Nat
    BY DEF Object
  <2> QED
    BY <2>1 DEF AutoDisabledOf
<1>2. \A i \in A : Since(i) \in Nat
  BY DEF Object
<1> HIDE DEF A
<1>3. PICK t \in T : \A u \in T : t <= u
  <2>1. T \subseteq Nat /\ T # {}
    BY <1>1, <1>2
  <2> HIDE DEF T
  <2> QED
    BY <2>1, LeastOfNat
<1> DEFINE F == {i \in A : Since(i) = t}
<1>4. PICK i \in F : \A j \in F : i <= j
  <2>1. F \subseteq Nat /\ F # {}
    BY <1>1, <1>3
  <2> HIDE DEF F
  <2> QED
    BY <2>1, LeastOfNat
<1>5. \A j \in A : Before(i, j)
  <2> TAKE j \in A
  <2>1. Since(i) = t /\ t <= Since(j) /\ Since(j) \in Nat /\ t \in Nat
    BY <1>2, <1>3, <1>4
  <2>2. Since(j) = t => i <= j
    BY <1>4
  <2> HIDE DEF Since
  <2> QED
    BY <2>1, <2>2
<1>6. \E x \in A : \A j \in A : Before(x, j)
  BY <1>4, <1>5
<1>7. selectRecoveryProbeKeyIndex(ch) \in A
  BY <1>6 DEF selectRecoveryProbeKeyIndex, A
<1>8. ch.keys[selectRecoveryProbeKeyIndex(ch)] \in AllKeys
  BY <1>1, <1>7, ElementOfSeq DEF Object
<1> QED
  BY <1>8, ConstantsOK

LEMMA ProbeKeyKeeps ==
    ASSUME StatusInv, ProbeKey
    PROVE  StatusInv'
<1>0. StatusTyped /\ Places
  BY DEF StatusInv
<1> DEFINE object == heap[at[Prober]]
           k == object.keys[selectRecoveryProbeKeyIndex(object)]
<1>1. /\ pc[Prober] = "probe"
      /\ UNCHANGED <<ability, cache, lock, index, world, used, history>>
  BY DEF ProbeKey
<1>2. Object(object)
  BY <1>0, <1>1, ActorsApart DEF Places, Holding
<1>3. CASE GetNextEnabledKey(Prober)
  BY <1>1, <1>3, NextKeyKeeps
<1>4. CASE /\ AutoDisabledOf(object) # {} /\ key' = [key EXCEPT ![Prober] = k]
           /\ goal' = [goal EXCEPT ![Prober] = "pinned"] /\ Goto(Prober, "answer")
           /\ UNCHANGED <<row, heap, at>>
  <2>1. k # NoOne
    <3> HIDE DEF object
    <3> QED
      BY <1>2, <1>4, ProbeIndexThere
  <2> HIDE DEF k
  <2>2. /\ DOMAIN key' = Actors /\ DOMAIN goal' = Actors /\ key'[Prober] = k
        /\ \A b \in Actors \ {Prober} : key'[b] = key[b] /\ goal'[b] = goal[b]
    BY <1>0, <1>4, ActorsApart DEF StatusTyped
  <2>3. /\ pc' = [pc EXCEPT ![Prober] = "answer"] /\ clock' \in Nat
        /\ UNCHANGED <<row, ability, heap, cur, routable, at, lock, config, recorded>>
    BY <1>0, <1>1, <1>4 DEF Goto, cache, world, history, StatusTyped
  <2> QED
    BY <1>1, <2>1, <2>2, <2>3, ActorsApart, TurnsKeep
<1> QED
  BY <1>3, <1>4 DEF ProbeKey

LEMMA ProbeAnswerKeeps ==
    ASSUME StatusInv, ProbeAnswer
    PROVE  StatusInv'
<1>0. StatusTyped /\ RowSound
  BY DEF StatusInv
<1>1. /\ pc[Prober] = "answer" /\ clock' \in Nat
      /\ UNCHANGED <<row, ability, cur, routable, lock, config, recorded>>
  BY <1>0 DEF ProbeAnswer, db, cache, world, history, StatusTyped
<1>2. CASE Done(Prober) /\ heap' = Kept(heap, cur, at')
  BY <1>1, <1>2, ActorsApart, DoneKeeps
<1>3. ASSUME NEW v, goal' = [goal EXCEPT ![Prober] = v], Goto(Prober, "update"),
             UNCHANGED <<heap, at, key>>
      PROVE  StatusInv'
  <2>1. /\ DOMAIN key' = Actors /\ DOMAIN goal' = Actors
        /\ \A b \in Actors \ {Prober} : key'[b] = key[b] /\ goal'[b] = goal[b]
    BY <1>0, <1>3 DEF StatusTyped
  <2>2. Protected => key'[Prober] # NoOne
    BY <1>0, <1>1, <1>3, ActorsApart DEF RowSound
  <2>3. pc' = [pc EXCEPT ![Prober] = "update"]
    BY <1>3 DEF Goto
  <2> QED
    BY <1>1, <1>3, <2>1, <2>2, <2>3, ActorsApart, TurnsKeep
<1> QED
  BY <1>2, <1>3 DEF ProbeAnswer

LEMMA SetStatusKeeps ==
    ASSUME StatusInv, SetStatus
    PROVE  StatusInv'
<1>0. StatusTyped
  BY DEF StatusInv
<1>1. PICK status \in {Enabled, ManuallyDisabled} :
        goal' = [goal EXCEPT ![Admin] = status]
  BY DEF SetStatus
<1>2. /\ pc[Admin] = "idle" /\ clock' \in Nat /\ pc' = [pc EXCEPT ![Admin] = "update"]
      /\ UNCHANGED <<row, ability, heap, cur, routable, at, lock, key, config, recorded>>
  BY <1>0 DEF SetStatus, Goto, db, cache, world, history, StatusTyped
<1>3. /\ DOMAIN key' = Actors /\ DOMAIN goal' = Actors /\ goal'[Admin] # AutoDisabled
      /\ \A b \in Actors \ {Admin} : key'[b] = key[b] /\ goal'[b] = goal[b]
  BY <1>0, <1>1, <1>2, ActorsApart
     DEF StatusTyped, Enabled, ManuallyDisabled, AutoDisabled
<1> QED
  BY <1>2, <1>3, ActorsApart, TurnsKeep

LEMMA StartManagingKeeps ==
    ASSUME StatusInv, StartManaging
    PROVE  StatusInv'
<1>0. StatusTyped
  BY DEF StatusInv
<1>1. PICK op \in ManageOps : goal' = [goal EXCEPT ![Manager] = op]
  BY DEF StartManaging
<1>2. /\ Hold(Manager, Free, row) /\ pc' = [pc EXCEPT ![Manager] = "manage"]
      /\ pc[Manager] = "idle"
      /\ UNCHANGED <<row, ability, cur, routable, lock, key, config, recorded>>
      /\ clock' \in Nat
  BY <1>0 DEF StartManaging, Goto, db, cache, world, history, StatusTyped
<1>3. /\ DOMAIN key' = Actors /\ DOMAIN goal' = Actors /\ goal'[Manager] \in ManageOps
      /\ \A b \in Actors \ {Manager} : key'[b] = key[b] /\ goal'[b] = goal[b]
  BY <1>0, <1>1, <1>2, ActorsApart DEF StatusTyped
<1>4. ~Protected
  BY <1>1 DEF Protected
<1> HIDE DEF Free
<1> QED
  BY <1>2, <1>3, <1>4, ActorsApart, CopyKeeps


-----------------------------------------------------------------------------
(* The operator who manages the keys.                                      *)

\* The j-th of a set of indices is one of them, and another for every j.
LEMMA NthFacts ==
    ASSUME NEW kept, IsFiniteSet(kept), kept \subseteq Int
    PROVE  /\ Cardinality(kept) \in Nat
           /\ \A j \in 1 .. Cardinality(kept) :
                /\ Nth(kept, j) \in kept
                /\ Cardinality({h \in kept : h <= Nth(kept, j)}) = j
           /\ \A i, j \in 1 .. Cardinality(kept) : Nth(kept, i) = Nth(kept, j) => i = j
<1>1. Cardinality(kept) \in Nat
  BY FS_CardinalityType
<1>2. ASSUME NEW j \in 1 .. Cardinality(kept)
      PROVE  \E i \in kept : Cardinality({h \in kept : h <= i}) = j
  <2>1. j - 1 \in Nat /\ j - 1 < Cardinality(kept)
    BY <1>1
  <2>2. PICK p \in kept : Cardinality({q \in kept : q < p}) = j - 1
    BY <2>1, RankFromBelow
  <2> DEFINE B == {q \in kept : q < p}
  <2>3. IsFiniteSet(B) /\ p \notin B
    <3>1. B \in SUBSET kept /\ ~(p < p)
      OBVIOUS
    <3> QED
      BY <3>1, FS_Subset
  <2>4. {h \in kept : h <= p} = B \cup {p}
    <3>1. \A h \in kept : h <= p <=> h < p \/ h = p
      OBVIOUS
    <3> QED
      BY <3>1
  <2>5. Cardinality(B \cup {p}) = Cardinality(B) + 1
    BY <2>3, FS_AddElement
  <2>6. Cardinality({h \in kept : h <= p}) = j
    <3>1. Cardinality(B) = j - 1
      BY <2>2
    <3>2. Cardinality({h \in kept : h <= p}) = Cardinality(B) + 1
      BY <2>4, <2>5
    <3> HIDE DEF B
    <3> QED
      BY <1>1, <3>1, <3>2
  <2> QED
    BY <2>6
<1>3. \A j \in 1 .. Cardinality(kept) :
        Nth(kept, j) \in kept /\ Cardinality({h \in kept : h <= Nth(kept, j)}) = j
  BY <1>2 DEF Nth
<1> QED
  BY <1>1, <1>3

\* Picking indices picks keys, none of them twice.
LEMMA KeysAtFacts ==
    ASSUME NEW K, NEW s \in Seq(K), IsInjective(s), NEW kept, kept \subseteq DOMAIN s
    PROVE  /\ KeysAt(s, kept) \in Seq(K) /\ IsInjective(KeysAt(s, kept))
           /\ Cardinality(kept) \in Nat /\ DOMAIN KeysAt(s, kept) = 1 .. Cardinality(kept)
           /\ \A j \in 1 .. Cardinality(kept) :
                Nth(kept, j) \in kept /\ KeysAt(s, kept)[j] = s[Nth(kept, j)]
<1>1. IsFiniteSet(kept) /\ kept \subseteq Int
  <2>1. DOMAIN s = 1 .. Len(s) /\ Len(s) \in Nat
    OBVIOUS
  <2>2. IsFiniteSet(1 .. Len(s))
    BY <2>1, FS_Interval
  <2> QED
    BY <2>1, <2>2, FS_Subset
<1> DEFINE n == Cardinality(kept)
           t == KeysAt(s, kept)
<1>2. /\ n \in Nat /\ \A j \in 1 .. n : Nth(kept, j) \in kept
      /\ \A i, j \in 1 .. n : Nth(kept, i) = Nth(kept, j) => i = j
  BY <1>1, NthFacts
<1> HIDE DEF n
<1>3. t = [j \in 1 .. n |-> s[Nth(kept, j)]]
  BY DEF KeysAt, n
<1>4. \A j \in 1 .. n : s[Nth(kept, j)] \in K
  BY <1>2, ElementOfSeq
<1>5. t \in Seq(K)
  BY <1>2, <1>3, <1>4
<1>6. IsInjective(t)
  BY <1>2, <1>3 DEF IsInjective
<1> QED
  BY <1>2, <1>3, <1>5, <1>6 DEF n

LEMMA InjectiveParts ==
    ASSUME NEW K, NEW s \in Seq(K), NEW t \in Seq(K), IsInjective(s \o t)
    PROVE  IsInjective(t)
<1> SUFFICES ASSUME NEW i \in DOMAIN t, NEW j \in DOMAIN t, t[i] = t[j]
             PROVE  i = j
  BY DEF IsInjective
<1>1. /\ Len(s) + i \in DOMAIN (s \o t) /\ Len(s) + j \in DOMAIN (s \o t)
      /\ (s \o t)[Len(s) + i] = t[i] /\ (s \o t)[Len(s) + j] = t[j]
      /\ Len(s) \in Nat /\ i \in Nat /\ j \in Nat
  OBVIOUS
<1>2. Len(s) + i = Len(s) + j
  BY <1>1 DEF IsInjective
<1> QED
  BY <1>1, <1>2

LEMMA InjectiveJoined ==
    ASSUME NEW K, NEW s \in Seq(K), NEW t \in Seq(K), IsInjective(s), IsInjective(t),
           \A i \in DOMAIN s : \A j \in DOMAIN t : s[i] # t[j]
    PROVE  IsInjective(s \o t) /\ s \o t \in Seq(K)
<1> DEFINE u == s \o t
<1>1. /\ DOMAIN u = 1 .. (Len(s) + Len(t)) /\ Len(s) \in Nat /\ Len(t) \in Nat
      /\ DOMAIN s = 1 .. Len(s) /\ DOMAIN t = 1 .. Len(t)
      /\ \A i \in DOMAIN u : /\ i <= Len(s) => u[i] = s[i]
                             /\ i > Len(s) => u[i] = t[i - Len(s)]
  OBVIOUS
<1> SUFFICES ASSUME NEW i \in DOMAIN u, NEW j \in DOMAIN u, u[i] = u[j] PROVE i = j
  BY DEF IsInjective
<1> HIDE DEF u
<1>2. i \in Int /\ j \in Int
  BY <1>1
<1>3. CASE i <= Len(s) /\ j <= Len(s)
  BY <1>1, <1>2, <1>3 DEF IsInjective
<1>4. CASE i > Len(s) /\ j > Len(s)
  <2>1. i - Len(s) \in DOMAIN t /\ j - Len(s) \in DOMAIN t
    BY <1>1, <1>2, <1>4
  <2>2. i - Len(s) = j - Len(s)
    BY <1>1, <1>4, <2>1 DEF IsInjective
  <2> QED
    BY <1>1, <1>2, <2>2
<1>5. CASE i <= Len(s) /\ j > Len(s)
  <2>1. i \in DOMAIN s /\ j - Len(s) \in DOMAIN t
    BY <1>1, <1>2, <1>5
  <2> QED
    BY <1>1, <1>5, <2>1
<1>6. CASE i > Len(s) /\ j <= Len(s)
  <2>1. j \in DOMAIN s /\ i - Len(s) \in DOMAIN t
    BY <1>1, <1>2, <1>6
  <2> QED
    BY <1>1, <1>6, <2>1
<1> QED
  BY <1>1, <1>2, <1>3, <1>4, <1>5, <1>6


\* What is left of a channel at some of its indices.
LEMMA OnlyAtFacts ==
    ASSUME NEW ch, Object(ch), NEW kept, kept \subseteq DOMAIN ch.keys
    PROVE  LET new == OnlyAt(ch, kept)
           IN /\ new.keys = KeysAt(ch.keys, kept)
              /\ \A j \in DOMAIN new.list : new.list[j] = ch.list[Nth(kept, j)]
              /\ \A j \in DOMAIN new.prio : new.prio[j] = ch.prio[Nth(kept, j)]
              /\ \A j \in DOMAIN new.since : new.since[j] \in Nat
              /\ \A j : j \in DOMAIN new.list <=>
                   j \in 1 .. Cardinality(kept) /\ Nth(kept, j) \in DOMAIN ch.list
              /\ \A j : j \in DOMAIN new.prio <=>
                   j \in 1 .. Cardinality(kept) /\ Nth(kept, j) \in DOMAIN ch.prio
<1> DEFINE Moved(f) == [j \in {j \in 1 .. Cardinality(kept) : Nth(kept, j) \in DOMAIN f} |->
                          f[Nth(kept, j)]]
           new == OnlyAt(ch, kept)
<1>1. /\ new.keys = KeysAt(ch.keys, kept) /\ new.list = Moved(ch.list)
      /\ new.since = Moved(ch.since) /\ new.prio = Moved(ch.prio)
  <2> HIDE DEF Moved
  <2>1. new = [ch EXCEPT !.keys = KeysAt(@, kept), !.list = Moved(@),
                         !.since = Moved(@), !.prio = Moved(@)]
    BY DEF OnlyAt, Moved
  <2> HIDE DEF new
  <2> QED
    BY <2>1 DEF Object
<1> HIDE DEF new
<1>2. \A j \in DOMAIN new.since : new.since[j] \in Nat
  BY <1>1 DEF Object
<1> QED
  BY <1>1, <1>2 DEF new

\* Every operation leaves a list of keys without repetitions, and times.
LEMMA ManagedFacts ==
    ASSUME NEW ch, Object(ch), NEW op \in Operations, NEW i, config \in Configs
    PROVE  LET new == Managed(ch, op, i)
           IN /\ new.keys \in Seq(AllKeys) /\ IsInjective(new.keys)
              /\ \A j \in DOMAIN new.since : new.since[j] \in Nat
<1> DEFINE new == Managed(ch, op, i)
<1>0. /\ ch.keys \in Seq(AllKeys) /\ IsInjective(ch.keys)
      /\ \A j \in DOMAIN ch.since : ch.since[j] \in Nat
  BY DEF Object
<1>1. CASE op \in {"disable_key", "disable_all_keys", "set_key_priority",
                   "clear_key_priority"}
  <2>1. new.keys = ch.keys /\ new.since = ch.since
    BY <1>1 DEF Managed, Object
  <2> HIDE DEF new
  <2>2. new.keys \in Seq(AllKeys) /\ IsInjective(new.keys)
        /\ \A j \in DOMAIN new.since : new.since[j] \in Nat
    BY <1>0, <2>1
  <2> QED
    BY <2>2 DEF new
<1>2. CASE op \in {"enable_key", "enable_all_keys"}
  <2>1. /\ new.keys = ch.keys
        /\ \/ new.since = Without(ch.since, i)
           \/ new.since = [j \in {} |-> 0]
    BY <1>2 DEF Managed, Object
  <2> HIDE DEF new
  <2>2. \A j \in DOMAIN new.since : new.since[j] \in Nat
    BY <1>0, <2>1 DEF Without
  <2>3. new.keys \in Seq(AllKeys) /\ IsInjective(new.keys)
        /\ \A j \in DOMAIN new.since : new.since[j] \in Nat
    BY <1>0, <2>1, <2>2
  <2> QED
    BY <2>3 DEF new
<1>3. CASE op \in {"delete_key", "delete_disabled_keys"}
  <2>1. \E kept \in SUBSET DOMAIN ch.keys : new = OnlyAt(ch, kept)
    BY <1>3 DEF Managed
  <2>2. PICK kept \in SUBSET DOMAIN ch.keys : new = OnlyAt(ch, kept)
    BY <2>1
  <2> HIDE DEF new
  <2>3. /\ new.keys = KeysAt(ch.keys, kept)
        /\ \A j \in DOMAIN new.since : new.since[j] \in Nat
    BY <2>2, OnlyAtFacts
  <2>4. new.keys \in Seq(AllKeys) /\ IsInjective(new.keys)
    BY <1>0, <2>3, KeysAtFacts
  <2> QED
    BY <2>3, <2>4 DEF new
<1>4. /\ NewKeys \in Seq(AllKeys) /\ IsInjective(NewKeys)
  <2>1. /\ NewKeys \in Seq(AllKeys) /\ config.keys \in Seq(AllKeys)
        /\ IsInjective(config.keys \o NewKeys)
    BY ConstantsOK
  <2> QED
    BY <2>1, InjectiveParts
<1>5. CASE op = "append"
  <2> DEFINE S == {j \in DOMAIN NewKeys : NewKeys[j] \notin ToSet(ch.keys)}
             more == KeysAt(NewKeys, S)
  <2>1. new.keys = ch.keys \o more /\ new.since = ch.since
    BY <1>5 DEF Managed, Object
  <2>2. /\ more \in Seq(AllKeys) /\ IsInjective(more) /\ DOMAIN more = 1 .. Cardinality(S)
        /\ \A j \in 1 .. Cardinality(S) : Nth(S, j) \in S /\ more[j] = NewKeys[Nth(S, j)]
    <3>1. S \subseteq DOMAIN NewKeys
      OBVIOUS
    <3> HIDE DEF S
    <3> QED
      BY <1>4, <3>1, KeysAtFacts
  <2>3. \A j \in DOMAIN ch.keys : \A k \in DOMAIN more : ch.keys[j] # more[k]
    BY <2>2 DEF ToSet
  <2> HIDE DEF more, S, new
  <2>4. IsInjective(ch.keys \o more) /\ ch.keys \o more \in Seq(AllKeys)
    BY <1>0, <2>2, <2>3, InjectiveJoined
  <2>5. new.keys \in Seq(AllKeys) /\ IsInjective(new.keys)
        /\ \A j \in DOMAIN new.since : new.since[j] \in Nat
    BY <1>0, <2>1, <2>4
  <2> QED
    BY <2>5 DEF new
<1>6. CASE op = "replace"
  <2>1. new.keys = NewKeys /\ new.since = ch.since
    BY <1>6 DEF Managed, Object
  <2> HIDE DEF new
  <2>2. new.keys \in Seq(AllKeys) /\ IsInjective(new.keys)
        /\ \A j \in DOMAIN new.since : new.since[j] \in Nat
    BY <1>0, <1>4, <2>1
  <2> QED
    BY <2>2 DEF new
<1> QED
  BY <1>1, <1>2, <1>3, <1>5, <1>6 DEF Operations


LEMMA ManageKeeps ==
    ASSUME StatusInv, Manage
    PROVE  StatusInv'
<1>0. StatusTyped /\ Places /\ Locked /\ Routed /\ AbleAsStored /\ RowSound
  BY DEF StatusInv
<1> DEFINE op == goal[Manager]
           old == heap[at[Manager]]
           edits == op \in {"append", "replace"}
           new == Managed(old, op, index)
           keys == IF new.keys = <<>> THEN row.keys ELSE new.keys
           n == Len(keys)
<1>1. /\ pc[Manager] = "manage" /\ (edits \/ lock = NoOne) /\ Manager \in Actors
      /\ UNCHANGED <<ability, cur, routable, config, clock>> /\ clock' \in Nat
  BY <1>0, ActorsApart DEF Manage, cache, world, StatusTyped
<1>2. /\ op \in ManageOps /\ op \in Operations /\ Object(old) /\ Object(row) /\ ~Protected
      /\ at[Manager] \in Slots /\ config \in Configs
  <2>1. config \in Configs /\ op \in ManageOps
    BY <1>0, <1>1 DEF Locked, StatusTyped
  <2>2. op \in Operations
    BY <2>1, ConstantsOK DEF ManageOps
  <2> QED
    BY <1>0, <1>1, <2>1, <2>2 DEF Places, Holding, Private, Protected
<1>3. CASE Done(Manager) /\ heap' = Kept(heap, cur, at') /\ UNCHANGED <<row, lock, history>>
  BY <1>1, <1>2, <1>3, DoneKeeps DEF history
<1>4. CASE /\ row' = [row EXCEPT !.status = IF edits THEN @ ELSE old.status,
                                 !.keys = keys, !.list = Trimmed(new.list, n),
                                 !.since = new.since,
                                 !.prio = Trimmed(new.prio, n),
                                 !.cursor = old.cursor]
           /\ lock' = IF edits THEN lock ELSE Manager
           /\ Goto(Manager, "reload")
           /\ UNCHANGED <<heap, at, key, goal>>
  <2>1. /\ keys \in Seq(AllKeys) /\ IsInjective(keys) /\ keys # <<>>
        /\ \A j \in DOMAIN new.since : new.since[j] \in Nat
    <3>1. /\ new.keys \in Seq(AllKeys) /\ IsInjective(new.keys)
          /\ \A j \in DOMAIN new.since : new.since[j] \in Nat
      <4> HIDE DEF old, op
      <4> QED
        BY <1>2, ManagedFacts
    <3>2. row.keys \in Seq(AllKeys) /\ IsInjective(row.keys) /\ row.keys # <<>>
      BY <1>2 DEF Object
    <3> HIDE DEF new
    <3> QED
      BY <3>1, <3>2
  <2> HIDE DEF keys, n, new, old, op
  <2>2. Object(row')
    <3>1. DOMAIN row' = DOMAIN row /\ row'.keys = keys /\ row'.since = new.since
      BY <1>2, <1>4 DEF Object
    <3> QED
      BY <1>2, <2>1, <3>1 DEF Object
  <2>3. Moves(Manager) /\ pc'[Manager] = "reload" /\ at'[Manager] = at[Manager]
    BY <1>0, <1>1, <1>4 DEF Moves, StatusTyped, Goto
  <2>4. DOMAIN heap' = Slots
    BY <1>0, <1>4 DEF StatusTyped
  <2>5. /\ StatusTyped' /\ Places' /\ Calm(Manager)
        /\ (MemoryCache => heap'[cur'] = heap[cur])
    BY <1>0, <1>1, <1>2, <1>4, <2>2, <2>3, <2>4, ObjectsStay DEF Private, Holding
  <2>6. NoEdits => ~edits /\ lock = NoOne /\ lock' = Manager
    BY <1>1, <1>2, <1>4 DEF NoEdits
  <2>7. Locked'
    BY <1>0, <1>1, <1>4, <2>3, <2>6, LockedKeeps DEF Critical
  <2>8. Routed'
    <3>1. /\ ~MemoryCache => ~routable'
          /\ routable' => routable /\ heap'[cur'].status = heap[cur].status
      BY <1>1, <2>5, RouteStays
    <3> QED
      BY <1>0, <1>1, <2>3, <3>1, RoutedKeeps
  <2>9. SameSettings(Manager)
    BY <2>3, Settled
  <2>10. AbleAsStored'
    <3> SUFFICES ASSUME NoEdits PROVE AbleAsStored'
      BY <2>9 DEF AbleAsStored, SameSettings
    <3>1. \A b \in Actors \ {Manager} :
            pc'[b] \notin Critical /\ pc'[b] # "abilities"
      BY <1>0, <2>3, <2>6, ActorsApart DEF Locked, Moves
    <3> QED
      BY <2>3, <3>1 DEF AbleAsStored, Critical
  <2>11. RowSound'
    BY <1>2, <2>9 DEF RowSound, SameSettings
  <2> QED
    BY <2>5, <2>7, <2>8, <2>10, <2>11 DEF StatusInv
<1> QED
  BY <1>3, <1>4 DEF Manage

LEMMA ReloadKeeps ==
    ASSUME StatusInv, Reload
    PROVE  StatusInv'
<1>0. StatusTyped /\ Places /\ Locked /\ Routed /\ AbleAsStored /\ RowSound
  BY DEF StatusInv
<1>1. /\ pc[Manager] = "reload" /\ Manager \in Actors
      /\ Hold(Manager, at[Manager], row) /\ Goto(Manager, "abilities")
      /\ UNCHANGED <<row, ability, cur, routable, lock, key, goal, config, clock, recorded>>
      /\ clock' \in Nat
  BY <1>0, ActorsApart DEF Reload, db, cache, world, history, StatusTyped
<1>2. /\ at[Manager] \in Slots /\ at[Manager] # cur
      /\ \A b \in Actors \ {Manager} : at[b] # at[Manager]
      /\ Object(row) /\ Object(row') /\ ~Protected
  BY <1>0, <1>1 DEF Places, Holding, Private, RowSound
<1>3. Moves(Manager) /\ pc'[Manager] = "abilities"
  BY <1>0, <1>1 DEF Moves, StatusTyped, Goto, Hold
<1>4. /\ StatusTyped' /\ Places' /\ Calm(Manager)
      /\ (MemoryCache => heap'[cur'] = heap[cur]) /\ heap'[at'[Manager]] = row
  BY <1>0, <1>1, <1>2, <1>3, ObjectPut
<1>5. Locked'
  BY <1>0, <1>1, <1>3, LockedKeeps DEF Critical, Locked
<1>6. Routed'
  <2>1. /\ ~MemoryCache => ~routable'
        /\ routable' => routable /\ heap'[cur'].status = heap[cur].status
    BY <1>1, <1>4, RouteStays
  <2> QED
    BY <1>0, <1>1, <1>3, <2>1, RoutedKeeps
<1>7. SameSettings(Manager)
  BY <1>3, Settled
<1>8. AbleAsStored'
  <2> SUFFICES ASSUME NoEdits PROVE AbleAsStored'
    BY <1>7 DEF AbleAsStored, SameSettings
  <2>1. \A b \in Actors \ {Manager} : pc'[b] \notin Critical /\ pc'[b] # "abilities"
    BY <1>0, <1>1, <1>3, ActorsApart DEF Locked, Moves
  <2> QED
    BY <1>1, <1>3, <1>4, <2>1 DEF AbleAsStored, Critical
<1>9. RowSound'
  BY <1>2, <1>7 DEF RowSound, SameSettings
<1> QED
  BY <1>4, <1>5, <1>6, <1>8, <1>9 DEF StatusInv

LEMMA UpdateAbilitiesKeeps ==
    ASSUME StatusInv, UpdateAbilities
    PROVE  StatusInv'
<1>0. StatusTyped /\ Places /\ Locked /\ Routed /\ AbleAsStored /\ RowSound
  BY DEF StatusInv
<1>1. /\ pc[Manager] = "abilities" /\ Manager \in Actors
      /\ ability' = (heap[at[Manager]].status = Enabled)
      /\ UNCHANGED <<row, cur, routable, config, clock, recorded>> /\ clock' \in Nat
      /\ Object(row') /\ ~Protected
  BY <1>0, ActorsApart DEF UpdateAbilities, cache, world, history, StatusTyped, Places, RowSound
<1>2. /\ Moves(Manager) /\ pc'[Manager] \in {"refresh", "idle"}
      /\ pc'[Manager] = "refresh" => MemoryCache
      /\ at'[Manager] \in {at[Manager], NoOne} /\ DOMAIN heap' = Slots
      /\ \A s \in Slots : s = cur \/ (\E b \in Actors : at'[b] = s) => heap'[s] = heap[s]
      /\ lock' = lock \/ (lock = Manager /\ lock' = NoOne)
  <2>1. CASE MemoryCache /\ Goto(Manager, "refresh") /\ UNCHANGED <<heap, lock, at, key, goal>>
    BY <1>0, <1>1, <2>1 DEF Moves, StatusTyped, Goto
  <2>2. CASE Done(Manager) /\ Release(Manager) /\ heap' = Kept(heap, cur, at')
    <3>1. /\ Moves(Manager) /\ pc'[Manager] = "idle" /\ at'[Manager] = NoOne
      BY <1>0, <1>1, <2>2 DEF Moves, StatusTyped, Done
    <3>2. /\ DOMAIN heap' = Slots
          /\ \A s \in Slots : s = cur \/ (\E b \in Actors : at'[b] = s) => heap'[s] = heap[s]
      BY <2>2, KeptFacts
    <3>3. lock' = lock \/ (lock = Manager /\ lock' = NoOne)
      BY <2>2 DEF Release
    <3> QED
      BY <3>1, <3>2, <3>3
  <2> QED
    BY <2>1, <2>2 DEF UpdateAbilities
<1>3. /\ StatusTyped' /\ Places' /\ Calm(Manager)
      /\ (MemoryCache => heap'[cur'] = heap[cur])
  BY <1>0, <1>1, <1>2, ObjectsStay DEF Private, Holding
<1>4. Locked'
  BY <1>0, <1>1, <1>2, LockedKeeps DEF Critical
<1>5. Routed'
  <2>1. /\ ~MemoryCache => ~routable'
        /\ routable' => routable /\ heap'[cur'].status = heap[cur].status
    BY <1>1, <1>3, RouteStays
  <2> QED
    BY <1>0, <1>1, <1>2, <2>1, RoutedKeeps
<1>6. SameSettings(Manager)
  BY <1>2, Settled
<1>7. AbleAsStored'
  <2> SUFFICES ASSUME NoEdits PROVE AbleAsStored'
    BY <1>6 DEF AbleAsStored, SameSettings
  <2>1. \A b \in Actors \ {Manager} : pc'[b] \notin Critical /\ pc'[b] # "abilities"
    BY <1>0, <1>1, <1>2, ActorsApart DEF Locked, Moves
  <2>2. ability' = (row'.status = Enabled)
    BY <1>0, <1>1 DEF AbleAsStored
  <2> QED
    BY <1>2, <2>1, <2>2 DEF AbleAsStored, Critical
<1>8. RowSound'
  BY <1>1, <1>6 DEF RowSound, SameSettings
<1> QED
  BY <1>3, <1>4, <1>5, <1>7, <1>8 DEF StatusInv

-----------------------------------------------------------------------------
(* The theorems about the status.                                          *)

LEMMA StatusInitInv == Init => StatusInv
<1> SUFFICES ASSUME Init PROVE StatusInv
  OBVIOUS
<1>1. /\ config \in Configs /\ ConstantsOK
      /\ config.keys \in Seq(AllKeys) /\ Len(config.keys) > 0
      /\ DOMAIN config.list \subseteq DOMAIN config.keys
      /\ IsInjective(config.keys)
  <2>1. /\ config \in Configs /\ config.keys \in Seq(AllKeys) /\ Len(config.keys) > 0
        /\ DOMAIN config.list \subseteq DOMAIN config.keys
        /\ IsInjective(config.keys \o NewKeys) /\ NewKeys \in Seq(AllKeys)
    BY ConstantsOK DEF Init
  <2>2. ASSUME NEW i \in DOMAIN config.keys, NEW j \in DOMAIN config.keys,
               config.keys[i] = config.keys[j]
        PROVE  i = j
    <3>1. /\ i \in DOMAIN (config.keys \o NewKeys) /\ j \in DOMAIN (config.keys \o NewKeys)
          /\ (config.keys \o NewKeys)[i] = config.keys[i]
          /\ (config.keys \o NewKeys)[j] = config.keys[j]
      BY <2>1
    <3> QED
      BY <2>1, <2>2, <3>1 DEF IsInjective
  <2> QED
    BY <2>1, <2>2, ConstantsOK DEF IsInjective
<1>2. /\ row.keys = config.keys /\ row.list = config.list
      /\ row.since = [i \in DOMAIN config.list |-> 0]
      /\ row.status = (IF \A i \in DOMAIN config.keys : i \in DOMAIN config.list
                       THEN AutoDisabled ELSE Enabled)
      /\ DOMAIN row = {"status", "keys", "list", "since", "prio", "cursor"}
  BY DEF Init, FirstKeys, FirstList
<1>3. Object(row)
  BY <1>1, <1>2 DEF Object
<1>4. /\ MemoryCache => cur \in Slots
      /\ DOMAIN heap = Slots /\ (MemoryCache => heap[cur] = row)
  <2>1. MemoryCache => cur = Min(Slots)
    BY DEF Init
  <2>2. Slots # {}
    <3> SUFFICES ASSUME Slots = {} PROVE FALSE
      OBVIOUS
    <3>1. Cardinality(Slots) = 0
      BY FS_EmptySet
    <3> QED
      BY <3>1, ActorsFinite, ConstantsOK
  <2>3. PICK x \in Slots : \A y \in Slots : x <= y
    BY <2>2, ConstantsOK, LeastExists
  <2>4. Min(Slots) \in Slots
    BY <2>3 DEF Min
  <2>5. /\ heap = [s \in Slots |-> IF s = cur THEN row ELSE NoOne]
    BY DEF Init
  <2> QED
    BY <2>1, <2>4, <2>5
<1>5. /\ DOMAIN pc = Actors /\ DOMAIN at = Actors /\ DOMAIN key = Actors
      /\ DOMAIN goal = Actors /\ clock \in Nat
      /\ \A a \in Actors : /\ pc[a] = "idle" /\ at[a] = NoOne /\ key[a] = NoOne
                           /\ goal[a] = Enabled
  BY DEF Init
<1>6. StatusTyped
  BY <1>1, <1>4, <1>5 DEF StatusTyped
<1>7. Places
  BY <1>3, <1>4, <1>5, ActorsApart DEF Places, Holding, Private
<1>8. Locked
  BY <1>5, ActorsApart DEF Locked, Critical
<1>9. Routed
  BY <1>4, <1>5 DEF Routed, Init
<1>10. AbleAsStored
  BY <1>5, ActorsApart DEF AbleAsStored, Init
<1>11. RowSound
  <2>1. Sound(row, recorded)
    <3>1. recorded = {config.keys[i] : i \in DOMAIN config.list}
      BY DEF Init, FirstKeys, FirstList
    <3>2. \A i \in DOMAIN row.list : row.list[i] # Enabled
      BY <1>1, <1>2, ConstantsOK DEF Enabled, AutoDisabled, ManuallyDisabled
    <3>3. \A i \in DOMAIN row.keys : row.keys[i] \in recorded <=> i \in DOMAIN row.list
      BY <1>1, <1>2, <3>1, SMTT(30) DEF IsInjective
    <3>4. row.status = AutoDisabled => Usable(row) = {}
      BY <1>2, <3>2 DEF Usable, StatusOf, Enabled, AutoDisabled
    <3> QED
      BY <3>2, <3>3, <3>4 DEF Sound, StatusOf, Enabled, AutoDisabled
  <2> QED
    BY <1>5, <2>1, ActorsApart DEF RowSound, Enabled, AutoDisabled
<1> QED
  BY <1>6, <1>7, <1>8, <1>9, <1>10, <1>11 DEF StatusInv

\* Heal and Tick leave all that the invariant speaks of but the clock.
LEMMA WorldKeeps ==
    ASSUME StatusInv, clock' \in Nat,
           UNCHANGED <<config, row, ability, heap, cur, routable, lock, pc, at, key, goal,
                       recorded>>
    PROVE  StatusInv'
<1>1. /\ MemoryCache' = MemoryCache /\ MultiKey' = MultiKey /\ ManageOps' = ManageOps
      /\ Protected' = Protected /\ NoEdits' = NoEdits
  BY DEF MemoryCache, MultiKey, ManageOps, Protected, NoEdits, Polling
<1>2. StatusTyped' /\ Places'
  BY <1>1 DEF StatusInv, StatusTyped, Places
<1>3. Locked' /\ Routed'
  BY <1>1 DEF StatusInv, Locked, Routed
<1>4. AbleAsStored'
  BY <1>1 DEF StatusInv, AbleAsStored
<1>5. RowSound'
  BY <1>1, ZenonT(60)
     DEF StatusInv, RowSound, Sound, StatusOf, Usable, RecordedBy, RecordedAfter
<1> QED
  BY <1>2, <1>3, <1>4, <1>5 DEF StatusInv

LEMMA StatusNextInv ==
    ASSUME StatusInv, Next \/ UNCHANGED vars
    PROVE  StatusInv'
<1>0. clock \in Nat
  BY DEF StatusInv, StatusTyped
<1>1. CASE UNCHANGED vars
  BY <1>0, <1>1, WorldKeeps DEF vars
<1>2. CASE Heal
  BY <1>0, <1>2, WorldKeeps DEF Heal, db, cache, history
<1>3. CASE Tick
  BY <1>0, <1>3, WorldKeeps DEF Tick, db, cache, history
<1>4. ASSUME NEW r \in Requests, Select(r) \/ Pick(r) \/ Answer(r) PROVE StatusInv'
  BY <1>4, SelectKeeps, PickKeeps, RequestAnswerKeeps
<1>5. ASSUME NEW a \in Actors, UpdateChannelStatus(a) PROVE StatusInv'
  BY <1>5, TakeLockKeeps, UpdateCachedKeeps, CacheUpdateKeeps, LoadRowKeeps, SaveKeeps,
     AbilityStatusKeeps DEF UpdateChannelStatus
<1>6. ASSUME NEW a \in Actors, Refresh(a) \/ Swap(a) PROVE StatusInv'
  BY <1>6, RefreshKeeps, SwapKeeps
<1>7. CASE StartProbe \/ ProbeKey \/ ProbeAnswer
  BY <1>7, StartProbeKeeps, ProbeKeyKeeps, ProbeAnswerKeeps
<1>8. CASE SetStatus \/ StartManaging \/ Manage \/ Reload \/ UpdateAbilities
  BY <1>8, SetStatusKeeps, StartManagingKeeps, ManageKeeps, ReloadKeeps,
     UpdateAbilitiesKeeps
<1> QED
  BY <1>1, <1>2, <1>3, <1>4, <1>5, <1>6, <1>7, <1>8 DEF Next


LEMMA StatusInvSound == StatusInv => StatusIsSound
<1> SUFFICES ASSUME StatusInv PROVE StatusIsSound
  OBVIOUS
<1>0. StatusTyped /\ Places /\ Locked /\ Routed /\ AbleAsStored /\ RowSound
  BY DEF StatusInv
<1>1. DisabledAsRecorded
  <2> SUFFICES ASSUME Protected PROVE DisabledAsRecorded
    BY DEF DisabledAsRecorded
  <2>1. Object(row) /\ Sound(row, recorded)
    BY <1>0 DEF Places, RowSound
  <2>2. \A k \in recorded \cap ToSet(row.keys) : StatusOfKey(row, k) # Enabled
    <3> TAKE k \in recorded \cap ToSet(row.keys)
    <3>1. IndexOfKey(row, k) \in DOMAIN row.keys /\ row.keys[IndexOfKey(row, k)] = k
      BY <2>1, KeyThere
    <3> QED
      BY <2>1, <3>1 DEF Sound, StatusOfKey
  <2>3. \A i \in AutoDisabledOf(row) : row.keys[i] \in recorded
    BY <2>1 DEF Sound, AutoDisabledOf
  <2> QED
    BY <2>2, <2>3 DEF DisabledAsRecorded
<1>2. AutoDisabledHasNoKey
  BY <1>0 DEF RowSound, Sound, AutoDisabledHasNoKey
<1>3. RoutesFollowStatus
  <2> SUFFICES ASSUME lock = NoOne PROVE RoutesFollowStatus
    BY DEF RoutesFollowStatus
  <2>1. \A a \in Actors : pc[a] # "unroute"
    BY <1>0, ActorsApart DEF Locked, Critical
  <2>2. NoEdits => pc[Manager] # "reload" /\ \A a \in Actors : pc[a] # "abilities"
    BY <1>0, ActorsApart DEF Locked
  <2>3. NoEdits => ability = (row.status = Enabled)
    BY <1>0, <2>2 DEF AbleAsStored
  <2>4. routable => heap[cur].status = Enabled
    BY <1>0, <2>1 DEF Routed
  <2> QED
    BY <2>3, <2>4 DEF RoutesFollowStatus, NoEdits
<1> QED
  BY <1>1, <1>2, <1>3 DEF StatusIsSound

LEMMA StatusInvariant == MCSpec => []StatusInv
<1>1. MCInit => StatusInv
  BY StatusInitInv DEF MCInit
<1>2. StatusInv /\ [MCNext]_<<part, vars, retryVars>> => StatusInv'
  <2> SUFFICES ASSUME StatusInv, [MCNext]_<<part, vars, retryVars>> PROVE StatusInv'
    OBVIOUS
  <2>1. Next \/ UNCHANGED vars
    BY DEF MCNext
  <2> QED
    BY <2>1, StatusNextInv
<1> QED
  BY <1>1, <1>2, PTL DEF MCSpec

\* No status change is lost or invented, whatever requests, probes, syncs and
\* operators do between the statements of UpdateChannelStatus: what was recorded
\* stays, a channel is auto-disabled only for want of a key, and the abilities
\* table and the routing map follow the status.
THEOREM StatusChangesHold == MCSpec => []StatusIsSound
  BY StatusInvariant, StatusInvSound, PTL

\* Deleting keys re-indexes the statuses and the priorities with the keys.
LEMMA DeletingKeeps ==
    ASSUME StatusInv, Manage, deleted' # deleted,
           Managed(heap[at[Manager]], goal[Manager], index).keys # <<>>,
           NEW k \in ToSet(row'.keys)
    PROVE  LET old == heap[at[Manager]]
           IN /\ StatusOfKey(row', k) = StatusOfKey(old, k)
              /\ PriorityOf(row', IndexOfKey(row', k)) = PriorityOf(old, IndexOfKey(old, k))
<1> DEFINE op == goal[Manager]
           old == heap[at[Manager]]
           new == Managed(old, op, index)
<1>1. Object(old) /\ Object(row) /\ Object(row')
  <2>1. StatusInv'
    BY ManageKeeps
  <2>2. Object(row')
    BY <2>1 DEF StatusInv, Places
  <2> QED
    BY <2>2, ActorsApart DEF StatusInv, Places, Manage, Holding, Private
<1>2. /\ deleted' = deleted \cup DeletedBy(old, op, index)
      /\ row' = [row EXCEPT !.status = IF op \in {"append", "replace"} THEN @ ELSE old.status,
                            !.keys = new.keys, !.list = Trimmed(new.list, Len(new.keys)),
                            !.since = new.since,
                            !.prio = Trimmed(new.prio, Len(new.keys)),
                            !.cursor = old.cursor]
  BY DEF Manage, history
<1>3. op \in {"delete_key", "delete_disabled_keys"}
  BY <1>2 DEF DeletedBy
<1>4. \E kept \in SUBSET DOMAIN old.keys : new = OnlyAt(old, kept)
  BY <1>3 DEF Managed
<1>5. PICK kept \in SUBSET DOMAIN old.keys : new = OnlyAt(old, kept)
  BY <1>4
<1> HIDE DEF new, op, old
<1> DEFINE n == Cardinality(kept)
<1>6. /\ new.keys = KeysAt(old.keys, kept)
      /\ \A j \in DOMAIN new.list : new.list[j] = old.list[Nth(kept, j)]
      /\ \A j \in DOMAIN new.prio : new.prio[j] = old.prio[Nth(kept, j)]
      /\ \A j : j \in DOMAIN new.list <=> j \in 1 .. n /\ Nth(kept, j) \in DOMAIN old.list
      /\ \A j : j \in DOMAIN new.prio <=> j \in 1 .. n /\ Nth(kept, j) \in DOMAIN old.prio
  BY <1>1, <1>5, OnlyAtFacts
<1>7. /\ n \in Nat /\ DOMAIN new.keys = 1 .. n /\ new.keys \in Seq(AllKeys)
      /\ \A j \in 1 .. n : Nth(kept, j) \in kept /\ new.keys[j] = old.keys[Nth(kept, j)]
  BY <1>1, <1>6, KeysAtFacts DEF Object
<1>8. Len(new.keys) = n
  BY <1>7
<1> HIDE DEF n
<1>9. /\ row'.keys = new.keys /\ row'.list = Trimmed(new.list, n)
      /\ row'.prio = Trimmed(new.prio, n)
  BY <1>1, <1>2, <1>8 DEF Object
<1>10. PICK j \in 1 .. n : new.keys[j] = k
  BY <1>7, <1>9 DEF ToSet
<1>11. IndexOfKey(row', k) = j
  <2>1. j \in DOMAIN row'.keys /\ row'.keys[j] = k
    BY <1>7, <1>9, <1>10
  <2> QED
    BY <1>1, <2>1, KeyIndex
<1> DEFINE i == Nth(kept, j)
<1>12. i \in DOMAIN old.keys /\ old.keys[i] = k
  BY <1>5, <1>7, <1>10
<1>13. IndexOfKey(old, k) = i
  BY <1>1, <1>12, KeyIndex
<1>14. /\ j \in DOMAIN row'.list <=> i \in DOMAIN old.list
       /\ j \in DOMAIN row'.list => row'.list[j] = old.list[i]
       /\ j \in DOMAIN row'.prio <=> i \in DOMAIN old.prio
       /\ j \in DOMAIN row'.prio => row'.prio[j] = old.prio[i]
  BY <1>6, <1>9, <1>10 DEF Trimmed
<1> HIDE DEF i
<1>15. /\ StatusOfKey(row', k) = StatusOfKey(old, k)
       /\ PriorityOf(row', IndexOfKey(row', k)) = PriorityOf(old, IndexOfKey(old, k))
  BY <1>11, <1>13, <1>14 DEF StatusOfKey, StatusOf, PriorityOf
<1> QED
  BY <1>15 DEF old

\* Each of the keys that remain after a deletion keeps its own status and its
\* own priority, at whatever index it is then (ManageMultiKeys).
THEOREM KeysKeepState == MCSpec => KeysKeepTheirState
<1> DEFINE A == LET old == heap[at[Manager]]
                IN Manage /\ deleted' # deleted
                     /\ Managed(old, goal[Manager], index).keys # <<>> =>
                     \A k \in ToSet(row'.keys) :
                       /\ StatusOfKey(row', k) = StatusOfKey(old, k)
                       /\ PriorityOf(row', IndexOfKey(row', k))
                            = PriorityOf(old, IndexOfKey(old, k))
<1>1. StatusInv /\ [MCNext]_<<part, vars, retryVars>> => [A]_vars
  BY DeletingKeeps
<1> QED
  BY <1>1, StatusInvariant, PTL DEF MCSpec, KeysKeepTheirState
=============================================================================
