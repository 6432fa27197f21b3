-------------------------------- MODULE Spam ---------------------------------
(***************************************************************************)
(* What SpamScoringService (internal/spam) tells from more than one        *)
(* mention: the author's rate of duplicates and the burst, the author's    *)
(* densest window of posted_at.  published_at may carry a time zone or     *)
(* not, and Python does not compare the two.                               *)
(*                                                                         *)
(* The scores made of one mention's words, and how they are weighed, are   *)
(* left out.                                                               *)
(***************************************************************************)
EXTENDS Normalization

CONSTANT BurstWindow   \* burst_window_minutes

ASSUME SpamAssumption == BurstWindow \in Nat

Authors(mentions) == {m.author : m \in Range(mentions)}
MentionsBy(author, mentions) ==
    At(mentions, {i \in DOMAIN mentions : mentions[i].author = author})

Posted(mentions) ==
    LET timed == At(mentions, {i \in DOMAIN mentions : mentions[i].posted # NoTime})
    IN  [i \in DOMAIN timed |-> timed[i].posted]

\* sorted() raises TypeError as soon as it compares a naive and an aware time.
Incomparable(times) == Cardinality({t.zone : t \in Range(times)}) > 1

\* sorted(): fewer than n are before the n-th, and n or more are up to it.
Sorted(minute) ==
    LET before(t) == Cardinality({i \in DOMAIN minute : minute[i] < t})
        upTo(t)   == Cardinality({i \in DOMAIN minute : minute[i] <= t})
    IN  [n \in DOMAIN minute |->
            CHOOSE t \in Range(minute) : before(t) < n /\ n <= upTo(t)]

\* Mutant: times stay in the order of the mentions.
MinutesAsTheyCome(times) == [i \in DOMAIN times |-> times[i].minute]

Minutes(times) == Sorted([i \in DOMAIN times |-> times[i].minute])

\* left follows right until the window spans BurstWindow minutes or less.
Lefts(at) ==
    LET left[right \in 0 .. Len(at)] ==
            LET from == left[right - 1]
            IN  IF right = 0 THEN 1
                ELSE CHOOSE l \in from .. right :
                         /\ at[right] - at[l] <= BurstWindow
                         /\ \A k \in from .. l - 1 : at[right] - at[k] > BurstWindow
    IN  left

Burst(times) ==
    LET at   == Minutes(times)
        left == Lefts(at)
    IN  IF Len(at) < 2 THEN 0 ELSE Max({right - left[right] + 1 : right \in DOMAIN at})

AuthorProfile(mentions) ==
    [total      |-> Len(mentions),
     duplicates |-> Len(SelectSeq(mentions, LAMBDA m : m.copies > 1)),
     timed      |-> Len(Posted(mentions)),
     burst      |-> Burst(Posted(mentions))]

Profiles(mentions) ==
    [author \in Authors(mentions) |-> AuthorProfile(MentionsBy(author, mentions))]

Raises(mentions) ==
    \E author \in Authors(mentions) : Incomparable(Posted(MentionsBy(author, mentions)))
==============================================================================
