---------------------------- MODULE Coordinates ----------------------------
(***************************************************************************)
(* The network coordinate of an instance (CoordinateClient of              *)
(* types/coordinate.rs) as pings move it (notify_ping_complete of          *)
(* serf/delegate.rs), with the cache of coordinates and the removal of     *)
(* members that are reaped (erase_node of serf/base.rs).                   *)
(*                                                                         *)
(* Of the floating point numbers the model keeps whether they are finite:  *)
(* an estimate is a number that is new at each update, 0 is the one at the *)
(* origin.  A peer that is "far" has a finite coordinate and an infinite   *)
(* distance (its square overflows).  Update and cache are two steps: the   *)
(* client's lock is released between them.                                 *)
(***************************************************************************)
EXTENDS Integers, Sequences, FiniteSets, TLC

CONSTANTS Peer,
          RTTs,                     \* bound: round trip times
          MaxRTT,                   \* MAX_RTT
          adjustment_window_size,
          latency_filter_size,
          MaxPings                  \* bound: pings that are completed

ASSUME CoordinateOptions == /\ adjustment_window_size \in Nat /\ latency_filter_size \in Nat \ {0}
                            /\ RTTs \subseteq Nat /\ MaxRTT \in Nat /\ MaxPings \in Nat

VARIABLES
  coord,        \* the estimate of the client
  resets,       \* the statistics
  adjustment_samples, adjustment_index,
  latency_filter_samples,
  rtt_seconds,  \* history: of the last update: [peer, median]
  heard,        \* history: the times of each peer, since it was forgotten
  cache,        \* the cached coordinates: whether a peer has one, and the own estimate, or -1
  pending,      \* pings between update and cache: [peer, after]
  members,      \* the peers that are members
  late,         \* history: the erased peers that a ping was not done with
  pings, far    \* history: completed pings, and pings of far peers

coordVars == <<coord, resets, adjustment_samples, adjustment_index, latency_filter_samples,
               rtt_seconds, heard, cache, pending, members, late, pings, far>>

Slots == 0 .. adjustment_window_size - 1

CoordInit ==
  /\ coord = 0 /\ resets = 0
  /\ adjustment_samples = [i \in Slots |-> "finite"] /\ adjustment_index = 0
  /\ latency_filter_samples = [p \in Peer |-> <<>>]
  /\ rtt_seconds = [peer |-> CHOOSE p \in Peer : TRUE, median |-> -1]
  /\ heard = [p \in Peer |-> <<>>]
  /\ cache = [peers |-> {}, own |-> -1]
  /\ pending = {} /\ members = Peer /\ late = {}
  /\ pings = 0 /\ far = 0

-----------------------------------------------------------------------------
(* CoordinateClient::update.                                               *)

\* Mutant of Trim: keeps one sample more.
TrimLate(samples) ==
  IF Len(samples) > latency_filter_size + 1 THEN Tail(samples) ELSE samples

Trim(samples) ==
  IF Len(samples) > latency_filter_size THEN Tail(samples) ELSE samples

\* The median of a sorted copy.
Median(samples) == SortSeq(samples, LAMBDA x, y : x < y)[Len(samples) \div 2 + 1]

latency_filter(p, rtt) ==
  LET samples == Trim(Append(latency_filter_samples[p], rtt))
  IN  /\ latency_filter_samples' = [latency_filter_samples EXCEPT ![p] = samples]
      /\ rtt_seconds' = [peer |-> p, median |-> Median(samples)]

update_adjustment(place) ==
  IF adjustment_window_size = 0 THEN UNCHANGED <<adjustment_samples, adjustment_index>>
  ELSE /\ adjustment_samples' = [adjustment_samples EXCEPT ![adjustment_index] =
                                   IF place = "far" THEN "infinite" ELSE "finite"]
       /\ adjustment_index' = (adjustment_index + 1) % adjustment_window_size

\* The adjustment is the sum of the samples: it is finite when they are.
is_valid(samples) == \A i \in Slots : samples[i] = "finite"

\* A coordinate is accepted when it has our dimensions and is finite itself.
check_coordinate(place) == place \in {"near", "far"}

\* Mutant of update: a reset starts the window again, the samples in it stay.
UpdateRestarts(p, place, rtt) ==
  /\ check_coordinate(place) /\ rtt <= MaxRTT
  /\ latency_filter(p, rtt)
  /\ adjustment_samples' = [adjustment_samples EXCEPT ![adjustment_index] =
                              IF place = "far" THEN "infinite" ELSE "finite"]
  /\ IF is_valid(adjustment_samples')
     THEN /\ coord' = pings + 1
          /\ adjustment_index' = (adjustment_index + 1) % adjustment_window_size
          /\ UNCHANGED resets
     ELSE coord' = 0 /\ resets' = resets + 1 /\ adjustment_index' = 0

\* What is invalid after the update is replaced by the origin; the samples stay.
update(p, place, rtt) ==
  /\ check_coordinate(place) /\ rtt <= MaxRTT
  /\ latency_filter(p, rtt)
  /\ update_adjustment(place)
  /\ IF is_valid(adjustment_samples') THEN coord' = pings + 1 /\ UNCHANGED resets
                                      ELSE coord' = 0 /\ resets' = resets + 1

-----------------------------------------------------------------------------
(* notify_ping_complete, in its two steps, and erase_node.                 *)

\* A ping whose payload is empty, of another version or broken, whose coordinate is not
\* accepted, or that took too long changes nothing.
PingRejected ==
  /\ pings < MaxPings
  /\ \E place \in {"none", "broken", "invalid", "near"}, rtt \in RTTs :
       ~(check_coordinate(place) /\ rtt <= MaxRTT)
  /\ UNCHANGED coordVars

\* The ack of a ping may come when its peer has been erased.
PingUpdate ==
  /\ pings < MaxPings
  /\ \E p \in Peer, place \in {"none", "broken", "invalid", "near", "far"}, rtt \in RTTs :
       /\ update(p, place, rtt)
       /\ heard' = [heard EXCEPT ![p] = Append(@, rtt)]
       /\ pending' = pending \cup {[peer |-> p, after |-> coord', ping |-> pings]}
       /\ far' = IF place = "far" THEN far + 1 ELSE far
       /\ late' = IF p \in members THEN late ELSE late \cup {p}
  /\ pings' = pings + 1
  /\ UNCHANGED <<cache, members>>

\* Mutant of PingCache: the coordinate that update returned is cached.
PingCacheAfter ==
  \E g \in pending :
    /\ cache' = [peers |-> cache.peers \cup {g.peer}, own |-> g.after]
    /\ pending' = pending \ {g}
    /\ UNCHANGED <<coord, resets, adjustment_samples, adjustment_index, latency_filter_samples,
                   rtt_seconds, heard, members, late, pings, far>>

\* The own coordinate is read again, with the cache locked.
PingCache ==
  \E g \in pending :
    /\ cache' = [peers |-> cache.peers \cup {g.peer}, own |-> coord]
    /\ pending' = pending \ {g}
    /\ UNCHANGED <<coord, resets, adjustment_samples, adjustment_index, latency_filter_samples,
                   rtt_seconds, heard, members, late, pings, far>>

\* forget_node and the removal from the cache; the member is gone.
erase_node ==
  \E p \in members :
    /\ members' = members \ {p}
    /\ latency_filter_samples' = [latency_filter_samples EXCEPT ![p] = <<>>]
    /\ heard' = [heard EXCEPT ![p] = <<>>]
    /\ cache' = [cache EXCEPT !.peers = @ \ {p}]
    /\ late' = IF \E g \in pending : g.peer = p THEN late \cup {p} ELSE late
    /\ UNCHANGED <<coord, resets, adjustment_samples, adjustment_index, rtt_seconds, pending,
                   pings, far>>

CoordNext == PingRejected \/ PingUpdate \/ PingCache \/ erase_node

-----------------------------------------------------------------------------
(* Properties.                                                             *)

\* The time an update works with is a median of the last latency_filter_size times of that
\* peer since it was forgotten: at most half of them are below it, and fewer than half above.
MedianOfRecent ==
  LET p == rtt_seconds.peer
      m == rtt_seconds.median
      n == Len(heard[p])
      k == IF n < latency_filter_size THEN n ELSE latency_filter_size
      recent == n - k + 1 .. n
  IN  m >= 0 /\ n > 0 =>
        /\ \E i \in recent : heard[p][i] = m
        /\ 2 * Cardinality({i \in recent : heard[p][i] < m}) <= k
        /\ 2 * Cardinality({i \in recent : heard[p][i] > m}) < k

\* One peer whose distance overflows costs at most as many resets as the window has slots:
\* its sample outlives the reset (the samples are not cleared), and leaves with its slot.  The
\* coordinate that is handed out (get_coordinate, ack_payload) is finite all the while.
ResetsBounded == coord >= 0 /\ resets <= adjustment_window_size * far

\* When no ping is between update and cache, the own coordinate in the cache is the one the
\* client has, however the two steps of several pings were interleaved; and the coordinate of
\* a peer that was erased is in the cache only if a ping of that peer ended after that.
OwnCacheFresh ==
  /\ pending = {} /\ cache.own # -1 => cache.own = coord
  /\ cache.peers \subseteq members \cup late
=============================================================================
