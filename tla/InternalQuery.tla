--------------------------- MODULE InternalQuery ---------------------------
(***************************************************************************)
(* The queries that Serf answers itself (serf/internal_query.rs) and the   *)
(* two users of them: the key manager (key_manager.rs), with an operator   *)
(* who rotates the encryption key of the cluster, and the resolution of a  *)
(* name conflict (resolve_node_conflict in serf/base.rs), with two         *)
(* instances that claim the same id.                                       *)
(*                                                                         *)
(* How a query and its answers travel is the subject of Query.tla.  Here a *)
(* query reaches an instance at any time, at most once, or never, even     *)
(* after it was closed; an answer arrives while the query is open or is    *)
(* lost.                                                                   *)
(***************************************************************************)
EXTENDS Integers, Sequences, FiniteSets

CONSTANTS Node,          \* the members that hold keyrings
          Keys,          \* bound: keys 1 .. Keys, in the order of the rotation
          Claimant,      \* the two instances with the same id
          Voter,         \* the other members of their cluster
          MaxQueries,    \* bound: queries of a rotation
          MaxAny,        \* bound: queries of a behaviour with requests in any order
          Limit,         \* query_response_size_limit, in units of MIN_ENCODED_KEY_LENGTH
          LongList       \* bound: the longest key list of ListIsLongest

Nobody == "Nobody"

ASSUME KeysAreNumbered == Keys \in Nat \ {0}
ASSUME MembersExist ==
  /\ IsFiniteSet(Node) /\ Node # {}
  /\ IsFiniteSet(Voter) /\ IsFiniteSet(Claimant) /\ Nobody \notin Claimant
ASSUME InternalBounds ==
  /\ MaxQueries \in Nat /\ MaxAny \in 0 .. MaxQueries /\ Cardinality(Claimant) <= MaxQueries
  /\ Limit \in Nat /\ LongList \in Nat

VARIABLES
  mode,         \* what the behaviour is about: the rotation of a key, key requests in any
                \* order, or a name conflict
  ring,         \* the keyrings (external): the installed keys
  primary,      \*                      and the primary key
  queries,      \* the queries sent so far
  reached,      \* [id, node] pairs: who has handled which query
  refused,      \* history: the pairs of reached whose keyring was not changed
  replies,      \* answers that were sent and not received
  req,          \* stream_key_response of the request that holds the lock
  done,         \* what the operator knows to be done on every member
  address,      \* what each voter's table holds for the contested id
  vote          \* resolve_node_conflict, of each claimant

vars == <<mode, ring, primary, queries, reached, refused, replies, req, done, address, vote>>

Key    == 1 .. Keys
KeyOp  == {"InstallKey", "UseKey", "RemoveKey", "ListKey"}
Query  == [ty : KeyOp, key : Key, from : {"manager"}] \cup [ty : {"Conflict"}, from : Claimant]
Id     == 1 .. MaxQueries
Budget == [rotation |-> MaxQueries, any |-> MaxAny, conflict |-> Cardinality(Claimant)]

\* KeyResponse, and the query whose answers it counts (0 for none).
KeyResponse == [id : Nat, num_resp : Nat, num_err : Nat, keys : [Key -> Nat], primary_keys : [Key -> Nat]]
NoCounts    == [k \in Key |-> 0]
Idle        == [id |-> 0, num_resp |-> 0, num_err |-> 0, keys |-> NoCounts, primary_keys |-> NoCounts]

\* What an instance answers: a KeyResponseMessage, a ConflictResponseMessage or nothing.
Answer ==
  [result : BOOLEAN, keys : SUBSET Key, primary : Key \cup {0}] \cup [at : Claimant \cup {Nobody}]

Ballot == [id : Nat, answers : [Voter -> Claimant \cup {Nobody}],
           outcome : {"none", "stays", "quits"}]

TypeOK ==
  /\ mode \in DOMAIN Budget
  /\ ring \in [Node -> SUBSET Key] /\ primary \in [Node -> Key]
  /\ \A n \in Node : primary[n] \in ring[n]
  /\ queries \in Seq(Query) /\ Len(queries) <= MaxQueries
  /\ refused \subseteq reached /\ reached \subseteq Id \X (Node \cup Voter)
  /\ replies \subseteq [id : Id, from : Node \cup Voter, answer : Answer]
  /\ req \in KeyResponse /\ req.num_err <= req.num_resp /\ req.num_resp < Cardinality(Node)
  /\ done \subseteq KeyOp \X Key
  /\ address \in [Voter -> Claimant \cup {Nobody}]
  /\ vote \in [Claimant -> Ballot]

NoVote == [id |-> 0, answers |-> [v \in Voter |-> Nobody], outcome |-> "none"]

\* Every member uses the first key.
Init ==
  /\ mode \in DOMAIN Budget
  /\ ring = [n \in Node |-> {1}] /\ primary = [n \in Node |-> 1]
  /\ queries = <<>> /\ reached = {} /\ refused = {} /\ replies = {}
  /\ req = Idle
  /\ done = {<<"InstallKey", 1>>, <<"UseKey", 1>>}
  /\ address \in IF mode = "conflict" THEN [Voter -> Claimant \cup {Nobody}] ELSE {[v \in Voter |-> Nobody]}
  /\ vote = [c \in Claimant |-> NoVote]

env     == <<mode, address>>
keyring == <<ring, primary>>

-----------------------------------------------------------------------------
(* Sending a query and an answer.                                          *)

internal_query(q) ==
  /\ Len(queries) < Budget[mode]
  /\ queries' = Append(queries, q)

\* The querier still has a handler registered for the answers.
Open(id) == \/ req.id = id
            \/ \E c \in Claimant : vote[c].id = id /\ vote[c].outcome = "none"

\* The instance handles the query once; its answer may be lost, and nobody waits for it
\* when the query is closed.
Respond(id, n, answers) ==
  /\ Open(id)
  /\ reached' = reached \cup {<<id, n>>}
  /\ \E a \in answers : replies' = replies \cup {[id |-> id, from |-> n, answer |-> a]}

Drop(id, n) ==
  /\ reached' = reached \cup {<<id, n>>}
  /\ UNCHANGED replies

Reaches(id, n, types) ==
  /\ id \in DOMAIN queries /\ queries[id].ty \in types
  /\ <<id, n>> \notin reached
  /\ UNCHANGED <<env, queries, req, done, vote>>

-----------------------------------------------------------------------------
(* The handlers of the key queries.                                        *)

Said(result, keys, pk) == [result |-> result, keys |-> keys, primary |-> pk]
Ok   == Said(TRUE, {}, 0)
Fail == Said(FALSE, {}, 0)

\* The response after a change of the ring: write_keyring_file may fail after it.
Saved == {Ok, Fail}

handle_install_key(n, k) ==
  /\ ring' = [ring EXCEPT ![n] = @ \cup {k}]
  /\ UNCHANGED primary

handle_use_key(n, k) ==
  /\ k \in ring[n]
  /\ primary' = [primary EXCEPT ![n] = k]
  /\ UNCHANGED ring

handle_remove_key(n, k) ==
  /\ k # primary[n]
  /\ ring' = [ring EXCEPT ![n] = @ \ {k}]
  /\ UNCHANGED primary

\* The keyring refuses to use a key it does not hold, and to remove the primary one.
Refused(n, ty, k) ==
  (ty = "UseKey" /\ k \notin ring[n]) \/ (ty = "RemoveKey" /\ k = primary[n])

ChangeKey(id, n) ==
  /\ Reaches(id, n, {"InstallKey", "UseKey", "RemoveKey"})
  /\ LET q == queries[id] IN
       \/ /\ CASE q.ty = "InstallKey" -> handle_install_key(n, q.key)
               [] q.ty = "UseKey"     -> handle_use_key(n, q.key)
               [] OTHER               -> handle_remove_key(n, q.key)
          /\ Respond(id, n, Saved) \/ Drop(id, n)
          /\ UNCHANGED refused
       \/ /\ Refused(n, q.ty, q.key)
          /\ Respond(id, n, {Fail}) \/ Drop(id, n)
          /\ refused' = refused \cup {<<id, n>>}
          /\ UNCHANGED keyring

\* check_response_size on a list of len keys, the primary key and perhaps the message
\* about the truncation, all taken as one unit long.
Fits(len, cut, limit) == len + 1 + (IF cut THEN 1 ELSE 0) <= limit

MaxListKeys(actual, limit) == IF limit < actual THEN limit ELSE actual

\* Mutant of key_list_response_with_correct_size: sends the list as cut for the next turn.
ListCutTwice(actual, limit) ==
  LET max == MaxListKeys(actual, limit)
      try[i \in 0 .. max] ==
        LET cut == i < max
        IN  IF Fits(IF cut THEN i + 1 ELSE actual, cut, limit)
            THEN IF cut THEN i ELSE actual
            ELSE IF i = 0 THEN -1 ELSE try[i - 1]
  IN  try[max]

\* The number of keys in the response, -1 when there is none: all of them, or else as
\* many as fit with the message, down to one.
key_list_response_with_correct_size(actual, limit) ==
  LET max == MaxListKeys(actual, limit)
      try[i \in 0 .. max] ==
        LET cut == i < max
            len == IF cut THEN i + 1 ELSE actual
        IN  IF Fits(len, cut, limit) THEN len ELSE IF i = 0 THEN -1 ELSE try[i - 1]
  IN  try[max]

handle_list_keys(id, n) ==
  LET actual == Cardinality(ring[n])
      shown  == key_list_response_with_correct_size(actual, Limit)
  IN  /\ Reaches(id, n, {"ListKey"})
      /\ \/ /\ shown >= 0
            /\ Respond(id, n, {Said(TRUE, ks, primary[n]) :
                                 ks \in {s \in SUBSET ring[n] : Cardinality(s) = shown}})
         \/ Drop(id, n)
      /\ UNCHANGED <<keyring, refused>>

-----------------------------------------------------------------------------
(* The key manager and its operator.                                       *)

\* The key of the rotation that every member is known to use.
Current == CHOOSE k \in Key : /\ <<"UseKey", k>> \in done
                              /\ \A j \in Key : <<"UseKey", j>> \in done => j <= k

\* An operator goes on to the next step of a rotation when every member has reported
\* the last one, and repeats a step as often as it takes.
MayRequest(ty, k) ==
  mode = "rotation" =>
  CASE ty = "InstallKey" -> k > Current
    [] ty = "UseKey"     -> k > Current /\ <<"InstallKey", k>> \in done
    [] ty = "RemoveKey"  -> k < Current
    [] OTHER             -> k = Current

\* install_key, use_key, remove_key, list_keys: under the lock, one at a time.
handle_key_request(ty, k) ==
  /\ mode # "conflict" /\ req.id = 0 /\ MayRequest(ty, k)
  /\ internal_query([ty |-> ty, key |-> k, from |-> "manager"])
  /\ req' = [Idle EXCEPT !.id = Len(queries')]
  /\ UNCHANGED <<env, keyring, reached, refused, replies, done, vote>>

\* Mutant of Counted: a result that is false is not an error.
CountedOk(r, a) ==
  [r EXCEPT !.num_resp     = @ + 1,
            !.keys         = [k \in Key |-> IF k \in a.keys THEN @[k] + 1 ELSE @[k]],
            !.primary_keys = [k \in Key |-> IF k = a.primary THEN @[k] + 1 ELSE @[k]]]

\* One turn of stream_key_response.  (Empty, undecodable and other answers, which no
\* member sends, count as errors.)
Counted(r, a) ==
  [r EXCEPT !.num_resp     = @ + 1,
            !.num_err      = IF a.result THEN @ ELSE @ + 1,
            !.keys         = [k \in Key |-> IF k \in a.keys THEN @[k] + 1 ELSE @[k]],
            !.primary_keys = [k \in Key |-> IF k = a.primary THEN @[k] + 1 ELSE @[k]]]

\* Mutant of num_nodes: the members other than the local one.
NumOthers == Cardinality(Node) - 1

\* The members in the table of the instance, itself included.
num_nodes == Cardinality(Node)

\* What a KeyResponse tells the operator to be true of all members.
Told(r) ==
  LET q == queries[r.id] IN
    IF r.num_resp < num_nodes \/ r.num_err > 0 THEN {}
    ELSE IF q.ty = "ListKey"
    THEN ({"InstallKey"} \X {k \in Key : r.keys[k] = num_nodes})
           \cup ({"UseKey"} \X {k \in Key : r.primary_keys[k] = num_nodes})
    ELSE {<<q.ty, q.key>>}

\* The call returns r: all members have answered, or the channel was closed.
Return(r) == req' = Idle /\ done' = done \cup Told(r)

KeyAnswer(reply) ==
  /\ reply \in replies /\ req.id # 0 /\ reply.id = req.id
  /\ replies' = replies \ {reply}
  /\ LET r == Counted(req, reply.answer) IN
       IF r.num_resp = num_nodes THEN Return(r) ELSE req' = r /\ UNCHANGED done
  /\ UNCHANGED <<env, keyring, queries, reached, refused, vote>>

KeyTimeout ==
  /\ req.id # 0
  /\ Return(req)
  /\ replies' = {r \in replies : r.id # req.id}
  /\ UNCHANGED <<env, keyring, queries, reached, refused, vote>>

-----------------------------------------------------------------------------
(* Name conflicts.                                                         *)

\* handle_node_conflict at a claimant, then resolve_node_conflict.  (The two claimants
\* do not answer: the query is about them.)
resolve_node_conflict(c) ==
  /\ mode = "conflict" /\ vote[c].id = 0
  /\ internal_query([ty |-> "Conflict", from |-> c])
  /\ vote' = [vote EXCEPT ![c].id = Len(queries')]
  /\ UNCHANGED <<env, keyring, reached, refused, replies, req, done>>

\* A voter answers with the address in its table, or with an empty payload.
handle_conflict(id, v) ==
  /\ Reaches(id, v, {"Conflict"})
  /\ Respond(id, v, {[at |-> address[v]]}) \/ Drop(id, v)
  /\ UNCHANGED <<keyring, refused>>

\* The claimant takes an answer; an empty one does not decode and is not counted.
ConflictAnswer(c, reply) ==
  /\ reply \in replies /\ vote[c].outcome = "none" /\ reply.id = vote[c].id
  /\ replies' = replies \ {reply}
  /\ vote' = [vote EXCEPT ![c].answers[reply.from] = reply.answer.at]
  /\ UNCHANGED <<env, keyring, queries, reached, refused, req, done>>

Counting(c) == {v \in Voter : vote[c].answers[v] # Nobody}
Matching(c) == {v \in Voter : vote[c].answers[v] = c}

\* Mutants of Wins: half of the answers are enough; all members have to agree.
WinsTie(c) == Cardinality(Matching(c)) >= Cardinality(Counting(c)) \div 2
WinsOfAll(c) == Cardinality(Matching(c)) >= Cardinality(Voter) \div 2 + 1

Wins(c) == Cardinality(Matching(c)) >= Cardinality(Counting(c)) \div 2 + 1

\* The query is over: the claimant stays, or shuts itself down.
ConflictOver(c) ==
  /\ vote[c].id # 0 /\ vote[c].outcome = "none"
  /\ vote' = [vote EXCEPT ![c].outcome = IF Wins(c) THEN "stays" ELSE "quits"]
  /\ replies' = {r \in replies : r.id # vote[c].id}
  /\ UNCHANGED <<env, keyring, queries, reached, refused, req, done>>

-----------------------------------------------------------------------------
Next ==
  \/ \E ty \in KeyOp, k \in Key : handle_key_request(ty, k)
  \/ \E id \in Id, n \in Node : ChangeKey(id, n) \/ handle_list_keys(id, n)
  \/ \E reply \in replies : KeyAnswer(reply) \/ \E c \in Claimant : ConflictAnswer(c, reply)
  \/ KeyTimeout
  \/ \E c \in Claimant : resolve_node_conflict(c) \/ ConflictOver(c)
  \/ \E id \in Id, v \in Voter : handle_conflict(id, v)

Spec == Init /\ [][Next]_vars

-----------------------------------------------------------------------------
(* Safety.                                                                 *)

\* Through the rotation from one key to the next every member can read what any other
\* sends: the primary key of each is in the ring of all, although requests arrive late,
\* keyring files cannot be written, answers are lost and the operator repeats requests.
\* What the counts of stream_key_response report as done on all members is done.  (Of one
\* rotation: a request of the first one that arrives during a second may use a key that
\* was removed since.)
RotationKeepsContact == mode = "rotation" => \A n, m \in Node : primary[n] \in ring[m]

\* In whatever order keys are installed, used and removed: of the answers that a request has
\* counted without an error, no one comes from a member whose keyring did not change.
ErrorsAreCounted ==
  req.id # 0 => LET answered == {n \in Node : <<req.id, n>> \in reached \ refused}
                IN  req.num_resp - req.num_err <= Cardinality(answered)

\* A list response is cut no more than it has to be: it shows all keys if they fit, and else
\* as many as fit together with the message; there is none only if not even one fits.  (Of
\* the ring of a member, and of any larger one of up to LongList keys.)
ListIsLongest ==
  queries = <<>> =>
  \A n \in Node : \A actual \in Cardinality(ring[n]) .. LongList, limit \in 0 .. LongList + 2 :
    LET shown == key_list_response_with_correct_size(actual, limit)
        cuts  == {i \in 1 .. actual : Fits(i, TRUE, limit)}
    IN  shown = IF Fits(actual, FALSE, limit) THEN actual
                ELSE IF cuts = {} THEN -1
                ELSE CHOOSE i \in cuts : \A j \in cuts : j <= i

\* Two claimants of an id both stay only if a lost answer made their votes differ.
OneClaimantStays ==
  \A c, d \in Claimant : c # d /\ vote[c].outcome = "stays" /\ vote[d].outcome = "stays"
                           => vote[c].answers # vote[d].answers

\* A claimant that every member which answers knows by its address does not quit.
UnanimousStays ==
  \A c \in Claimant : vote[c].outcome = "quits" /\ Counting(c) # {} => Matching(c) # Counting(c)
=============================================================================
