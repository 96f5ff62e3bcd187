------------------------ MODULE InternalQueryProofs ------------------------
(***************************************************************************)
(* Proofs about the key manager and the resolution of name conflicts, for  *)
(* any number of members and of queries: the counts of a key request, one  *)
(* rotation of the key, and the votes.                                     *)
(***************************************************************************)
EXTENDS InternalQuery, FiniteSetTheorems, TLAPS

KeySaid     == [result : BOOLEAN, keys : SUBSET Key, primary : Key \cup {0}]
Whereabouts == [at : Claimant \cup {Nobody}]

\* A request and a vote wait for a query of their kind.
Asked ==
  /\ req.id # 0 => req.id \in DOMAIN queries /\ queries[req.id].ty \in KeyOp
  /\ \A c \in Claimant : vote[c].id # 0 => /\ vote[c].id \in DOMAIN queries
                                           /\ queries[vote[c].id].ty = "Conflict"

\* What answers a query of which kind, from whom, and whether a result that is true says
\* that the keyring has changed.
Fitting(r) ==
  /\ r.id \in DOMAIN queries /\ <<r.id, r.from>> \in reached
  /\ queries[r.id].ty \in KeyOp => /\ r.from \in Node /\ r.answer \in KeySaid
                                   /\ r.answer.result => <<r.id, r.from>> \notin refused
  /\ queries[r.id].ty = "Conflict" => r.from \in Voter /\ r.answer \in Whereabouts

Replies ==
  /\ \A r \in replies : Fitting(r)
  /\ \A r, s \in replies : r.id = s.id /\ r.from = s.from => r = s

Verdicts ==
  \A c \in Claimant : /\ vote[c].outcome = "stays" => Wins(c)
                      /\ vote[c].outcome = "quits" => ~Wins(c)

\* The request has counted the answers of the members in S, those of D without an error.
Tally(S, D) ==
  /\ D \subseteq S
  /\ Cardinality(S) = req.num_resp /\ Cardinality(D) = req.num_resp - req.num_err
  /\ \A n \in S : /\ <<req.id, n>> \in reached
                  /\ \A r \in replies : r.id = req.id => r.from # n
  /\ \A n \in D : <<req.id, n>> \notin refused

-----------------------------------------------------------------------------
(* The rotation from key 1 to key 2.                                       *)

Rotating == Keys = 2 /\ mode = "rotation"

\* What a query has done at a member that answered it without an error.
Effect(q, n) == /\ q.ty = "InstallKey" => 2 \in ring[n]
                /\ q.ty = "UseKey" => primary[n] = 2

\* Of the counted members, those of A have shown the second key and those of B have
\* shown it as the primary one.
Shown(S, D, A, B) ==
  /\ A \subseteq S /\ B \subseteq S
  /\ Cardinality(A) = req.keys[2] /\ Cardinality(B) = req.primary_keys[2]
  /\ \A n \in A : 2 \in ring[n]
  /\ \A n \in B : primary[n] = 2
  /\ \A n \in D : Effect(queries[req.id], n)

Counts ==
  req.id # 0 => \E S, D, A, B \in SUBSET Node : Tally(S, D) /\ (Rotating => Shown(S, D, A, B))

\* The requests of the rotation: a step is asked for when the one before it is done.
InTurn(q) ==
  /\ q.ty = "InstallKey" => q.key = 2
  /\ q.ty = "UseKey" => q.key = 2 /\ <<"InstallKey", 2>> \in done
  /\ q.ty = "RemoveKey" => q.key = 1 /\ <<"UseKey", 2>> \in done

Truthful(r) ==
  queries[r.id].ty \in KeyOp =>
    /\ r.answer.result => Effect(queries[r.id], r.from)
    /\ 2 \in r.answer.keys => 2 \in ring[r.from]
    /\ r.answer.primary = 2 => primary[r.from] = 2

Turning ==
  /\ <<"UseKey", 1>> \in done
  /\ \A i \in DOMAIN queries : InTurn(queries[i])
  /\ \A r \in replies : Truthful(r)
  /\ \A n \in Node :
       /\ <<"InstallKey", 2>> \in done => 2 \in ring[n]
       /\ <<"UseKey", 2>> \in done => primary[n] = 2
       /\ primary[n] = 2 => <<"InstallKey", 2>> \in done
       /\ 1 \in ring[n] \/ <<"UseKey", 2>> \in done

IInv == TypeOK /\ Asked /\ Replies /\ Verdicts /\ Counts /\ (Rotating => Turning)

-----------------------------------------------------------------------------
\* The empty set has no elements; one more element is one more.
LEMMA OneMore ==
  ASSUME NEW S \in SUBSET Node, NEW n \in Node, n \notin S
  PROVE  Cardinality(S) \in Nat /\ Cardinality(S \cup {n}) = Cardinality(S) + 1
BY MembersExist, FS_Subset, FS_AddElement, FS_CardinalityType

\* A set of as many members as there are holds them all; no set has more.
LEMMA AllOfThem ==
  ASSUME NEW S \in SUBSET Node
  PROVE  /\ Cardinality(S) \in Nat /\ Cardinality(S) <= Cardinality(Node)
         /\ Cardinality(S) = Cardinality(Node) => S = Node
         /\ Cardinality(Node) \in Nat \ {0}
BY MembersExist, FS_Subset, FS_CardinalityType, FS_EmptySet

\* Every behaviour starts with the inductive invariant.
LEMMA InitIInv == Init => IInv
<1> SUFFICES ASSUME Init PROVE IInv OBVIOUS
<1>1. 1 \in Key BY KeysAreNumbered DEF Key
<1>2. NoVote \in Ballot BY DEF NoVote, Ballot
<1>3. NoCounts \in [Key -> Nat] BY DEF NoCounts
<1>4. Idle \in KeyResponse /\ Idle.id = 0 /\ Idle.num_resp = 0 /\ Idle.num_err = 0
  BY <1>3 DEF Idle, KeyResponse
<1>5. vote \in [Claimant -> Ballot] BY <1>2 DEF Init
<1>6. queries \in Seq(Query) /\ Len(queries) <= MaxQueries /\ DOMAIN queries = {}
  <2>1. queries = <<>> BY DEF Init
  <2>2. Len(<<>>) <= MaxQueries BY InternalBounds
  <2>3. <<>> \in Seq(Query) OBVIOUS
  <2> QED BY <2>1, <2>2, <2>3
<1>7. address \in [Voter -> Claimant \cup {Nobody}] BY DEF Init
<1>8. Cardinality(Node) \in Nat \ {0} BY AllOfThem
<1>9. TypeOK BY <1>1, <1>4, <1>5, <1>6, <1>7, <1>8 DEF Init, TypeOK, KeyOp
<1>10. \A c \in Claimant : vote[c].id = 0 /\ vote[c].outcome = "none" BY DEF Init, NoVote
<1>11. Asked /\ Replies /\ Verdicts /\ Counts
  BY <1>4, <1>10 DEF Init, Asked, Replies, Verdicts, Counts
<1>12. Turning BY <1>6 DEF Init, Turning
<1> QED BY <1>9, <1>11, <1>12 DEF IInv

-----------------------------------------------------------------------------
\* A query is added to the ones that are there.
LEMMA Sent ==
  ASSUME IInv, NEW q \in Query, internal_query(q)
  PROVE  /\ queries' \in Seq(Query) /\ Len(queries') <= MaxQueries
         /\ Len(queries') = Len(queries) + 1 /\ Len(queries') # 0
         /\ DOMAIN queries' = DOMAIN queries \cup {Len(queries')}
         /\ queries'[Len(queries')] = q
         /\ \A i \in DOMAIN queries : i # Len(queries') /\ queries'[i] = queries[i]
<1>1. queries \in Seq(Query) /\ mode \in DOMAIN Budget BY DEF IInv, TypeOK
<1>2. Cardinality(Claimant) \in Nat BY MembersExist, FS_CardinalityType
<1>3. Budget[mode] <= MaxQueries /\ Budget[mode] \in Nat BY <1>1, <1>2, InternalBounds DEF Budget
<1>4. Len(queries) < Budget[mode] /\ queries' = Append(queries, q) BY DEF internal_query
<1>5. Len(queries) \in Nat /\ DOMAIN queries = 1 .. Len(queries) BY <1>1
<1>6. queries' \in Seq(Query) /\ Len(queries') = Len(queries) + 1 BY <1>1, <1>4
<1>7. DOMAIN queries' = 1 .. Len(queries') BY <1>6
<1>8. \A i \in 1 .. Len(queries) + 1 : queries'[i] = IF i = Len(queries) + 1 THEN q ELSE queries[i]
  BY <1>1, <1>4
<1>9. DOMAIN queries' = DOMAIN queries \cup {Len(queries')} BY <1>5, <1>6, <1>7
<1>10. \A i \in DOMAIN queries : i # Len(queries') /\ queries'[i] = queries[i] BY <1>5, <1>6, <1>8
<1>11. queries'[Len(queries')] = q BY <1>5, <1>6, <1>8
<1> QED BY InternalBounds, <1>3, <1>4, <1>5, <1>6, <1>9, <1>10, <1>11

\* The key that all members use is the first one or, once that is known, the second.
LEMMA CurrentKey ==
  ASSUME Rotating, Turning
  PROVE  Current = IF <<"UseKey", 2>> \in done THEN 2 ELSE 1
<1>1. Key = {1, 2} BY DEF Rotating, Key
<1>2. <<"UseKey", 1>> \in done BY DEF Turning
<1>3. CASE <<"UseKey", 2>> \in done
  <2>1. \A k \in Key : (/\ <<"UseKey", k>> \in done
                        /\ \A j \in Key : <<"UseKey", j>> \in done => j <= k) <=> k = 2
    BY <1>1, <1>3
  <2> QED BY <1>1, <1>3, <2>1 DEF Current
<1>4. CASE <<"UseKey", 2>> \notin done
  <2>1. \A k \in Key : (/\ <<"UseKey", k>> \in done
                        /\ \A j \in Key : <<"UseKey", j>> \in done => j <= k) <=> k = 1
    BY <1>1, <1>2, <1>4
  <2> QED BY <1>1, <1>4, <2>1 DEF Current
<1> QED BY <1>3, <1>4

\* A key request preserves the invariant: it has counted nobody, and in a rotation it is
\* in turn.
LEMMA RequestStep ==
  ASSUME IInv, NEW ty \in KeyOp, NEW k \in Key, handle_key_request(ty, k)
  PROVE  IInv'
<1> DEFINE q == [ty |-> ty, key |-> k, from |-> "manager"]
<1>1. q \in Query /\ q.ty \in KeyOp /\ q.ty = ty /\ q.key = k BY DEF Query
<1>2. internal_query(q) /\ req' = [Idle EXCEPT !.id = Len(queries')] /\ req.id = 0
  BY DEF handle_key_request
<1>3. UNCHANGED <<mode, address, ring, primary, reached, refused, replies, done, vote>>
  BY DEF handle_key_request, env, keyring
<1> HIDE DEF q
<1>4. /\ queries' \in Seq(Query) /\ Len(queries') <= MaxQueries
      /\ Len(queries') \in Nat /\ Len(queries') # 0
      /\ DOMAIN queries' = DOMAIN queries \cup {Len(queries')}
      /\ queries'[Len(queries')] = q
      /\ \A i \in DOMAIN queries : i # Len(queries') /\ queries'[i] = queries[i]
  <2>1. queries' \in Seq(Query) BY <1>1, <1>2, Sent
  <2>2. Len(queries') \in Nat BY <2>1
  <2> QED BY <1>1, <1>2, <2>2, Sent, Zenon
<1>5. NoCounts \in [Key -> Nat] BY DEF NoCounts
<1>6. /\ req' \in KeyResponse /\ req'.id = Len(queries') /\ req'.num_resp = 0 /\ req'.num_err = 0
      /\ req'.keys = NoCounts /\ req'.primary_keys = NoCounts
  BY <1>2, <1>4, <1>5 DEF Idle, KeyResponse
<1>7. Cardinality(Node) \in Nat \ {0} BY AllOfThem
<1>8. TypeOK'
  <2>1. queries' \in Seq(Query) /\ Len(queries') <= MaxQueries BY <1>4, Zenon
  <2>2. req' \in KeyResponse /\ req'.num_err <= req'.num_resp /\ req'.num_resp < Cardinality(Node)
    BY <1>6, <1>7
  <2> QED BY <1>3, <2>1, <2>2 DEF IInv, TypeOK
<1>9. Asked' BY <1>1, <1>3, <1>4, <1>6, Zenon DEF IInv, Asked
<1>10. Replies' BY <1>3, <1>4, Zenon DEF IInv, Replies, Fitting
<1>11. Verdicts' BY <1>3 DEF IInv, Verdicts, Wins, Counting, Matching
<1>12. Counts'
  <2>1. Cardinality({}) = 0 BY FS_EmptySet
  <2>2. Tally({}, {})' BY <1>6, <2>1 DEF Tally
  <2>3. ASSUME Rotating' PROVE Shown({}, {}, {}, {})'
    <3>1. 2 \in Key BY <2>3 DEF Rotating, Key
    <3> QED BY <1>6, <2>1, <3>1 DEF Shown, NoCounts
  <2> QED BY <2>2, <2>3 DEF Counts
<1>13. ASSUME Rotating PROVE Turning'
  <2>1. Turning BY <1>13 DEF IInv
  <2>2. Current = IF <<"UseKey", 2>> \in done THEN 2 ELSE 1 BY <1>13, <2>1, CurrentKey
  <2>3. k = 1 \/ k = 2 BY <1>13 DEF Rotating, Key
  <2>4. MayRequest(ty, k) /\ mode = "rotation" BY <1>13 DEF handle_key_request, Rotating
  <2>5. InTurn(q) BY <1>1, <2>2, <2>3, <2>4 DEF MayRequest, InTurn, KeyOp
  <2>6. \A i \in DOMAIN queries' : InTurn(queries[i])'
    BY <1>3, <1>4, <2>1, <2>5, Zenon DEF Turning, InTurn
  <2>7. \A r \in replies' : Truthful(r)'
    BY <1>3, <1>4, <2>1, Zenon DEF IInv, Replies, Fitting, Turning, Truthful, Effect
  <2> QED BY <1>3, <2>1, <2>6, <2>7 DEF Turning
<1>14. Rotating' => Rotating BY <1>3 DEF Rotating
<1> QED BY <1>8, <1>9, <1>10, <1>11, <1>12, <1>13, <1>14 DEF IInv

-----------------------------------------------------------------------------
\* The keyrings hold the primary key, and in a rotation they go its way.
Steady ==
  /\ ring' \in [Node -> SUBSET Key] /\ primary' \in [Node -> Key]
  /\ \A m \in Node : primary'[m] \in ring'[m]
  /\ Rotating => \A m \in Node : /\ 2 \in ring[m] => 2 \in ring'[m]
                                 /\ primary[m] = 2 => primary'[m] = 2
                                 /\ primary'[m] = 2 => <<"InstallKey", 2>> \in done
                                 /\ 1 \in ring'[m] \/ <<"UseKey", 2>> \in done

\* What a member may answer to a query, given the keyring after it.
MaySay(id, n, a) ==
  /\ queries[id].ty \in KeyOp => n \in Node /\ a \in KeySaid /\ (a.result => refused' = refused)
  /\ queries[id].ty = "Conflict" => n \in Voter /\ a \in Whereabouts
  /\ Rotating /\ queries[id].ty \in KeyOp =>
       /\ a.result => /\ queries[id].ty = "InstallKey" => 2 \in ring'[n]
                      /\ queries[id].ty = "UseKey" => primary'[n] = 2
       /\ 2 \in a.keys => 2 \in ring'[n]
       /\ a.primary = 2 => primary'[n] = 2

\* A query that reaches an instance, and the answer if there is one, preserve the
\* invariant.
LEMMA ReachStep ==
  ASSUME IInv, NEW id \in Id, NEW n \in Node \cup Voter, NEW a \in Answer,
         id \in DOMAIN queries, <<id, n>> \notin reached,
         UNCHANGED <<env, queries, req, done, vote>>,
         reached' = reached \cup {<<id, n>>},
         refused' = refused \/ refused' = refused \cup {<<id, n>>},
         replies' = replies \/ replies' = replies \cup {[id |-> id, from |-> n, answer |-> a]},
         Steady, MaySay(id, n, a)
  PROVE  IInv'
<1> DEFINE new == [id |-> id, from |-> n, answer |-> a]
<1>1. new.id = id /\ new.from = n /\ new.answer = a OBVIOUS
<1>2. new \in [id : Id, from : Node \cup Voter, answer : Answer] OBVIOUS
<1>3. UNCHANGED <<mode, address, queries, req, done, vote>> BY DEF env
<1>4. replies' \subseteq replies \cup {new} OBVIOUS
<1> HIDE DEF new
<1>5. TypeOK'
  <2>1. replies' \subseteq [id : Id, from : Node \cup Voter, answer : Answer]
    BY <1>2, <1>4 DEF IInv, TypeOK
  <2>2. refused' \subseteq reached' /\ reached' \subseteq Id \X (Node \cup Voter)
    BY DEF IInv, TypeOK
  <2>3. /\ ring' \in [Node -> SUBSET Key] /\ primary' \in [Node -> Key]
        /\ \A m \in Node : primary'[m] \in ring'[m] BY DEF Steady
  <2> QED BY <1>3, <2>1, <2>2, <2>3 DEF IInv, TypeOK
<1>6. Asked' BY <1>3 DEF IInv, Asked
<1>7. \A r \in replies : <<r.id, r.from>> \in reached /\ Fitting(r)
  BY Zenon DEF IInv, Replies, Fitting
<1>8. refused \subseteq reached BY DEF IInv, TypeOK
<1>9. Replies'
  <2>1. \A r \in replies : Fitting(r)'
    <3> SUFFICES ASSUME NEW r \in replies PROVE Fitting(r)' OBVIOUS
    <3>1. <<r.id, r.from>> \in reached /\ <<r.id, r.from>> # <<id, n>> BY <1>7
    <3> QED BY <1>3, <1>7, <3>1 DEF Fitting
  <2>2. Fitting(new)'
    <3>1. refused' = refused => <<id, n>> \notin refused' BY <1>8
    <3> QED BY <1>1, <1>3, <3>1 DEF Fitting, MaySay
  <2>3. \A r \in replies : ~(r.id = new.id /\ r.from = new.from) BY <1>1, <1>7
  <2>4. \A r, s \in replies : r.id = s.id /\ r.from = s.from => r = s BY DEF IInv, Replies
  <2> QED BY <1>4, <2>1, <2>2, <2>3, <2>4 DEF Replies
<1>10. Verdicts' BY <1>3 DEF IInv, Verdicts, Wins, Counting, Matching
<1>11. Counts'
  <2> SUFFICES ASSUME req.id # 0
               PROVE  (\E S, D, A, B \in SUBSET Node : Tally(S, D) /\ (Rotating => Shown(S, D, A, B)))'
    BY <1>3, Zenon DEF Counts
  <2>1. PICK S, D, A, B \in SUBSET Node : Tally(S, D) /\ (Rotating => Shown(S, D, A, B))
    BY Zenon DEF IInv, Counts
  <2>2. \A m \in S : <<req.id, m>> \in reached /\ <<req.id, m>> # <<id, n>> BY <2>1 DEF Tally
  <2>3. \A m \in S : \A r \in replies' : r.id = req.id => r.from # m
    <3> SUFFICES ASSUME NEW m \in S, NEW r \in replies', r.id = req.id PROVE r.from # m OBVIOUS
    <3>1. CASE r \in replies BY <2>1, <3>1, Zenon DEF Tally
    <3>2. CASE r = new BY <1>1, <2>2, <3>2
    <3> QED BY <1>4, <3>1, <3>2
  <2>4. Tally(S, D)'
    <3>1. D \subseteq S BY <2>1 DEF Tally
    <3>2. \A m \in D : <<req.id, m>> \notin refused' BY <2>1, <2>2, <3>1 DEF Tally
    <3>3. Cardinality(S) = req.num_resp /\ Cardinality(D) = req.num_resp - req.num_err
      BY <2>1 DEF Tally
    <3> QED BY <1>3, <2>2, <2>3, <3>1, <3>2, <3>3 DEF Tally
  <2>5. ASSUME Rotating' PROVE Shown(S, D, A, B)'
    <3>1. Rotating BY <1>3, <2>5 DEF Rotating
    <3>2. Shown(S, D, A, B) BY <2>1, <3>1
    <3> QED BY <1>3, <3>1, <3>2 DEF Shown, Effect, Steady
  <2> QED BY <2>4, <2>5, Zenon
<1>12. ASSUME Rotating' PROVE Turning'
  <2>1. Rotating BY <1>3, <1>12 DEF Rotating
  <2>2. Turning BY <2>1 DEF IInv
  <2>3. \A r \in replies : Truthful(r)'
    <3> SUFFICES ASSUME NEW r \in replies, queries[r.id].ty \in KeyOp PROVE Truthful(r)'
      BY <1>3 DEF Truthful
    <3>1. Truthful(r) /\ r.from \in Node BY <1>7, <2>2, Zenon DEF Turning, Fitting
    <3> QED BY <1>3, <2>1, <3>1 DEF Truthful, Effect, Steady
  <2>4. Truthful(new)' BY <1>1, <1>3, <2>1 DEF Truthful, Effect, MaySay
  <2>5. \A r \in replies' : Truthful(r)' BY <1>4, <2>3, <2>4
  <2>6. \A i \in DOMAIN queries : InTurn(queries[i])' BY <1>3, <2>2 DEF Turning, InTurn
  <2> QED BY <1>3, <2>1, <2>2, <2>5, <2>6 DEF Turning, Steady
<1> QED BY <1>5, <1>6, <1>9, <1>10, <1>11, <1>12 DEF IInv

\* What Respond and Drop do to the answers and to who was reached.
LEMMA Responded ==
  ASSUME NEW id, NEW n, NEW a, Respond(id, n, {a}) \/ Drop(id, n)
  PROVE  /\ reached' = reached \cup {<<id, n>>}
         /\ replies' = replies \/ replies' = replies \cup {[id |-> id, from |-> n, answer |-> a]}
BY DEF Respond, Drop

\* The answers to a change of the keyring.
LEMMA Sayings ==
  /\ Ok \in KeySaid /\ Ok \in Answer /\ Ok.keys = {} /\ Ok.primary = 0 /\ Ok.result = TRUE
  /\ Fail \in KeySaid /\ Fail \in Answer /\ Fail.keys = {} /\ Fail.primary = 0 /\ Fail.result = FALSE
BY DEF Ok, Fail, Said, KeySaid, Answer

\* A key query that is refused, and one that changes the keyring, preserve the invariant.
LEMMA ChangeStep ==
  ASSUME IInv, NEW id \in Id, NEW n \in Node, ChangeKey(id, n)
  PROVE  IInv'
<1> DEFINE q == queries[id]
<1>1. /\ id \in DOMAIN queries /\ q.ty \in {"InstallKey", "UseKey", "RemoveKey"}
      /\ <<id, n>> \notin reached /\ UNCHANGED <<env, queries, req, done, vote>>
  BY DEF ChangeKey, Reaches
<1>2. q.ty \in KeyOp /\ q.ty # "Conflict" BY <1>1 DEF KeyOp
<1>3. q \in Query BY <1>1 DEF IInv, TypeOK
<1>4. q.key \in Key BY <1>2, <1>3 DEF Query
<1>5. Rotating => InTurn(q) BY <1>1 DEF IInv, Turning
<1>6. ring \in [Node -> SUBSET Key] /\ primary \in [Node -> Key] /\ \A m \in Node : primary[m] \in ring[m]
  BY DEF IInv, TypeOK
<1>7. CASE /\ CASE q.ty = "InstallKey" -> handle_install_key(n, q.key)
                 [] q.ty = "UseKey"     -> handle_use_key(n, q.key)
                 [] OTHER               -> handle_remove_key(n, q.key)
           /\ Respond(id, n, Saved) \/ Drop(id, n)
           /\ UNCHANGED refused
  <2>1. PICK a \in {Ok, Fail} : Respond(id, n, {a}) \/ Drop(id, n) BY <1>7 DEF Respond, Saved
  <2>2. a \in KeySaid /\ a \in Answer /\ a.keys = {} /\ a.primary = 0 BY <2>1, Sayings
  <2>3. CASE q.ty = "InstallKey"
    <3>1. handle_install_key(n, q.key) BY <1>7, <2>3
    <3>2. Steady
      BY <1>4, <1>5, <1>6, <2>3, <3>1 DEF handle_install_key, Steady, InTurn, IInv, Turning
    <3>3. MaySay(id, n, a)
      BY <1>2, <1>5, <1>6, <1>7, <2>2, <2>3, <3>1 DEF MaySay, handle_install_key, InTurn
    <3> QED BY <1>1, <1>7, <2>1, <2>2, <3>2, <3>3, Responded, ReachStep, Zenon
  <2>4. CASE q.ty = "UseKey"
    <3>1. handle_use_key(n, q.key) BY <1>7, <2>4
    <3>2. Steady BY <1>4, <1>5, <1>6, <2>4, <3>1 DEF handle_use_key, Steady, InTurn, IInv, Turning
    <3>3. MaySay(id, n, a)
      BY <1>2, <1>5, <1>6, <1>7, <2>2, <2>4, <3>1 DEF MaySay, handle_use_key, InTurn
    <3> QED BY <1>1, <1>7, <2>1, <2>2, <3>2, <3>3, Responded, ReachStep, Zenon
  <2>5. CASE q.ty = "RemoveKey"
    <3>1. handle_remove_key(n, q.key) BY <1>7, <2>5
    <3>2. Steady
      BY <1>4, <1>5, <1>6, <2>5, <3>1 DEF handle_remove_key, Steady, InTurn, IInv, Turning
    <3>3. MaySay(id, n, a) BY <1>2, <1>7, <2>2, <2>5 DEF MaySay
    <3> QED BY <1>1, <1>7, <2>1, <2>2, <3>2, <3>3, Responded, ReachStep, Zenon
  <2> QED BY <1>1, <2>3, <2>4, <2>5
<1>8. CASE /\ Respond(id, n, {Fail}) \/ Drop(id, n)
           /\ refused' = refused \cup {<<id, n>>}
           /\ UNCHANGED keyring
  <2>1. UNCHANGED <<ring, primary>> BY <1>8 DEF keyring
  <2>2. Steady BY <1>6, <2>1 DEF Steady, IInv, Turning
  <2>3. MaySay(id, n, Fail) BY <1>2, Sayings DEF MaySay
  <2> QED BY <1>1, <1>8, <2>2, <2>3, Sayings, Responded, ReachStep, Zenon
<1> QED BY <1>7, <1>8 DEF ChangeKey

\* A list of keys shows what the keyring holds.
LEMMA ListStep ==
  ASSUME IInv, NEW id \in Id, NEW n \in Node, handle_list_keys(id, n)
  PROVE  IInv'
<1>1. /\ id \in DOMAIN queries /\ queries[id].ty = "ListKey" /\ <<id, n>> \notin reached
      /\ UNCHANGED <<env, queries, req, done, vote>> /\ UNCHANGED <<ring, primary, refused>>
  BY DEF handle_list_keys, Reaches, keyring
<1>2. queries[id].ty \in KeyOp /\ queries[id].ty # "Conflict" BY <1>1 DEF KeyOp
<1>3. ring \in [Node -> SUBSET Key] /\ primary \in [Node -> Key] /\ \A m \in Node : primary[m] \in ring[m]
  BY DEF IInv, TypeOK
<1>4. Steady BY <1>1, <1>3 DEF Steady, IInv, Turning
<1>5. PICK ks \in SUBSET ring[n] : \/ Drop(id, n)
                                   \/ Respond(id, n, {Said(TRUE, ks, primary[n])})
  BY Zenon DEF handle_list_keys, Respond
<1>6. PICK pk \in Key : pk = primary[n] BY <1>3
<1> DEFINE a == Said(TRUE, ks, pk)
<1>7. a \in KeySaid /\ a \in Answer /\ a.keys = ks /\ a.primary = pk
  BY <1>3 DEF Said, KeySaid, Answer
<1> HIDE DEF a
<1>8. MaySay(id, n, a) BY <1>1, <1>2, <1>6, <1>7 DEF MaySay
<1>9. Respond(id, n, {a}) \/ Drop(id, n) BY <1>5, <1>6 DEF a
<1> QED BY <1>1, <1>4, <1>7, <1>8, <1>9, Responded, ReachStep, Zenon

\* A voter tells the address it knows.
LEMMA ConflictStep ==
  ASSUME IInv, NEW id \in Id, NEW v \in Voter, handle_conflict(id, v)
  PROVE  IInv'
<1>1. /\ id \in DOMAIN queries /\ queries[id].ty = "Conflict" /\ <<id, v>> \notin reached
      /\ UNCHANGED <<env, queries, req, done, vote>> /\ UNCHANGED <<ring, primary, refused>>
  BY DEF handle_conflict, Reaches, keyring
<1>2. queries[id].ty \notin KeyOp BY <1>1 DEF KeyOp
<1>3. Steady BY <1>1 DEF Steady, IInv, Turning, TypeOK
<1>4. PICK at \in Claimant \cup {Nobody} : at = address[v] BY DEF IInv, TypeOK
<1> DEFINE a == [at |-> at]
<1>5. a \in Whereabouts /\ a \in Answer BY DEF Whereabouts, Answer
<1>6. Respond(id, v, {a}) \/ Drop(id, v) BY <1>4 DEF handle_conflict
<1> HIDE DEF a
<1>7. MaySay(id, v, a) BY <1>1, <1>2, <1>5 DEF MaySay
<1> QED BY <1>1, <1>3, <1>5, <1>6, <1>7, Responded, ReachStep, Zenon

-----------------------------------------------------------------------------
\* Taking answers away keeps what is known of the others.
LEMMA FewerReplies ==
  ASSUME IInv, replies' \subseteq replies, UNCHANGED <<mode, ring, primary, queries, reached, refused>>
  PROVE  /\ replies' \subseteq [id : Id, from : Node \cup Voter, answer : Answer]
         /\ Replies'
         /\ Rotating => \A r \in replies' : Truthful(r)'
<1>1. replies \subseteq [id : Id, from : Node \cup Voter, answer : Answer] BY DEF IInv, TypeOK
<1>2. Replies' BY DEF IInv, Replies, Fitting
<1>3. ASSUME Rotating PROVE \A r \in replies' : Truthful(r)'
  BY <1>3 DEF IInv, Turning, Truthful, Effect
<1> QED BY <1>1, <1>2, <1>3

\* One turn of stream_key_response, field by field.
LEMMA CountedFields ==
  ASSUME NEW r \in KeyResponse, NEW a \in KeySaid
  PROVE  /\ Counted(r, a) \in KeyResponse
         /\ Counted(r, a).id = r.id
         /\ Counted(r, a).num_resp = r.num_resp + 1
         /\ Counted(r, a).num_err = IF a.result THEN r.num_err ELSE r.num_err + 1
         /\ \A k \in Key : /\ Counted(r, a).keys[k] = IF k \in a.keys THEN r.keys[k] + 1 ELSE r.keys[k]
                           /\ Counted(r, a).primary_keys[k] =
                                IF k = a.primary THEN r.primary_keys[k] + 1 ELSE r.primary_keys[k]
<1> DEFINE ks == [k \in Key |-> IF k \in a.keys THEN r.keys[k] + 1 ELSE r.keys[k]]
           ps == [k \in Key |-> IF k = a.primary THEN r.primary_keys[k] + 1 ELSE r.primary_keys[k]]
           nr == r.num_resp + 1
           ne == IF a.result THEN r.num_err ELSE r.num_err + 1
<1>1. /\ r.id \in Nat /\ r.num_resp \in Nat /\ r.num_err \in Nat
      /\ r.keys \in [Key -> Nat] /\ r.primary_keys \in [Key -> Nat]
  BY DEF KeyResponse
<1>2. ks \in [Key -> Nat] /\ ps \in [Key -> Nat] /\ nr \in Nat /\ ne \in Nat BY <1>1
<1>3. Counted(r, a) = [r EXCEPT !.num_resp = nr, !.num_err = ne, !.keys = ks, !.primary_keys = ps]
  BY DEF Counted
<1>4. /\ \A k \in Key : /\ ks[k] = IF k \in a.keys THEN r.keys[k] + 1 ELSE r.keys[k]
                        /\ ps[k] = IF k = a.primary THEN r.primary_keys[k] + 1 ELSE r.primary_keys[k]
  OBVIOUS
<1> HIDE DEF ks, ps, nr, ne
<1>5. Counted(r, a) = [id |-> r.id, num_resp |-> nr, num_err |-> ne, keys |-> ks, primary_keys |-> ps]
  BY <1>3, Zenon DEF KeyResponse
<1>6. Counted(r, a) \in KeyResponse BY <1>1, <1>2, <1>5 DEF KeyResponse
<1>7. Counted(r, a).keys = ks /\ Counted(r, a).primary_keys = ps BY <1>5
<1> QED BY <1>4, <1>5, <1>6, <1>7 DEF nr, ne

\* An answer is counted for one more member, the one that sent it; when all have been
\* counted, what the response tells is true of all.
LEMMA AnswerStep ==
  ASSUME IInv, NEW reply \in replies, KeyAnswer(reply)
  PROVE  IInv'
<1> DEFINE a == reply.answer
           f == reply.from
           r == Counted(req, a)
           q == queries[req.id]
<1>1. /\ req.id # 0 /\ reply.id = req.id /\ replies' = replies \ {reply}
      /\ UNCHANGED <<mode, address, ring, primary, queries, reached, refused, vote>>
  BY DEF KeyAnswer, env, keyring
<1>2. req \in KeyResponse /\ req.num_err <= req.num_resp BY DEF IInv, TypeOK
<1>3. q.ty \in KeyOp /\ Fitting(reply) BY <1>1 DEF IInv, Asked, Replies
<1>4. f \in Node /\ a \in KeySaid /\ <<req.id, f>> \in reached /\ (a.result => <<req.id, f>> \notin refused)
  BY <1>1, <1>3 DEF Fitting
<1>5. /\ r \in KeyResponse /\ r.id = req.id /\ r.num_resp = req.num_resp + 1
      /\ r.num_err = IF a.result THEN req.num_err ELSE req.num_err + 1
      /\ \A k \in Key : /\ r.keys[k] = IF k \in a.keys THEN req.keys[k] + 1 ELSE req.keys[k]
                        /\ r.primary_keys[k] =
                             IF k = a.primary THEN req.primary_keys[k] + 1 ELSE req.primary_keys[k]
  BY <1>2, <1>4, CountedFields
<1>6. req.num_resp \in Nat /\ req.num_err \in Nat BY <1>2 DEF KeyResponse
<1>7. PICK S, D, A, B \in SUBSET Node : Tally(S, D) /\ (Rotating => Shown(S, D, A, B))
  BY <1>1 DEF IInv, Counts
<1> DEFINE S1 == S \cup {f}
           D1 == IF a.result THEN D \cup {f} ELSE D
           A1 == IF 2 \in a.keys THEN A \cup {f} ELSE A
           B1 == IF a.primary = 2 THEN B \cup {f} ELSE B
<1>8. f \notin S /\ f \notin D /\ D \subseteq S BY <1>1, <1>7, Zenon DEF Tally
<1>9. a.result \in BOOLEAN BY <1>4 DEF KeySaid
<1>10. S1 \in SUBSET Node /\ D1 \in SUBSET Node /\ A1 \in SUBSET Node /\ B1 \in SUBSET Node /\ D1 \subseteq S1
  BY <1>4, <1>8
<1>11. Cardinality(S1) = r.num_resp
  BY <1>4, <1>5, <1>7, <1>8, OneMore DEF Tally
<1>12. Cardinality(D1) = r.num_resp - r.num_err
  <2>1. Cardinality(D) = req.num_resp - req.num_err BY <1>7 DEF Tally
  <2>2. Cardinality(D \cup {f}) = Cardinality(D) + 1 BY <1>4, <1>8, OneMore
  <2>3. CASE a.result BY <1>5, <1>6, <2>1, <2>2, <2>3
  <2>4. CASE ~a.result BY <1>5, <1>6, <2>1, <2>4
  <2> QED BY <1>9, <2>3, <2>4
<1>13. \A n \in S1 : <<req.id, n>> \in reached /\ \A s \in replies' : s.id = req.id => s.from # n
  <2>1. \A s \in replies : s.id = reply.id /\ s.from = f => s = reply BY DEF IInv, Replies
  <2>2. \A n \in S : <<req.id, n>> \in reached /\ \A s \in replies : s.id = req.id => s.from # n
    BY <1>7 DEF Tally
  <2> QED BY <1>1, <1>4, <2>1, <2>2
<1>14. \A n \in D1 : <<req.id, n>> \notin refused BY <1>4, <1>7, SMTT(30) DEF Tally
<1>15. ASSUME Rotating
       PROVE  /\ A1 \subseteq S1 /\ B1 \subseteq S1
              /\ Cardinality(A1) = r.keys[2] /\ Cardinality(B1) = r.primary_keys[2]
              /\ \A n \in A1 : 2 \in ring[n]
              /\ \A n \in B1 : primary[n] = 2
              /\ \A n \in D1 : Effect(q, n)
  <2>1. 2 \in Key BY <1>15 DEF Rotating, Key
  <2>2. Shown(S, D, A, B) BY <1>7, <1>15
  <2>3. f \notin A /\ f \notin B BY <1>8, <2>2 DEF Shown
  <2>4. Cardinality(A) = req.keys[2] /\ Cardinality(B) = req.primary_keys[2] BY <2>2 DEF Shown
  <2>5. Cardinality(A \cup {f}) = Cardinality(A) + 1 /\ Cardinality(B \cup {f}) = Cardinality(B) + 1
    BY <1>4, <2>3, OneMore
  <2>6. Truthful(reply) BY <1>15 DEF IInv, Turning
  <2>7. /\ a.result => Effect(q, f)
        /\ 2 \in a.keys => 2 \in ring[f]
        /\ a.primary = 2 => primary[f] = 2
    BY <1>1, <1>3, <2>6 DEF Truthful
  <2>8. Cardinality(A1) = r.keys[2] /\ Cardinality(B1) = r.primary_keys[2]
    BY <1>5, <2>1, <2>4, <2>5
  <2> QED BY <2>2, <2>7, <2>8 DEF Shown
<1> HIDE DEF S1, D1, A1, B1, r, a, f
<1>16. Cardinality(S1) <= Cardinality(Node) /\ (Cardinality(S1) = Cardinality(Node) => S1 = Node)
       /\ Cardinality(D1) <= Cardinality(Node) /\ (Cardinality(D1) = Cardinality(Node) => D1 = Node)
       /\ Cardinality(A1) <= Cardinality(Node) /\ (Cardinality(A1) = Cardinality(Node) => A1 = Node)
       /\ Cardinality(B1) <= Cardinality(Node) /\ (Cardinality(B1) = Cardinality(Node) => B1 = Node)
       /\ Cardinality(Node) \in Nat \ {0} /\ Cardinality(D1) \in Nat
  BY <1>10, AllOfThem
<1>17. /\ replies' \subseteq [id : Id, from : Node \cup Voter, answer : Answer]
       /\ Replies' /\ (Rotating => \A s \in replies' : Truthful(s)')
  BY <1>1, FewerReplies
<1>18. Verdicts' BY <1>1 DEF IInv, Verdicts, Wins, Counting, Matching
<1>19. CASE r.num_resp # num_nodes
  <2>1. req' = r /\ UNCHANGED done BY <1>19 DEF KeyAnswer, r, a
  <2>2. r.num_err \in Nat /\ r.num_resp \in Nat BY <1>5 DEF KeyResponse
  <2>3. r.num_err <= r.num_resp /\ r.num_resp < Cardinality(Node)
    BY <1>11, <1>12, <1>16, <1>19, <2>2, SMTT(30) DEF num_nodes
  <2>4. TypeOK' BY <1>1, <1>5, <1>17, <2>1, <2>3 DEF IInv, TypeOK
  <2>5. Asked' BY <1>1, <1>5, <2>1 DEF IInv, Asked
  <2>6. Tally(S1, D1)' BY <1>1, <1>5, <1>10, <1>11, <1>12, <1>13, <1>14, <2>1, SMTT(30) DEF Tally
  <2>7. ASSUME Rotating' PROVE Shown(S1, D1, A1, B1)'
    <3>1. Rotating BY <1>1, <2>7 DEF Rotating
    <3> QED BY <1>1, <1>5, <1>15, <2>1, <3>1 DEF Shown, Effect
  <2>8. Counts' BY <1>10, <2>6, <2>7, Zenon DEF Counts
  <2>9. Rotating' => Turning' BY <1>1, <1>17, <2>1 DEF IInv, Rotating, Turning, InTurn
  <2> QED BY <1>17, <1>18, <2>4, <2>5, <2>8, <2>9 DEF IInv
<1>20. CASE r.num_resp = num_nodes
  <2>1. req' = Idle /\ done' = done \cup Told(r) BY <1>20 DEF KeyAnswer, Return, r, a
  <2>2. NoCounts \in [Key -> Nat] BY DEF NoCounts
  <2>3. Idle \in KeyResponse /\ Idle.id = 0 /\ Idle.num_resp = 0 /\ Idle.num_err = 0
    BY <2>2 DEF Idle, KeyResponse
  <2>4. q \in Query
    <3>1. req.id \in DOMAIN queries BY <1>1 DEF IInv, Asked
    <3>2. queries \in Seq(Query) BY DEF IInv, TypeOK
    <3> QED BY <3>1, <3>2, SMTT(30)
  <2>5. q.key \in Key BY <1>3, <2>4 DEF Query, KeyOp
  <2>6. Told(r) \subseteq KeyOp \X Key
    <3>1. CASE q.ty = "ListKey" BY <1>5, <3>1 DEF Told, KeyOp
    <3>2. CASE q.ty # "ListKey"
      <4>1. Told(r) \subseteq {<<q.ty, q.key>>} BY <1>5, <3>2 DEF Told
      <4> QED BY <1>3, <2>5, <4>1
    <3> QED BY <3>1, <3>2
  <2>7. done' \subseteq KeyOp \X Key BY <2>1, <2>6, SMTT(30) DEF IInv, TypeOK
  <2>8. TypeOK' BY <1>1, <1>16, <1>17, <2>1, <2>3, <2>7 DEF IInv, TypeOK
  <2>9. Asked' /\ Counts' BY <1>1, <2>1, <2>3, Zenon DEF IInv, Asked, Counts
  <2>10. ASSUME Rotating' PROVE Turning'
    <3>1. Rotating /\ Turning BY <1>1, <2>10 DEF IInv, Rotating
    <3>2. ASSUME Told(r) # {} PROVE D1 = Node
      <4>1. r.num_err \in Nat /\ ~(r.num_err > 0) BY <1>5, <3>2 DEF Told, KeyResponse
      <4>2. r.num_err = 0 BY <4>1
      <4> QED BY <1>5, <1>12, <1>16, <1>20, <4>2 DEF num_nodes, KeyResponse
    <3>3. \A n \in Node : /\ <<"InstallKey", 2>> \in Told(r) => 2 \in ring[n]
                          /\ <<"UseKey", 2>> \in Told(r) => primary[n] = 2
      <4>1. CASE q.ty = "ListKey"
        <5>1. <<"InstallKey", 2>> \in Told(r) => r.keys[2] = num_nodes
          BY <1>5, <4>1 DEF Told
        <5>2. <<"UseKey", 2>> \in Told(r) => r.primary_keys[2] = num_nodes
          BY <1>5, <4>1 DEF Told
        <5> QED BY <1>15, <1>16, <3>1, <5>1, <5>2 DEF num_nodes
      <4>2. CASE q.ty # "ListKey"
        <5>1. Told(r) \subseteq {<<q.ty, q.key>>} BY <1>5, <4>2 DEF Told
        <5> QED BY <1>15, <3>1, <3>2, <5>1 DEF Effect
      <4> QED BY <4>1, <4>2
    <3>4. \A i \in DOMAIN queries : InTurn(queries[i])' BY <1>1, <2>1, <3>1 DEF Turning, InTurn
    <3> QED BY <1>1, <1>17, <2>1, <3>1, <3>3, <3>4, Zenon DEF Turning
  <2> QED BY <1>17, <1>18, <2>8, <2>9, <2>10 DEF IInv
<1> QED BY <1>19, <1>20

\* The channel was closed: not all members have answered, and nothing is told.
LEMMA TimeoutStep ==
  ASSUME IInv, KeyTimeout
  PROVE  IInv'
<1>1. /\ req' = Idle /\ done' = done \cup Told(req) /\ replies' \subseteq replies
      /\ UNCHANGED <<mode, address, ring, primary, queries, reached, refused, vote>>
  BY DEF KeyTimeout, Return, env, keyring
<1>2. req.num_resp < num_nodes BY DEF IInv, TypeOK, num_nodes
<1>3. done' = done BY <1>1, <1>2 DEF Told
<1>4. NoCounts \in [Key -> Nat] BY DEF NoCounts
<1>5. Idle \in KeyResponse /\ Idle.id = 0 /\ Idle.num_resp = 0 /\ Idle.num_err = 0
  BY <1>4 DEF Idle, KeyResponse
<1>6. Cardinality(Node) \in Nat \ {0} BY AllOfThem
<1>7. /\ replies' \subseteq [id : Id, from : Node \cup Voter, answer : Answer]
      /\ Replies' /\ (Rotating => \A s \in replies' : Truthful(s)')
  BY <1>1, FewerReplies
<1>8. TypeOK' BY <1>1, <1>3, <1>5, <1>6, <1>7 DEF IInv, TypeOK
<1>9. Asked' /\ Counts' BY <1>1, <1>5 DEF IInv, Asked, Counts
<1>10. Verdicts' BY <1>1 DEF IInv, Verdicts, Wins, Counting, Matching
<1>11. Rotating' => Turning' BY <1>1, <1>3, <1>7 DEF IInv, Rotating, Turning, InTurn
<1> QED BY <1>7, <1>8, <1>9, <1>10, <1>11 DEF IInv

\* A claimant asks about its id.
LEMMA ResolveStep ==
  ASSUME IInv, NEW c \in Claimant, resolve_node_conflict(c)
  PROVE  IInv'
<1> DEFINE q == [ty |-> "Conflict", from |-> c]
<1>1. q \in Query /\ q.ty = "Conflict" BY DEF Query
<1>2. /\ internal_query(q) /\ mode = "conflict" /\ vote[c].id = 0
      /\ vote' = [vote EXCEPT ![c].id = Len(queries')]
      /\ UNCHANGED <<mode, address, ring, primary, reached, refused, replies, req, done>>
  BY DEF resolve_node_conflict, env, keyring
<1> HIDE DEF q
<1>3. queries' \in Seq(Query) /\ Len(queries') <= MaxQueries BY <1>1, <1>2, Sent
<1>4. Len(queries') \in Nat BY <1>3
<1>5. /\ DOMAIN queries' = DOMAIN queries \cup {Len(queries')} /\ queries'[Len(queries')] = q
      /\ \A i \in DOMAIN queries : i # Len(queries') /\ queries'[i] = queries[i]
  BY <1>1, <1>2, Sent, Zenon
<1>6. vote \in [Claimant -> Ballot] BY DEF IInv, TypeOK
<1>7. vote' \in [Claimant -> Ballot] BY <1>2, <1>4, <1>6 DEF Ballot
<1>8. \A d \in Claimant : /\ vote'[d].answers = vote[d].answers /\ vote'[d].outcome = vote[d].outcome
                          /\ vote'[d].id = IF d = c THEN Len(queries') ELSE vote[d].id
  BY <1>2, <1>6 DEF Ballot
<1>9. TypeOK' BY <1>2, <1>3, <1>7 DEF IInv, TypeOK
<1>10. Asked'
  <2>1. Asked BY DEF IInv
  <2>2. req'.id # 0 => req'.id \in DOMAIN queries' /\ queries'[req'.id].ty \in KeyOp
    BY <1>2, <1>5, <2>1, Zenon DEF Asked
  <2>3. vote'[c].id \in DOMAIN queries' /\ queries'[vote'[c].id].ty = "Conflict"
    BY <1>1, <1>5, <1>8, Zenon
  <2>4. \A d \in Claimant \ {c} : vote'[d].id # 0 => /\ vote'[d].id \in DOMAIN queries'
                                                     /\ queries'[vote'[d].id].ty = "Conflict"
    <3> SUFFICES ASSUME NEW d \in Claimant \ {c}, vote'[d].id # 0
                 PROVE  vote'[d].id \in DOMAIN queries' /\ queries'[vote'[d].id].ty = "Conflict"
      OBVIOUS
    <3>1. vote'[d].id = vote[d].id BY <1>8
    <3>2. vote[d].id \in DOMAIN queries /\ queries[vote[d].id].ty = "Conflict"
      BY <2>1, <3>1 DEF Asked
    <3> QED BY <1>5, <3>1, <3>2, Zenon
  <2> QED BY <2>2, <2>3, <2>4 DEF Asked
<1>11. Replies' BY <1>2, <1>5, Zenon DEF IInv, Replies, Fitting
<1>12. Verdicts' BY <1>8 DEF IInv, Verdicts, Wins, Counting, Matching
<1>13. ~Rotating' BY <1>2 DEF Rotating
<1>14. Counts'
  <2> SUFFICES ASSUME req.id # 0
               PROVE  (\E S, D, A, B \in SUBSET Node : Tally(S, D) /\ (Rotating => Shown(S, D, A, B)))'
    BY <1>2, Zenon DEF Counts
  <2>1. PICK S, D, A, B \in SUBSET Node : Tally(S, D)
    BY Zenon DEF IInv, Counts
  <2>2. Tally(S, D)' BY <1>2, <2>1, Zenon DEF Tally
  <2> QED BY <1>13, <2>2, Zenon
<1> QED BY <1>9, <1>10, <1>11, <1>12, <1>13, <1>14 DEF IInv

\* Answers that are taken away, by a claimant or with its query, do not concern the key
\* manager.
LEMMA VoteStep ==
  ASSUME IInv, replies' \subseteq replies,
         UNCHANGED <<env, keyring, queries, reached, refused, req, done>>,
         vote' \in [Claimant -> Ballot], \A d \in Claimant : vote'[d].id = vote[d].id, Verdicts'
  PROVE  IInv'
<1>1. UNCHANGED <<mode, address, ring, primary, queries, reached, refused, req, done>>
  BY Zenon DEF env, keyring
<1>2. /\ replies' \subseteq [id : Id, from : Node \cup Voter, answer : Answer]
      /\ Replies' /\ (Rotating => \A s \in replies' : Truthful(s)')
  BY <1>1, FewerReplies, Zenon
<1>3. TypeOK' BY <1>1, <1>2 DEF IInv, TypeOK
<1>4. Asked' BY <1>1, Zenon DEF IInv, Asked
<1>5. Counts'
  <2> SUFFICES ASSUME req.id # 0
               PROVE  (\E S, D, A, B \in SUBSET Node : Tally(S, D) /\ (Rotating => Shown(S, D, A, B)))'
    BY <1>1, Zenon DEF Counts
  <2>1. PICK S, D, A, B \in SUBSET Node : Tally(S, D) /\ (Rotating => Shown(S, D, A, B))
    BY Zenon DEF IInv, Counts
  <2>2. Tally(S, D)' BY <1>1, <2>1, Zenon DEF Tally
  <2>3. Rotating' => Shown(S, D, A, B)' BY <1>1, <2>1 DEF Rotating, Shown, Effect
  <2> QED BY <2>2, <2>3, Zenon
<1>6. Rotating' => Turning' BY <1>1, <1>2, Zenon DEF IInv, Rotating, Turning, InTurn
<1> QED BY <1>2, <1>3, <1>4, <1>5, <1>6, Zenon DEF IInv

\* An answer to a claimant that has not decided changes no verdict.
LEMMA ConflictAnswerStep ==
  ASSUME IInv, NEW c \in Claimant, NEW reply \in replies, ConflictAnswer(c, reply)
  PROVE  IInv'
<1>1. /\ vote[c].outcome = "none" /\ reply.id = vote[c].id /\ replies' \subseteq replies
      /\ vote' = [vote EXCEPT ![c].answers[reply.from] = reply.answer.at]
      /\ UNCHANGED <<env, keyring, queries, reached, refused, req, done>>
  BY DEF ConflictAnswer
<1>2. vote \in [Claimant -> Ballot] /\ reply.id \in Id BY DEF IInv, TypeOK
<1>3. reply.id # 0 BY <1>2, InternalBounds DEF Id
<1>4. Fitting(reply) /\ queries[reply.id].ty = "Conflict" BY <1>1, <1>3 DEF IInv, Asked, Replies
<1>5. reply.from \in Voter /\ reply.answer.at \in Claimant \cup {Nobody}
  BY <1>4 DEF Fitting, Whereabouts
<1> DEFINE as == [vote[c].answers EXCEPT ![reply.from] = reply.answer.at]
<1>6. as \in [Voter -> Claimant \cup {Nobody}] BY <1>2, <1>5 DEF Ballot
<1>7. vote' = [vote EXCEPT ![c] = [vote[c] EXCEPT !.answers = as]] BY <1>1
<1> HIDE DEF as
<1>8. [vote[c] EXCEPT !.answers = as] \in Ballot BY <1>2, <1>6, Zenon DEF Ballot
<1>9. vote' \in [Claimant -> Ballot] BY <1>2, <1>7, <1>8
<1>10. \A d \in Claimant : /\ vote'[d].id = vote[d].id /\ vote'[d].outcome = vote[d].outcome
                           /\ d # c => vote'[d] = vote[d]
  BY <1>2, <1>7, Zenon DEF Ballot
<1>11. Verdicts'
  <2> SUFFICES ASSUME NEW d \in Claimant
               PROVE  (/\ vote[d].outcome = "stays" => Wins(d)
                       /\ vote[d].outcome = "quits" => ~Wins(d))'
    BY DEF Verdicts
  <2>1. CASE d = c BY <1>1, <1>10, <2>1, SMTT(30)
  <2>2. CASE d # c BY <1>10, <2>2 DEF IInv, Verdicts, Wins, Counting, Matching
  <2> QED BY <2>1, <2>2
<1> QED BY <1>1, <1>9, <1>10, <1>11, VoteStep

\* A claimant decides by the answers it has.
LEMMA ConflictOverStep ==
  ASSUME IInv, NEW c \in Claimant, ConflictOver(c)
  PROVE  IInv'
<1>1. /\ vote' = [vote EXCEPT ![c].outcome = IF Wins(c) THEN "stays" ELSE "quits"]
      /\ replies' \subseteq replies
      /\ UNCHANGED <<env, keyring, queries, reached, refused, req, done>>
  BY DEF ConflictOver
<1>2. vote \in [Claimant -> Ballot] BY DEF IInv, TypeOK
<1>3. vote' \in [Claimant -> Ballot] BY <1>1, <1>2 DEF Ballot
<1>4. \A d \in Claimant : /\ vote'[d].id = vote[d].id /\ vote'[d].answers = vote[d].answers
                          /\ d # c => vote'[d].outcome = vote[d].outcome
  BY <1>1, <1>2 DEF Ballot
<1>5. vote'[c].outcome = IF Wins(c) THEN "stays" ELSE "quits" BY <1>1, <1>2 DEF Ballot
<1>6. \A d \in Claimant : Wins(d)' <=> Wins(d) BY <1>4, Zenon DEF Wins, Counting, Matching
<1>7. Verdicts' BY <1>4, <1>5, <1>6 DEF IInv, Verdicts
<1> QED BY <1>1, <1>3, <1>4, <1>7, VoteStep

-----------------------------------------------------------------------------
\* The invariant is preserved by every step.
LEMMA NextIInv == IInv /\ [Next]_vars => IInv'
<1> SUFFICES ASSUME IInv, [Next]_vars PROVE IInv' OBVIOUS
<1>1. CASE UNCHANGED vars
  <2>1. UNCHANGED <<mode, ring, primary, queries, reached, refused, replies, req, done, address, vote>>
    BY <1>1 DEF vars
  <2>2. UNCHANGED <<env, keyring, queries, reached, refused, req, done>> BY <2>1 DEF env, keyring
  <2>3. Verdicts' BY <2>1, Zenon DEF IInv, Verdicts, Wins, Counting, Matching
  <2>4. vote' \in [Claimant -> Ballot] /\ replies' \subseteq replies BY <2>1 DEF IInv, TypeOK
  <2>5. \A d \in Claimant : vote'[d].id = vote[d].id BY <2>1
  <2> QED BY <2>2, <2>3, <2>4, <2>5, VoteStep, Zenon
<1>2. CASE \E ty \in KeyOp, k \in Key : handle_key_request(ty, k) BY <1>2, RequestStep
<1>3. CASE \E id \in Id, n \in Node : ChangeKey(id, n) \/ handle_list_keys(id, n)
  BY <1>3, ChangeStep, ListStep
<1>4. CASE \E reply \in replies : KeyAnswer(reply) \/ \E c \in Claimant : ConflictAnswer(c, reply)
  BY <1>4, AnswerStep, ConflictAnswerStep
<1>5. CASE KeyTimeout BY <1>5, TimeoutStep
<1>6. CASE \E c \in Claimant : resolve_node_conflict(c) \/ ConflictOver(c)
  BY <1>6, ResolveStep, ConflictOverStep
<1>7. CASE \E id \in Id, v \in Voter : handle_conflict(id, v) BY <1>7, ConflictStep
<1> QED BY <1>1, <1>2, <1>3, <1>4, <1>5, <1>6, <1>7, Zenon DEF Next

\* Of the answers that a key request has counted without an error none comes from a member
\* whose keyring did not change, and it never waits with the answers of all members
\* counted (stream_key_response and the handlers of internal_query.rs).
THEOREM InternalErrors == Spec => [](TypeOK /\ ErrorsAreCounted)
<1>1. IInv => TypeOK /\ ErrorsAreCounted
  <2> SUFFICES ASSUME IInv, req.id # 0
               PROVE  req.num_resp - req.num_err
                        <= Cardinality({n \in Node : <<req.id, n>> \in reached \ refused})
    BY DEF IInv, ErrorsAreCounted
  <2> DEFINE answered == {n \in Node : <<req.id, n>> \in reached \ refused}
  <2>1. PICK S, D, A, B \in SUBSET Node : Tally(S, D) BY Zenon DEF IInv, Counts
  <2>2. D \subseteq answered BY <2>1 DEF Tally
  <2>3. Cardinality(D) = req.num_resp - req.num_err BY <2>1 DEF Tally
  <2>4. answered \in SUBSET Node OBVIOUS
  <2> HIDE DEF answered
  <2>5. IsFiniteSet(answered) BY <2>4, MembersExist, FS_Subset
  <2>6. Cardinality(D) <= Cardinality(answered) BY <2>2, <2>5, FS_Subset
  <2> QED BY <2>3, <2>6 DEF answered
<1> QED BY <1>1, InitIInv, NextIInv, PTL DEF Spec

\* Through the rotation from one key to the next, of any number of members and with any
\* number of repeated requests, the primary key of each member is in the ring of all.
THEOREM InternalRotation ==
  ASSUME Keys = 2
  PROVE  Spec => []RotationKeepsContact
<1>1. IInv => RotationKeepsContact
  <2> SUFFICES ASSUME IInv, mode = "rotation", NEW n \in Node, NEW m \in Node
               PROVE  primary[n] \in ring[m]
    BY DEF RotationKeepsContact
  <2>1. Turning BY DEF IInv, Rotating
  <2>2. primary[n] = 1 \/ primary[n] = 2 BY DEF IInv, TypeOK, Key
  <2> QED BY <2>1, <2>2 DEF Turning
<1> QED BY <1>1, InitIInv, NextIInv, PTL DEF Spec

\* Of two claimants of an id that got the same answers at most one stays: their majorities
\* are of the same answers, and disjoint (resolve_node_conflict).
THEOREM InternalClaimants == Spec => []OneClaimantStays
<1>1. IInv => OneClaimantStays
  <2> SUFFICES ASSUME IInv, NEW c \in Claimant, NEW d \in Claimant, c # d,
                      vote[c].outcome = "stays", vote[d].outcome = "stays",
                      vote[c].answers = vote[d].answers
               PROVE  FALSE
    BY DEF OneClaimantStays
  <2>1. Wins(c) /\ Wins(d) BY DEF IInv, Verdicts
  <2>2. Counting(c) = Counting(d) BY DEF Counting
  <2> DEFINE C == Counting(c)
             M == Matching(c)
             N == Matching(d)
  <2>3. M \in SUBSET C /\ N \in SUBSET C /\ M \cap N = {} /\ C \in SUBSET Voter
    BY MembersExist DEF Matching, Counting
  <2>4. /\ Cardinality(M) >= Cardinality(C) \div 2 + 1
        /\ Cardinality(N) >= Cardinality(C) \div 2 + 1
    BY <2>1, <2>2 DEF Wins
  <2> HIDE DEF C, M, N
  <2>5. IsFiniteSet(C) BY <2>3, MembersExist, FS_Subset
  <2>6. IsFiniteSet(M) /\ IsFiniteSet(N) BY <2>3, <2>5, FS_Subset
  <2>7. Cardinality(M \cup N) = Cardinality(M) + Cardinality(N)
    <3>1. Cardinality(M \cup N) = Cardinality(M) + Cardinality(N) - Cardinality(M \cap N)
      BY <2>6, FS_Union
    <3>2. Cardinality(M \cap N) = 0 BY <2>3, FS_EmptySet
    <3> QED BY <2>6, <3>1, <3>2, FS_CardinalityType
  <2>8. M \cup N \in SUBSET C BY <2>3
  <2>9. Cardinality(M \cup N) <= Cardinality(C) BY <2>5, <2>8, FS_Subset
  <2>10. Cardinality(C) \in Nat /\ Cardinality(M) \in Nat /\ Cardinality(N) \in Nat
    BY <2>5, <2>6, FS_CardinalityType
  <2> QED BY <2>4, <2>7, <2>9, <2>10
<1> QED BY <1>1, InitIInv, NextIInv, PTL DEF Spec

\* A claimant that all members which answered know by its address has a majority of them,
\* however few they are, and does not quit (resolve_node_conflict).
THEOREM InternalUnanimous == Spec => []UnanimousStays
<1>1. IInv => UnanimousStays
  <2> SUFFICES ASSUME IInv, NEW c \in Claimant, vote[c].outcome = "quits", Counting(c) # {},
                      Matching(c) = Counting(c)
               PROVE  FALSE
    BY DEF UnanimousStays
  <2>1. ~Wins(c) BY DEF IInv, Verdicts
  <2>2. IsFiniteSet(Counting(c)) BY MembersExist, FS_Subset DEF Counting
  <2>3. Cardinality(Counting(c)) \in Nat \ {0} BY <2>2, FS_CardinalityType, FS_EmptySet
  <2> QED BY <2>1, <2>3 DEF Wins
<1> QED BY <1>1, InitIInv, NextIInv, PTL DEF Spec
=============================================================================
