-------------------------------- MODULE Wire --------------------------------
(***************************************************************************)
(* The message encoding of serf-core/src/types: a message is a sequence of *)
(* tagged fields, in any order on the way in.  A buffer is modelled as the *)
(* sequence of its fields; the bytes of a scalar are one value, those of a *)
(* nested message are the buffer of its fields.                            *)
(*                                                                         *)
(* For each type there is what encode writes, what encoded_len announces   *)
(* before (encode_message writes it in front of the body) and what decode  *)
(* makes of a buffer.  On the way a field may be added by another version  *)
(* of the program, moved, repeated or left out.                            *)
(***************************************************************************)
EXTENDS Integers, Sequences, SequencesExt

CONSTANTS Ltimes,       \* bound: Lamport times
          Ids,          \* bound: node ids
          Texts,        \* bound: names, payloads, tags: strings, the empty one among them
          MaxRepeat     \* bound: elements of a repeated field

VARIABLES ty,           \* the type of the message
          msg,          \* the message
          body,         \* its encoding, as it arrives
          around,       \* what is around the message in the frame
          edit          \* what happened to the body: [kind, tag]

wireVars == <<ty, msg, body, around, edit>>

-----------------------------------------------------------------------------
(* Fields.  len counts the scalars and the headers of a field.             *)

Size(buf) == FoldLeft(LAMBDA n, f : n + f.len, 0, buf)

Field(tag, val) == [tag |-> tag, val |-> val, len |-> 1]
Nested(tag, buf) == [tag |-> tag, val |-> buf, len |-> 1 + Size(buf)]

When(test, field) == IF test THEN <<field>> ELSE <<>>
Each(tag, vals) == [i \in DOMAIN vals |-> Field(tag, vals[i])]
EachNested(tag, bufs) == [i \in DOMAIN bufs |-> Nested(tag, bufs[i])]
Map(vals, Op(_)) == [i \in DOMAIN vals |-> Op(vals[i])]
Total(vals, Op(_)) == FoldLeft(LAMBDA n, v : n + Op(v), 0, vals)

(* Decoding.  A result is <<value>>, or Err.                               *)

Err == <<>>
Ok(v) == <<v>>

Vals(buf, tag) ==
  LET fs == SelectSeq(buf, LAMBDA f : f.tag = tag) IN [i \in DOMAIN fs |-> fs[i].val]

\* A second field with the tag is an error (duplicate_field), and so is none (missing_field).
One(buf, tag) == IF Len(Vals(buf, tag)) = 1 THEN Vals(buf, tag) ELSE Err

\* A second field is an error, none is the default.
Opt(buf, tag, default) ==
  IF Vals(buf, tag) = <<>> THEN Ok(default) ELSE One(buf, tag)

\* The last field counts, none is an error.
Latest(buf, tag) ==
  IF Vals(buf, tag) = <<>> THEN Err ELSE Ok(Last(Vals(buf, tag)))

Repeated(buf, tag) == Ok(Vals(buf, tag))

Then(result, Op(_)) == IF result = Err THEN Err ELSE Op(result[1])

\* All of a sequence of values, or the first error.
AllOf(vals, Op(_)) ==
  LET results == Map(vals, Op)
  IN  IF \E i \in DOMAIN results : results[i] = Err THEN Err
      ELSE Ok([i \in DOMAIN results |-> results[i][1]])

Struct(fields) ==
  IF \E f \in DOMAIN fields : fields[f] = Err THEN Err
  ELSE Ok([f \in DOMAIN fields |-> fields[f][1]])

-----------------------------------------------------------------------------
(* Join and leave messages.                                                *)

EncodeJoin(m) == <<Field("LTIME", m.ltime), Field("ID", m.id)>>
LenJoin(m) == 2
DecodeJoin(b) == Struct([ltime |-> One(b, "LTIME"), id |-> One(b, "ID")])

EncodeLeave(m) ==
  <<Field("LTIME", m.ltime)>> \o When(m.prune, Field("PRUNE", TRUE)) \o <<Field("ID", m.id)>>
LenLeave(m) == 2 + (IF m.prune THEN 1 ELSE 0)

\* Mutant of DecodeLeave: the flag is taken for set when there is none.
DecodeLeavePrunes(b) ==
  Struct([ltime |-> One(b, "LTIME"), id |-> Latest(b, "ID"), prune |-> Opt(b, "PRUNE", TRUE)])

DecodeLeave(b) ==
  Struct([ltime |-> One(b, "LTIME"), id |-> Latest(b, "ID"), prune |-> Opt(b, "PRUNE", FALSE)])

-----------------------------------------------------------------------------
(* User events, alone and in a push/pull message.                          *)

EncodeUserEventMessage(m) ==
  <<Field("LTIME", m.ltime)>> \o When(m.cc, Field("CC", TRUE))
    \o When(m.name # "", Field("NAME", m.name)) \o When(m.payload # "", Field("PAYLOAD", m.payload))
LenUserEventMessage(m) ==
  1 + (IF m.name # "" THEN 1 ELSE 0) + (IF m.payload # "" THEN 1 ELSE 0) + (IF m.cc THEN 1 ELSE 0)
DecodeUserEventMessage(b) ==
  Struct([ltime |-> One(b, "LTIME"), cc |-> Opt(b, "CC", FALSE),
          name |-> Opt(b, "NAME", ""), payload |-> Opt(b, "PAYLOAD", "")])

EncodeUserEvent(m) ==
  When(m.name # "", Field("NAME", m.name)) \o When(m.payload # "", Field("PAYLOAD", m.payload))
LenUserEvent(m) == (IF m.name # "" THEN 1 ELSE 0) + (IF m.payload # "" THEN 1 ELSE 0)
DecodeUserEvent(b) == Struct([name |-> Opt(b, "NAME", ""), payload |-> Opt(b, "PAYLOAD", "")])

EncodeUserEvents(m) ==
  <<Field("LTIME", m.ltime)>> \o EachNested("EVENTS", Map(m.events, EncodeUserEvent))
LenUserEvents(m) == 1 + Total(m.events, LAMBDA e : 1 + LenUserEvent(e))
DecodeUserEvents(b) ==
  Struct([ltime |-> One(b, "LTIME"), events |-> AllOf(Vals(b, "EVENTS"), DecodeUserEvent)])

-----------------------------------------------------------------------------
(* The push/pull message.  Its events are the slots of the ring, some of   *)
(* them empty (<<>>), which are not sent.                                  *)

Taken(slots) == LET full == SelectSeq(slots, LAMBDA s : s # <<>>)
                IN  [i \in DOMAIN full |-> full[i][1]]

EncodePushPull(m) ==
  <<Field("LTIME", m.ltime)>> \o Each("STATUS_LTIMES", m.status_ltimes)
    \o Each("LEFT_MEMBERS", m.left_members) \o <<Field("EVENT_LTIME", m.event_ltime)>>
    \o EachNested("EVENTS", Map(Taken(m.events), EncodeUserEvents))
    \o <<Field("QUERY_LTIME", m.query_ltime)>>

\* Mutant of LenPushPull: counts the empty slots.
LenPushPullSlots(m) ==
  3 + Len(m.status_ltimes) + Len(m.left_members)
    + Total(m.events, LAMBDA s : IF s = <<>> THEN 1 ELSE 1 + LenUserEvents(s[1]))

LenPushPull(m) ==
  3 + Len(m.status_ltimes) + Len(m.left_members)
    + Total(Taken(m.events), LAMBDA e : 1 + LenUserEvents(e))

DecodePushPull(b) ==
  Struct([ltime         |-> One(b, "LTIME"),
          status_ltimes |-> Repeated(b, "STATUS_LTIMES"),
          left_members  |-> Repeated(b, "LEFT_MEMBERS"),
          event_ltime   |-> One(b, "EVENT_LTIME"),
          events        |-> AllOf(Vals(b, "EVENTS"), DecodeUserEvents),
          query_ltime   |-> One(b, "QUERY_LTIME")])

-----------------------------------------------------------------------------
(* Filters, queries and responses.  An optional value is <<>> or <<v>>.    *)

EncodeTagFilter(m) ==
  <<Field("TAG", m.tag)>> \o When(m.expr # <<>>, Field("EXPR", IF m.expr = <<>> THEN "" ELSE m.expr[1]))
LenTagFilter(m) == 1 + Len(m.expr)

\* An empty expression is taken for none.
DecodeTagFilter(b) ==
  Struct([tag  |-> Opt(b, "TAG", ""),
          expr |-> Then(Opt(b, "EXPR", ""), LAMBDA e : Ok(IF e = "" THEN <<>> ELSE <<e>>))])

EncodeFilter(m) ==
  IF m.kind = "Id" THEN Each("FILTER_ID", m.ids)
  ELSE <<Nested("FILTER_TAG", EncodeTagFilter(m.tag))>>
LenFilter(m) == IF m.kind = "Id" THEN Len(m.ids) ELSE 1 + LenTagFilter(m.tag)

IdFilter(ids) == [kind |-> "Id", ids |-> ids]
TagFilter(tag) == [kind |-> "Tag", tag |-> tag]

\* Ids after a tag are passed over, ids before it are an error; nothing is no id.
DecodeFilter(b) ==
  LET id  == SelectInSeq(b, LAMBDA f : f.tag = "FILTER_ID")
      tag == SelectInSeq(b, LAMBDA f : f.tag = "FILTER_TAG")
  IN  IF tag = 0 THEN Ok(IdFilter(Vals(b, "FILTER_ID")))
      ELSE IF id # 0 /\ id < tag THEN Err
      ELSE Then(One(b, "FILTER_TAG"),
                LAMBDA t : Then(DecodeTagFilter(t), LAMBDA v : Ok(TagFilter(v))))

EncodeQuery(m) ==
  <<Field("LTIME", m.ltime), Field("ID", m.id), Field("FROM", m.from)>>
    \o EachNested("FILTERS", Map(m.filters, EncodeFilter))
    \o <<Field("FLAGS", m.flags), Field("RELAY_FACTOR", m.relay_factor), Field("TIMEOUT", m.timeout)>>
    \o When(m.name # "", Field("NAME", m.name)) \o When(m.payload # "", Field("PAYLOAD", m.payload))
LenQuery(m) ==
  6 + Total(m.filters, LAMBDA f : 1 + LenFilter(f))
    + (IF m.name # "" THEN 1 ELSE 0) + (IF m.payload # "" THEN 1 ELSE 0)

\* Of the flags only the two known bits are kept.
DecodeQuery(b) ==
  Struct([ltime        |-> One(b, "LTIME"),
          id           |-> One(b, "ID"),
          from         |-> One(b, "FROM"),
          filters      |-> AllOf(Vals(b, "FILTERS"), DecodeFilter),
          flags        |-> Then(One(b, "FLAGS"), LAMBDA bits : Ok(bits % 4)),
          relay_factor |-> One(b, "RELAY_FACTOR"),
          timeout      |-> One(b, "TIMEOUT"),
          name         |-> Opt(b, "NAME", ""),
          payload      |-> Opt(b, "PAYLOAD", "")])

EncodeQueryResponse(m) ==
  <<Field("LTIME", m.ltime), Field("ID", m.id), Field("FROM", m.from), Field("FLAGS", m.flags)>>
    \o When(m.payload # "", Field("PAYLOAD", m.payload))
LenQueryResponse(m) == 4 + (IF m.payload # "" THEN 1 ELSE 0)
DecodeQueryResponse(b) ==
  Struct([ltime |-> One(b, "LTIME"), id |-> One(b, "ID"), from |-> One(b, "FROM"),
          flags |-> One(b, "FLAGS"), payload |-> Opt(b, "PAYLOAD", "")])

\* A value matches the empty expression, and else the expression that is equal to it.
Matches(value, expr) == expr = <<>> \/ expr[1] = "" \/ expr[1] = value

\* should_process_query at a member with this id and these tags: on the filters of a message
\* that was received, decoded one by one, and on those of a query of its own.
ProcessesReceived(filters, id, tags) ==
  \A i \in DOMAIN filters :
    LET f == DecodeFilter(filters[i])[1]
    IN  IF f.kind = "Id" THEN Contains(f.ids, id)
        ELSE \E t \in DOMAIN tags : tags[t][1] = f.tag.tag /\ Matches(tags[t][2], f.tag.expr)

ProcessesOwn(filters, id, tags) ==
  \A i \in DOMAIN filters :
    LET f == filters[i]
    IN  IF f.kind = "Id" THEN Contains(f.ids, id)
        ELSE \E t \in DOMAIN tags : tags[t][1] = f.tag.tag /\ Matches(tags[t][2], f.tag.expr)

-----------------------------------------------------------------------------
(* Members and the conflict response.                                      *)

Statuses == <<"none", "alive", "leaving", "left", "failed", "unknown(5)">>

StatusByte(status) == SelectInSeq(Statuses, LAMBDA s : s = status) - 1
StatusOf(byte) == Statuses[byte + 1]

EncodeTags(tags) == Each("TAGS", tags)
DecodeTags(b) == Repeated(b, "TAGS")

EncodeMember(m) ==
  <<Field("NODE", m.node), Nested("TAGS", EncodeTags(m.tags)), Field("STATUS", StatusByte(m.status)),
    Field("MEMBERLIST_PROTOCOL_VERSION", m.memberlist_protocol_version),
    Field("MEMBERLIST_DELEGATE_VERSION", m.memberlist_delegate_version),
    Field("PROTOCOL_VERSION", m.protocol_version), Field("DELEGATE_VERSION", m.delegate_version)>>
LenMember(m) == 7 + Len(m.tags)
DecodeMember(b) ==
  Struct([node   |-> One(b, "NODE"),
          tags   |-> Then(One(b, "TAGS"), DecodeTags),
          status |-> Then(One(b, "STATUS"), LAMBDA byte : Ok(StatusOf(byte))),
          memberlist_protocol_version |-> One(b, "MEMBERLIST_PROTOCOL_VERSION"),
          memberlist_delegate_version |-> One(b, "MEMBERLIST_DELEGATE_VERSION"),
          protocol_version |-> One(b, "PROTOCOL_VERSION"),
          delegate_version |-> One(b, "DELEGATE_VERSION")])

EncodeConflictResponse(m) == <<Nested("MEMBER", EncodeMember(m.member))>>
LenConflictResponse(m) == 1 + LenMember(m.member)
DecodeConflictResponse(b) == Struct([member |-> Then(One(b, "MEMBER"), DecodeMember)])

-----------------------------------------------------------------------------
(* Keys and coordinates.                                                   *)

EncodeKeyRequest(m) == Each("KEY", m.key)
LenKeyRequest(m) == Len(m.key)
DecodeKeyRequest(b) ==
  Struct([key |-> Then(Repeated(b, "KEY"), LAMBDA ks : Ok(IF ks = <<>> THEN <<>> ELSE <<Last(ks)>>))])

EncodeKeyResponse(m) ==
  When(m.result, Field("RESULT", 1)) \o When(m.message # "", Field("MESSAGE", m.message))
    \o Each("KEYS", m.keys) \o Each("PRIMARY_KEY", m.primary_key)
LenKeyResponse(m) ==
  (IF m.result THEN 1 ELSE 0) + (IF m.message # "" THEN 1 ELSE 0) + Len(m.keys) + Len(m.primary_key)
DecodeKeyResponse(b) ==
  Struct([result      |-> Then(Opt(b, "RESULT", 0), LAMBDA byte : Ok(byte # 0)),
          message     |-> Opt(b, "MESSAGE", ""),
          keys        |-> Repeated(b, "KEYS"),
          primary_key |-> IF Vals(b, "PRIMARY_KEY") = <<>> THEN Ok(<<>>)
                          ELSE Then(One(b, "PRIMARY_KEY"), LAMBDA k : Ok(<<k>>))])

EncodeCoordinate(m) ==
  Each("PORTION", m.portion)
    \o <<Field("ERROR", m.error), Field("ADJUSTMENT", m.adjustment), Field("HEIGHT", m.height)>>
LenCoordinate(m) == Len(m.portion) + 3
DecodeCoordinate(b) ==
  Struct([portion    |-> Repeated(b, "PORTION"), error  |-> One(b, "ERROR"),
          adjustment |-> One(b, "ADJUSTMENT"),   height |-> One(b, "HEIGHT")])

-----------------------------------------------------------------------------
(* Frames.                                                                 *)

MessageTypes == {"Leave", "Join", "PushPull", "UserEvent", "Query", "QueryResponse",
                 "ConflictResponse", "Relay", "KeyRequest", "KeyResponse"}

EncodeBody(t, m) ==
  CASE t = "Leave"            -> EncodeLeave(m)
    [] t = "Join"             -> EncodeJoin(m)
    [] t = "PushPull"         -> EncodePushPull(m)
    [] t = "UserEvent"        -> EncodeUserEventMessage(m)
    [] t = "Query"            -> EncodeQuery(m)
    [] t = "QueryResponse"    -> EncodeQueryResponse(m)
    [] t = "ConflictResponse" -> EncodeConflictResponse(m)
    [] t = "KeyRequest"       -> EncodeKeyRequest(m)
    [] t = "KeyResponse"      -> EncodeKeyResponse(m)
    [] t = "Coordinate"       -> EncodeCoordinate(m)

encoded_len(t, m) ==
  CASE t = "Leave"            -> LenLeave(m)
    [] t = "Join"             -> LenJoin(m)
    [] t = "PushPull"         -> LenPushPull(m)
    [] t = "UserEvent"        -> LenUserEventMessage(m)
    [] t = "Query"            -> LenQuery(m)
    [] t = "QueryResponse"    -> LenQueryResponse(m)
    [] t = "ConflictResponse" -> LenConflictResponse(m)
    [] t = "KeyRequest"       -> LenKeyRequest(m)
    [] t = "KeyResponse"      -> LenKeyResponse(m)
    [] t = "Coordinate"       -> LenCoordinate(m)

DecodeBody(t, b) ==
  CASE t = "Leave"            -> DecodeLeave(b)
    [] t = "Join"             -> DecodeJoin(b)
    [] t = "PushPull"         -> DecodePushPull(b)
    [] t = "UserEvent"        -> DecodeUserEventMessage(b)
    [] t = "Query"            -> DecodeQuery(b)
    [] t = "QueryResponse"    -> DecodeQueryResponse(b)
    [] t = "ConflictResponse" -> DecodeConflictResponse(b)
    [] t = "KeyRequest"       -> DecodeKeyRequest(b)
    [] t = "KeyResponse"      -> DecodeKeyResponse(b)
    [] t = "Coordinate"       -> DecodeCoordinate(b)

encode_message(t, b) == <<Nested(t, b)>>
encoded_message_len(t, m) == 1 + encoded_len(t, m)

\* The relayed message follows its tag without a length, and the fields of the relay follow
\* theirs: they reach to the end of the frame.
EncodeRelay(m) ==
  <<Field("RELAY_NODE", m.node),
    Nested("RELAY_MSG", encode_message("QueryResponse", EncodeQueryResponse(m.response)))>>
encode_relay_message(b) == <<Field("Relay", 0)>> \o b
encoded_relay_message_len(m) == 3 + encoded_message_len("QueryResponse", m.response)

decode_relay(b) == Struct([node |-> One(b, "RELAY_NODE"), payload |-> Opt(b, "RELAY_MSG", <<>>)])

\* Exactly one message in a frame, and what other versions add to it is passed over.
decode_message(frame) ==
  LET first == SelectInSeq(frame, LAMBDA f : f.tag \in MessageTypes)
  IN  IF first = 0 THEN Err
      ELSE IF frame[first].tag = "Relay" THEN decode_relay(SubSeq(frame, first + 1, Len(frame)))
      ELSE IF \E i \in first + 1 .. Len(frame) : frame[i].tag \in MessageTypes THEN Err
      ELSE DecodeBody(frame[first].tag, frame[first].val)

\* payload_offset: where the payload begins if it is the last of what was read.
payload_offset(frame, payload) == Size(frame) - Size(payload)

-----------------------------------------------------------------------------
(* The messages that are sent.                                             *)

Lists(S) == UNION {[1 .. n -> S] : n \in 0 .. MaxRepeat}
Sets(S) == {l \in Lists(S) : \A i, j \in DOMAIN l : i # j => l[i] # l[j]}
Options(S) == {<<>>} \cup {<<v>> : v \in S}

SomeEvents == [ltime : {1}, events : {<<[name |-> "x", payload |-> ""], [name |-> "", payload |-> ""]>>}]
SomeFilters == [kind : {"Id"}, ids : {<<>>, <<"a">>}]
                 \cup [kind : {"Tag"}, tag : [tag : {"x"}, expr : Options(Texts)]]
Responses == [ltime : Ltimes, id : {1}, from : Ids, flags : {0, 1, 4}, payload : Texts]

Messages(t) ==
  CASE t = "Leave" -> [ltime : Ltimes, id : Ids, prune : BOOLEAN]
    [] t = "Join" -> [ltime : Ltimes, id : Ids]
    [] t = "PushPull" -> [ltime : Ltimes, status_ltimes : Sets(Ids \X {1}), left_members : Sets(Ids),
                          event_ltime : Ltimes, events : Lists(Options(SomeEvents)), query_ltime : Ltimes]
    [] t = "UserEvent" -> [ltime : Ltimes, cc : BOOLEAN, name : Texts, payload : Texts]
    [] t = "Query" -> [ltime : Ltimes, id : {1}, from : Ids, filters : Lists(SomeFilters), flags : {0, 3},
                       relay_factor : {0}, timeout : {1}, name : Texts, payload : Texts]
    [] t = "QueryResponse" -> Responses
    [] t = "ConflictResponse" -> [member : [node : Ids, tags : {<<>>} \cup {<<<<"x", v>>, <<"y", "">>>> : v \in Texts},
                                            status : {Statuses[i] : i \in DOMAIN Statuses},
                                            memberlist_protocol_version : {1}, memberlist_delegate_version : {1},
                                            protocol_version : {1}, delegate_version : {1}]]
    [] t = "Relay" -> [node : Ids, response : Responses]
    [] t = "KeyRequest" -> [key : Options(Ids)]
    [] t = "KeyResponse" -> [result : BOOLEAN, message : Texts, keys : Lists(Ids), primary_key : Options(Ids)]
    [] t = "Coordinate" -> [portion : Lists(Ltimes), error : Ltimes, adjustment : Ltimes, height : Ltimes]

\* What the receiver is meant to have: the events of the full slots, the payload of a relay
\* as it was framed; an empty expression and none are the same.
Meant(t, m) ==
  CASE t = "PushPull" -> [m EXCEPT !.events = Taken(@)]
    [] t = "Query" ->
         [m EXCEPT !.filters = Map(@, LAMBDA f : IF f.kind = "Tag" /\ f.tag.expr = <<"">>
                                                 THEN [f EXCEPT !.tag.expr = <<>>] ELSE f)]
    [] t = "Relay" ->
         [node |-> m.node, payload |-> encode_message("QueryResponse", EncodeQueryResponse(m.response))]
    [] OTHER -> m

Stranger == Field("UNKNOWN", 0)

Frame ==
  LET core == CASE ty = "Relay"      -> encode_relay_message(body)
                [] ty = "Coordinate" -> body
                [] OTHER             -> encode_message(ty, body)
  IN  CASE around = "before" -> <<Stranger>> \o core
        [] around = "after"  -> core \o <<Stranger>>
        [] around = "twice"  -> core \o core
        [] OTHER             -> core

\* Coordinates travel in pings, without a frame.
Received == IF ty = "Coordinate" THEN DecodeCoordinate(Frame) ELSE decode_message(Frame)

WireInit ==
  /\ ty \in MessageTypes \cup {"Coordinate"}
  /\ msg \in Messages(ty)
  /\ body = IF ty = "Relay" THEN EncodeRelay(msg) ELSE EncodeBody(ty, msg)
  /\ around \in {"none"} \cup (IF ty = "Coordinate" THEN {} ELSE {"before", "after"})
                         \cup (IF ty \in {"Coordinate", "Relay"} THEN {} ELSE {"twice"})
  /\ edit = [kind |-> "none", tag |-> ""]

RepeatedTags == {"STATUS_LTIMES", "LEFT_MEMBERS", "EVENTS", "FILTERS", "KEYS", "PORTION"}

Edit(kind, tag, new) ==
  /\ edit.kind = "none"
  /\ edit' = [kind |-> kind, tag |-> tag]
  /\ body' = new
  /\ UNCHANGED <<ty, msg, around>>

Added == \E i \in 1 .. Len(body) + 1 : Edit("added", "UNKNOWN", InsertAt(body, i, Stranger))
Moved == \E i \in DOMAIN body :
           /\ body[i].tag \notin RepeatedTags
           /\ Edit("moved", body[i].tag, Append(RemoveAt(body, i), body[i]))
Twice == \E i \in DOMAIN body : Edit("twice", body[i].tag, Append(body, body[i]))
Missing == \E i \in DOMAIN body : Edit("missing", body[i].tag, RemoveAt(body, i))

WireNext == Added \/ Moved \/ Twice \/ Missing

-----------------------------------------------------------------------------
(* Properties.                                                             *)

\* What is sent is received, whatever the order of the fields, and with the fields that
\* another version adds.
ReceivedAsSent ==
  edit.kind \in {"none", "added", "moved"} /\ around # "twice" => Received = Ok(Meant(ty, msg))

Required == {"LTIME", "ID", "FROM", "FLAGS", "RELAY_FACTOR", "TIMEOUT", "EVENT_LTIME", "QUERY_LTIME",
             "MEMBER", "ERROR", "ADJUSTMENT", "HEIGHT", "RELAY_NODE"}

\* A message without a field it needs, with a field that may not be repeated, or next to
\* another one is refused and never half read.  (The id of a leave message and the key of
\* a key request may be repeated: the last one counts.)
BrokenIsRefused ==
  \/ around = "twice"
  \/ edit.kind = "missing" /\ edit.tag \in Required
  \/ edit.kind = "twice" /\ edit.tag \notin RepeatedTags
       /\ <<ty, edit.tag>> \notin {<<"Leave", "ID">>, <<"KeyRequest", "KEY">>}
  => Received = Err

\* A member decides the same about a query that it receives as the sender would about its own
\* filters: the two branches of should_process_query agree.
FiltersAgree ==
  ty = "Query" /\ edit.kind # "missing" /\ edit.kind # "twice" =>
    \A id \in Ids, tags \in Options({<<"x", "x">>, <<"x", "">>, <<"y", "x">>}) :
      ProcessesReceived(Vals(body, "FILTERS"), id, tags) = ProcessesOwn(msg.filters, id, tags)

\* A message of another version is read as it was meant or refused as a whole, and its
\* filters mean the same at both ends.
RoundTrip == ReceivedAsSent /\ BrokenIsRefused /\ FiltersAgree

\* The length that is written in front of a message is the length of what follows; and in a
\* frame that the program encodes, the relayed payload starts where payload_offset says: the
\* branch of notify_message that owns the buffer forwards the same bytes as the other.
LengthsMatch ==
  edit.kind = "none" =>
    /\ Size(body) = IF ty = "Relay" THEN encoded_relay_message_len(msg) - 1 ELSE encoded_len(ty, msg)
    /\ ty = "Relay" /\ around \in {"none", "before"} =>
         LET payload == Received[1].payload
             start   == SelectInSeq(Frame, LAMBDA f : f.tag = "RELAY_MSG")
         IN  payload_offset(Frame, payload) = Size(SubSeq(Frame, 1, start - 1)) + 1
=============================================================================
