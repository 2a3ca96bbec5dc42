----------------------------- MODULE LogStream -----------------------------
(***************************************************************************)
(* The text log: records of one message or one [STATS] window, rendered as *)
(* key=value lines whose values publishers choose, and the stream a        *)
(* collector reads back.  A text is a sequence of tokens: a word, or one   *)
(* character where the rendering tells it apart.  The prefix of a line     *)
(* (time, level, logger) is constant in form and left out.                 *)
(***************************************************************************)
EXTENDS Naturals, Sequences, FiniteSets, SequencesExt

CONSTANTS Texts,            \* topics that publishers may choose
          Channels,         \* channel names among them
          Senders,          \* the ids that JSON payloads claim to be from
          Outcomes,         \* of the packets logged: all but warn
          Counts,           \* values of counters and other numbers
          Repr,             \* non-printable characters, and what repr() makes of each
                            \* after the backslash
          MaxRecords        \* bound (model checking)

NEEDS_QUOTING == {" ", "\"", "\\", "="}
Plain(text) == \A i \in DOMAIN text : text[i] \notin NEEDS_QUOTING \cup DOMAIN Repr

(* In display order; that of StructuredTextFormatter's two events. *)
MESSAGE_FIELDS == <<"topic", "channel", "encoding", "portnum", "id", "from", "to",
                    "hop_limit", "hop_start", "relay", "via_mqtt", "bytes">>
STATS_FIELDS == <<"interval_s", "zerohop", "passthru", "noop", "dropped", "skipped",
                  "errors", "total">>
OUTCOME_TAGS == [zerohop |-> "[ZEROHOP]", passthru |-> "[PASSTHRU]", noop |-> "[NOOP]",
                 dropped |-> "[DROPPED]", warn |-> "[WARN]"]

(* repr() is one-to-one and printable; numbers need no quotes. *)
ASSUME LogAssumption ==
  /\ MaxRecords \in Nat
  /\ Texts \cup Channels \cup Senders \cup Counts \subseteq Seq(STRING)
  /\ \A n \in Counts : Plain(n)
  /\ Outcomes \subseteq DOMAIN OUTCOME_TAGS
  /\ "\n" \in DOMAIN Repr /\ DOMAIN Repr \subseteq STRING \ NEEDS_QUOTING
  /\ \A c \in DOMAIN Repr : Repr[c] \in STRING \ (DOMAIN Repr \cup {"\"", "\\"})
  /\ \A c, d \in DOMAIN Repr : Repr[c] = Repr[d] => c = d

VARIABLES emitted,      \* the records, as they were given to the logger
          stream        \* what the handler has written
vars == <<emitted, stream>>

(* Mutants: backslashes are not escaped; non-printable characters are not. *)
escape_char_no_backslash(c) ==
  IF c = "\"" THEN <<"\\", c>> ELSE IF c \in DOMAIN Repr THEN <<"\\", Repr[c]>> ELSE <<c>>
escape_char_no_repr(c) == IF c \in {"\"", "\\"} THEN <<"\\", c>> ELSE <<c>>

escape_char(c) ==
  IF c \in {"\"", "\\"} THEN <<"\\", c>>
  ELSE IF c \in DOMAIN Repr THEN <<"\\", Repr[c]>>
  ELSE <<c>>

escape(text) ==
  IF text # <<>> /\ Plain(text) THEN text
  ELSE <<"\"">> \o FlattenSeq([i \in DOMAIN text |-> escape_char(text[i])]) \o <<"\"">>

(* The fields that are not None, in display order, as key=value. *)
Fields(fields, extra) ==
  FlattenSeq([i \in DOMAIN fields |->
                IF fields[i] \in DOMAIN extra THEN <<" ", fields[i], "=">> \o extra[fields[i]]
                                              ELSE <<>>])

format_message(record) ==
  <<OUTCOME_TAGS[record.outcome]>>
    \o Fields(MESSAGE_FIELDS, [key \in DOMAIN record.extra |-> escape(record.extra[key])])
format_stats(record) == <<"[STATS]">> \o Fields(STATS_FIELDS, record.extra)
format(record) == IF record.event = "message" THEN format_message(record)
                                              ELSE format_stats(record)

-----------------------------------------------------------------------------
Init == emitted = <<>> /\ stream = <<>>

(* One write under the handler's lock: the line and its terminator. *)
Emit(record) ==
  /\ emitted' = Append(emitted, record)
  /\ stream' = stream \o format(record) \o <<"\n">>

(* What cannot be parsed is logged with its size, the rest with the sender it names:
   the other fields of a packet are rendered alike. *)
LogWarn(topic, channel) ==
  \E bytes \in Counts :
    Emit([event |-> "message", outcome |-> "warn",
          extra |-> [topic |-> topic, channel |-> channel, encoding |-> <<"json">>,
                     bytes |-> bytes]])
LogPacket(topic, channel) ==
  \E outcome \in Outcomes, sender \in Senders :
    Emit([event |-> "message", outcome |-> outcome,
          extra |-> [k \in {"topic", "channel", "encoding", "from"} |->
                       CASE k = "topic" -> topic [] k = "channel" -> channel
                         [] k = "from" -> sender [] OTHER -> <<"json">>]])
LogStats ==
  \E n \in Counts : Emit([event |-> "stats", extra |-> [interval_s |-> n, total |-> n]])

Next == /\ Len(emitted) < MaxRecords
        /\ \/ LogStats
           \/ \E topic \in Texts, channel \in Channels :
                LogWarn(topic, channel) \/ LogPacket(topic, channel)
Spec == Init /\ [][Next]_vars

-----------------------------------------------------------------------------
(* How a collector reads the log, independently of what wrote it: a line ends at its
   terminator, begins with a tag and goes on with key=value; a value that begins with
   a quote extends to the next one that no backslash precedes. *)
Start == [lines |-> <<>>, tag |-> "", fields |-> <<>>, key |-> "", value |-> <<>>,
          mode |-> "tag"]
Close(r) == IF r.mode \in {"value", "bare", "closed"}
            THEN [r EXCEPT !.fields = Append(@, <<r.key, r.value>>), !.value = <<>>] ELSE r
Unescaped(c) == IF \E d \in DOMAIN Repr : Repr[d] = c
                THEN CHOOSE d \in DOMAIN Repr : Repr[d] = c ELSE c
ReadChar(r, c) ==
  CASE c = "\n" -> [Start EXCEPT !.lines = Append(r.lines, <<r.tag, Close(r).fields>>)]
    [] c # "\n" /\ r.mode = "tag" -> [r EXCEPT !.tag = c, !.mode = "space"]
    [] c # "\n" /\ r.mode = "quoted" ->
         IF c = "\\" THEN [r EXCEPT !.mode = "escape"]
         ELSE IF c = "\"" THEN [r EXCEPT !.mode = "closed"]
         ELSE [r EXCEPT !.value = Append(@, c)]
    [] c # "\n" /\ r.mode = "escape" ->
         [r EXCEPT !.value = Append(@, Unescaped(c)), !.mode = "quoted"]
    [] c # "\n" /\ r.mode = "key" ->
         IF c = "=" THEN [r EXCEPT !.mode = "value"] ELSE [r EXCEPT !.key = c]
    [] c = "\"" /\ r.mode = "value" -> [r EXCEPT !.mode = "quoted"]
    [] OTHER -> IF c = " " THEN [Close(r) EXCEPT !.mode = "key"]
                ELSE [r EXCEPT !.value = Append(@, c), !.mode = "bare"]
Read(s) ==
  LET read[i \in 0..Len(s)] == IF i = 0 THEN Start ELSE ReadChar(read[i - 1], s[i])
  IN  read[Len(s)]

(* What a record says: its tag, and its fields in order. *)
Said(fields, extra) ==
  FlattenSeq([i \in DOMAIN fields |->
                IF fields[i] \in DOMAIN extra THEN <<<<fields[i], extra[fields[i]]>>>> ELSE <<>>])
Meaning(record) ==
  IF record.event = "stats" THEN <<"[STATS]", Said(STATS_FIELDS, record.extra)>>
  ELSE <<OUTCOME_TAGS[record.outcome], Said(MESSAGE_FIELDS, record.extra)>>

(* log_setup.py:47: no value "can break the key=value line format".  Every record is
   one line, so that a line nobody logged cannot be read, whatever publishers name
   their topics and channels ... *)
OneLineEach == Cardinality({i \in DOMAIN stream : stream[i] = "\n"}) = Len(emitted)

(* ... and a collector reads back the fields of each record, no more and no other:
   quoting and escaping lose nothing, and nothing inside a value passes for a field,
   a tag or the end of the value. *)
ReadsBack == Read(stream).lines = [i \in DOMAIN emitted |-> Meaning(emitted[i])]
=============================================================================
