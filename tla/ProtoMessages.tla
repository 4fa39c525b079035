--------------------------- MODULE ProtoMessages ----------------------------
(***************************************************************************)
(* The protobuf messages between vic-gateway and vic-engine: what encoding *)
(* and decoding (golang/protobuf, external) make of a message by its layout, *)
(* and the way of one message: WriteWithID, a socket whose reader has a    *)
(* buffer of a fixed size (internal/ipc/baseconn.go), ProcessMessages.     *)
(* vic-engine, at the other end, writes as WriteWithID does.  A number is the *)
(* sequence of its groups of seven bits, lowest first; a field that may be *)
(* absent is the sequence of what it holds.                                *)
(***************************************************************************)
EXTENDS ProtoLayouts, Sequences, SequencesExt

CONSTANT BufferSize   \* of the reader: 32768

\* A truncated message keeps more than the prefix and the connection's number.
ASSUME MessagesAssumption == BufferSize \in Nat /\ BufferSize > 2 + 11

-----------------------------------------------------------------------------
\* Numbers in groups of seven bits, each but the last with the high bit set.
Groups(n) ==
  CASE n < 128 -> <<n>>
    [] n < 128 * 128 -> <<n % 128, n \div 128>>
    [] OTHER -> <<n % 128, (n \div 128) % 128, n \div (128 * 128)>>

Value(groups) ==
  FoldSeq(LAMBDA i, sum : sum + groups[i] * 128^(i - 1), 0, [i \in DOMAIN groups |-> i])

VarintBytes(groups) ==
  [i \in DOMAIN groups |-> IF i < Len(groups) THEN groups[i] + 128 ELSE groups[i]]

WireType(f) ==
  CASE f.kind = "varint" -> 0 [] f.kind = "fixed" -> 5 [] OTHER -> 2

Key(f) == VarintBytes(Groups(f.number * 8 + WireType(f)))

Delimited(bytes) == VarintBytes(Groups(Len(bytes))) \o bytes

-----------------------------------------------------------------------------
\* proto.Size counts without encoding.
KeySize(f) == Len(Groups(f.number * 8))

DelimitedSize(n) == Len(Groups(n)) + n

Zero(f) ==
  CASE f.kind = "varint" -> <<0>> [] f.kind = "fixed" -> <<0, 0, 0, 0>> [] OTHER -> <<>>

SumOver(count(_), values) == FoldSeq(LAMBDA x, sum : sum + count(x), 0, values)

RECURSIVE SizeOf(_, _)
ValueSize(f, v) ==
  KeySize(f) +
    CASE f.kind \in {"varint", "fixed"} -> Len(v)
      [] f.kind \in {"text", "texts"} -> DelimitedSize(Len(v))
      [] f.kind \in {"message", "many"} -> DelimitedSize(SizeOf(f.of, v))
      [] f.kind = "packed" -> DelimitedSize(SumOver(Len, v))

CaseSize(f, v) == IF v = <<>> THEN 0 ELSE ValueSize(f.cases[v[1]], v[2])

FieldSize(f, v) ==
  CASE f.kind = "oneof" -> CaseSize(f, v)
    [] f.kind \in {"message", "texts", "many"} -> SumOver(LAMBDA x : ValueSize(f, x), v)
    [] OTHER -> IF v = Zero(f) THEN 0 ELSE ValueSize(f, v)

SizeOf(layout, message) ==
  SumOver(LAMBDA i : FieldSize(layout[i], message[i]), [i \in DOMAIN layout |-> i])

-----------------------------------------------------------------------------
\* proto.Marshal.  A field without a value, or with the value zero, is left out.
RECURSIVE Marshal(_, _)
ValueBytes(f, v) ==
  Key(f) \o
    CASE f.kind = "varint" -> VarintBytes(v)
      [] f.kind = "fixed" -> v
      [] f.kind \in {"text", "texts"} -> Delimited(v)
      [] f.kind \in {"message", "many"} -> Delimited(Marshal(f.of, v))
      [] f.kind = "packed" -> Delimited(FlattenSeq([i \in DOMAIN v |-> VarintBytes(v[i])]))

CaseBytes(f, v) == IF v = <<>> THEN <<>> ELSE ValueBytes(f.cases[v[1]], v[2])

FieldBytes(f, v) ==
  CASE f.kind = "oneof" -> CaseBytes(f, v)
    [] f.kind \in {"message", "texts", "many"} ->
         FlattenSeq([i \in DOMAIN v |-> ValueBytes(f, v[i])])
    [] OTHER -> IF v = Zero(f) THEN <<>> ELSE ValueBytes(f, v)

Marshal(layout, message) ==
  FlattenSeq([i \in DOMAIN layout |-> FieldBytes(layout[i], message[i])])

-----------------------------------------------------------------------------
\* proto.Unmarshal.
Refused == [ok |-> FALSE]
Read(value, rest) == [ok |-> TRUE, value |-> value, rest |-> rest]

ReadBytes(n, buf) ==
  IF Len(buf) < n THEN Refused
  ELSE Read(SubSeq(buf, 1, n), SubSeq(buf, n + 1, Len(buf)))

ReadVarint(buf) ==
  LET n == SelectInSeq(buf, LAMBDA byte : byte < 128) IN
  IF n = 0 THEN Refused
  ELSE Read([i \in 1..n |-> buf[i] % 128], SubSeq(buf, n + 1, Len(buf)))

ReadDelimited(buf) ==
  LET length == ReadVarint(buf) IN
  IF length.ok THEN ReadBytes(Value(length.value), length.rest) ELSE Refused

ReadValue(wireType, buf) ==
  CASE wireType = 0 -> ReadVarint(buf)
    [] wireType = 5 -> ReadBytes(4, buf)
    [] wireType = 2 -> ReadDelimited(buf)
    [] OTHER -> Refused

RECURSIVE ReadVarints(_)
ReadVarints(buf) ==
  IF buf = <<>> THEN Read(<<>>, buf)
  ELSE LET first == ReadVarint(buf)
           others == ReadVarints(first.rest) IN
       IF first.ok /\ others.ok THEN Read(<<first.value>> \o others.value, <<>>) ELSE Refused

Empty(layout) ==
  [i \in DOMAIN layout |-> IF layout[i].kind = "oneof" THEN <<>> ELSE Zero(layout[i])]

RECURSIVE Merge(_, _, _)
Decoded(f, bytes) ==
  CASE f.kind \in {"message", "many"} -> Merge(f.of, Empty(f.of), bytes)
    [] f.kind = "packed" -> ReadVarints(bytes)
    [] OTHER -> Read(bytes, <<>>)

\* A field that repeats is added to, any other is replaced.
Joined(f, old, value) ==
  CASE f.kind \in {"texts", "many"} -> Append(old, value)
    [] f.kind = "message" -> <<value>>
    [] f.kind = "packed" -> old \o value
    [] OTHER -> value

\* The places of a layout that a number stands for: one, or none if it is unknown.
Places(layout, number) ==
  {i \in DOMAIN layout : layout[i].kind # "oneof" /\ layout[i].number = number}

CasePlaces(layout, number) ==
  UNION {{<<i, n>> : n \in {m \in DOMAIN layout[i].cases :
                              layout[i].cases[m].number = number}} :
          i \in {j \in DOMAIN layout : layout[j].kind = "oneof"}}

Merge(layout, message, buf) ==
  IF buf = <<>> THEN Read(message, buf)
  ELSE
    LET key == ReadVarint(buf)
        number == Value(key.value) \div 8
        raw == ReadValue(Value(key.value) % 8, key.rest) IN
    IF ~key.ok \/ ~raw.ok THEN Refused
    ELSE IF Places(layout, number) # {} THEN
      LET i == CHOOSE i \in Places(layout, number) : TRUE
          value == Decoded(layout[i], raw.value) IN
      IF value.ok
      THEN Merge(layout, [message EXCEPT ![i] = Joined(layout[i], @, value.value)], raw.rest)
      ELSE Refused
    ELSE IF CasePlaces(layout, number) # {} THEN
      LET c == CHOOSE c \in CasePlaces(layout, number) : TRUE
          value == Decoded(layout[c[1]].cases[c[2]], raw.value) IN
      IF value.ok
      THEN Merge(layout, [message EXCEPT ![c[1]] = <<c[2], value.value>>], raw.rest)
      ELSE Refused
    ELSE Merge(layout, message, raw.rest)

Unmarshal(layout, buf) == Merge(layout, Empty(layout), buf)

-----------------------------------------------------------------------------
\* The messages tried: in every field in turn every value where an encoding changes,
\* while the others are empty.  The number of ten groups is -1.
NumbersTried == {<<1>>, <<0, 1>>, [i \in 1..10 |-> IF i < 10 THEN 127 ELSE 1]}

TextsTried == {[i \in 1..n |-> i % 256] : n \in {1, 127, 128}}

RECURSIVE Variants(_)
ValuesTried(f) ==
  CASE f.kind = "varint" -> NumbersTried
    [] f.kind = "fixed" -> {<<1, 2, 3, 4>>}
    [] f.kind = "text" -> TextsTried
    [] f.kind = "message" -> {<<m>> : m \in Variants(f.of)}
    [] f.kind = "packed" -> {<<n, <<0>>>> : n \in NumbersTried}
    [] f.kind = "texts" -> {<<t, <<>>>> : t \in TextsTried}
    [] f.kind = "many" -> {<<m, Empty(f.of)>> : m \in Variants(f.of)}

CaseTried(f) ==
  IF f.kind = "message" THEN Variants(f.of) ELSE {Zero(f)} \cup ValuesTried(f)

FieldTried(f) ==
  IF f.kind # "oneof" THEN ValuesTried(f)
  ELSE UNION {{<<n, v>> : v \in CaseTried(f.cases[n])} : n \in DOMAIN f.cases}

Variants(layout) ==
  {Empty(layout)}
    \cup UNION {{[Empty(layout) EXCEPT ![i] = v] : v \in FieldTried(layout[i])} :
                 i \in DOMAIN layout}

Wrappers == Variants(GatewayWrapper)

\* No member of the oneof is set.
Typeless(wrapper) == wrapper[2] = <<>>

-----------------------------------------------------------------------------
VARIABLES
  written,   \* the wrapper that is written, or <<>>
  datagram,  \* what is on the socket, or <<>>
  received,  \* the wrapper that ProcessMessages hands on, or <<>>: none
  panicked   \* the gateway has broken down

messageVars == <<written, datagram, received, panicked>>

\* Mutant: the size is taken before the connection's number is set.
FramedTooEarly(wrapper) ==
  LET size == SizeOf(GatewayWrapper, [wrapper EXCEPT ![1] = <<0>>]) IN
  <<size % 256, (size \div 256) % 256>> \o Marshal(GatewayWrapper, wrapper)

\* proto.Size, as two bytes, before the message.
Framed(wrapper) ==
  LET size == SizeOf(GatewayWrapper, wrapper) IN
  <<size % 256, (size \div 256) % 256>> \o Marshal(GatewayWrapper, wrapper)

WriteWithID(connID) ==
  /\ written # <<>> /\ datagram = <<>> /\ received = <<>>
  /\ written' = [written EXCEPT ![1] = connID]
  /\ datagram' = Framed(written')
  /\ UNCHANGED <<received, panicked>>

\* ReadBlock: the reader's buffer cuts a longer datagram off.
Block == SubSeq(datagram, 1, Min({Len(datagram), BufferSize}))

\* Mutant: what does not decode is handed on all the same.
ProcessMessagesRegardless ==
  /\ datagram # <<>> /\ ~panicked
  /\ LET message == Unmarshal(GatewayWrapper, SubSeq(Block, 3, Len(Block))) IN
       /\ received' = IF message.ok THEN message.value ELSE Empty(GatewayWrapper)
       /\ panicked' = Typeless(received')
  /\ datagram' = <<>>
  /\ UNCHANGED written

\* What is too short or does not decode is dropped; the type of what has none
\* cannot be named.
ProcessMessages ==
  /\ datagram # <<>> /\ ~panicked
  /\ LET message == IF Len(Block) < 2 THEN Refused
                    ELSE Unmarshal(GatewayWrapper, SubSeq(Block, 3, Len(Block))) IN
       /\ panicked' = (message.ok /\ Typeless(message.value))
       /\ received' = IF message.ok /\ ~panicked' THEN message.value ELSE <<>>
  /\ datagram' = <<>>
  /\ UNCHANGED written

NothingSent == datagram = <<>> /\ received = <<>> /\ panicked = FALSE

MessagesInit == written \in Wrappers /\ NothingSent

MessagesNext == ProcessMessages \/ \E connID \in NumbersTried \cup {<<0>>} : WriteWithID(connID)

MessagesIdle == written = <<>> /\ NothingSent

-----------------------------------------------------------------------------
\* The two bytes in front say how many bytes follow, whatever number the connection
\* gets: proto.Size foresees what proto.Marshal writes (WriteWithID).
PrefixIsLength ==
  datagram # <<>> => datagram[1] + 256 * datagram[2] = Len(datagram) - 2

\* A listener gets a message as it was written, down to a setting that is set to
\* zero and an answer without fields, or, if the reader's buffer was too small for
\* it, not at all (ProcessMessages).  A message without a type breaks the gateway
\* down, and no other does, not one that was cut off either.
WholeOrNotAtAll ==
  [][datagram # <<>> /\ ~panicked =>
       IF Typeless(written) THEN panicked'
       ELSE /\ ~panicked'
            /\ received' = IF Len(datagram) <= BufferSize THEN written ELSE <<>>
    ]_messageVars

\* Wherever a buffer cuts a message off behind the connection's number, what is left
\* does not decode: it is not another message, nor one of no type, which has no tag.
NoPartIsAMessage ==
  \A n \in (2 + 12)..(Len(datagram) - 1) :
    ~Unmarshal(GatewayWrapper, SubSeq(datagram, 3, n)).ok
=============================================================================
