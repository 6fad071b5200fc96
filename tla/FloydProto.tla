------------------------------ MODULE FloydProto ------------------------------
(***************************************************************************)
(* What becomes of a message of floyd between the server that fills it in  *)
(* and the one that reads it, or between two lives of a server when it was *)
(* stored: the operations of the generated classes, by the tables of       *)
(* FloydMessages.                                                          *)
(*                                                                         *)
(*   build    accessors are called on a message                            *)
(*   written  it is serialized; the bytes may be of a newer version of the *)
(*            program, or be cut short                                     *)
(*   parsed   it is read into an object that held another message before,  *)
(*            as a connection reads request after request into request_    *)
(*                                                                         *)
(* A wire is a sequence of fields; bytes are sequences of numbers, numbers *)
(* are below 2^14.                                                         *)
(***************************************************************************)
EXTENDS FloydMessages, FiniteSets, SequencesExt, FiniteSetsExt

CONSTANT MaxEdits   \* bound: calls of accessors on one message

ASSUME EditAssumption == MaxEdits \in Nat

VARIABLES
  type,     \* the class of the messages
  msg,      \* the message that is sent or stored
  edits,    \* how many accessors were called on it
  wire,     \* what it was serialized to
  damage,   \* what has happened to the wire
  got,      \* the object it is read into
  ok,       \* what ParseFromString returned
  stage     \* "build", "written" or "parsed"

vars == <<type, msg, edits, wire, damage, got, ok, stage>>

-----------------------------------------------------------------------------
(* Fields *)

New(t)         == Blank(DefaultTable[t])
Names(t)       == DOMAIN DefaultTable[t]
KindOf(t, n)   == (CHOOSE f \in ParseTable[t] : f[2] = n)[3]
Labelled(t, l) == {f[2] : f \in {g \in ParseTable[t] : g[4] = l}}
Repeated(t)    == Labelled(t, "repeated")

\* WireFormatLite: enums and numbers are varints, the rest has a length.
WireType(kind) ==
  IF kind \in DOMAIN Valid \cup {"int"} THEN "varint" ELSE "delimited"

\* set_, mutable_ and add_ of a field.
Put(t, m, n, v) ==
  IF n \in Repeated(t)
  THEN [m EXCEPT !.val[n] = Append(@, v)]
  ELSE [m EXCEPT !.has = @ \cup {n}, !.val[n] = v]

\* clear_ of a field.
Unput(t, m, n) ==
  [m EXCEPT !.has = @ \ {n}, !.val[n] = DefaultTable[t][n]]

\* Clear, which ParseFromString begins with.
Clear(t, m) ==
  [has |-> {},
   val |-> [n \in Names(t) |-> IF n \in ClearTable[t] THEN DefaultTable[t][n]
                                                      ELSE m.val[n]],
   unknown |-> <<>>]

-----------------------------------------------------------------------------
(* Writing *)

RECURSIVE Serialize(_, _), ByteSize(_, _), WireSize(_)

\* One field on the wire.  nested says that its bytes are those of a message.
Field(num, kind, v) ==
  LET nested == kind \in MessageType IN
  [num |-> num, wt |-> WireType(kind), nested |-> nested,
   val |-> IF nested THEN Serialize(kind, v) ELSE v]

\* SerializeWithCachedSizes: field by field, then the unknown fields.
Serialize(t, m) ==
  LET Written(w) ==
        CASE w[1] \in Repeated(t) ->
               [k \in DOMAIN m.val[w[1]] |-> Field(w[2], w[3], m.val[w[1]][k])]
          [] w[1] \in m.has -> <<Field(w[2], w[3], m.val[w[1]])>>
          [] OTHER -> <<>>
  IN FlattenSeq([k \in DOMAIN WriteTable[t] |-> Written(WriteTable[t][k])])
     \o m.unknown

\* CodedOutputStream::VarintSize
VarintSize(n) == IF n < 128 THEN 1 ELSE 2

\* A value without its tag, as ByteSize counts it.
ValueSize(kind, v) ==
  IF WireType(kind) = "varint" THEN VarintSize(v)
  ELSE LET n == IF kind \in MessageType THEN ByteSize(kind, v) ELSE Len(v)
       IN VarintSize(n) + n

\* ByteSize, which the buffer is allocated by.  Every tag takes one byte.
ByteSize(t, m) ==
  LET SizeOf(n) ==
        CASE n \in Repeated(t) ->
               FoldLeft(LAMBDA sum, v : sum + 1 + ValueSize(KindOf(t, n), v), 0,
                        m.val[n])
          [] n \in m.has -> 1 + ValueSize(KindOf(t, n), m.val[n])
          [] OTHER -> 0
  IN MapThenSumSet(SizeOf, SizeTable[t]) + WireSize(m.unknown)

\* The bytes that are there.
WireSize(w) ==
  LET FieldSize(f) ==
        IF f.wt = "varint" THEN 1 + VarintSize(f.val)
        ELSE LET n == IF f.nested THEN WireSize(f.val) ELSE Len(f.val)
             IN 1 + VarintSize(n) + n
  IN FoldLeft(LAMBDA sum, f : sum + FieldSize(f), 0, w)

-----------------------------------------------------------------------------
(* Reading *)

RECURSIVE MergeFields(_, _, _), IsInitialized(_, _), MergeFrom(_, _, _)

\* The object a message inside is read into: a new one of a repeated field,
\* else the one that is there.
SubMessage(t, m, n, kind) == IF n \in Repeated(t) THEN New(kind) ELSE m.val[n]

\* Mutant: a number that is no enum value is dropped.
UnknownDropped(r, f) == r

\* WireFormat::SkipField and AddVarint.
Unknown(r, f) == [r EXCEPT !.msg.unknown = Append(@, f)]

\* One round of the loop of MergePartialFromCodedStream.
MergeField(t, r, f) ==
  LET cases == {c \in ParseTable[t] : c[1] = f.num /\ WireType(c[3]) = f.wt}
      c == CHOOSE c \in cases : TRUE
      sub == MergeFields(c[3], SubMessage(t, r.msg, c[2], c[3]), f.val)
  IN CASE ~r.ok \/ f.wt = "cut" -> [r EXCEPT !.ok = FALSE]
       [] r.ok /\ f.wt # "cut" /\ cases = {} -> Unknown(r, f)
       [] OTHER ->
            CASE c[3] \in MessageType ->
                   [ok |-> sub.ok, msg |-> Put(t, r.msg, c[2], sub.msg)]
              [] c[3] \in DOMAIN Valid /\ f.val \notin Valid[c[3]] -> Unknown(r, f)
              [] OTHER -> [r EXCEPT !.msg = Put(t, @, c[2], f.val)]

MergeFields(t, m, w) ==
  FoldLeft(LAMBDA r, f : MergeField(t, r, f), [ok |-> TRUE, msg |-> m], w)

\* IsInitialized: the has bits, then the messages inside.
IsInitialized(t, m) ==
  /\ RequiredTable[t] \subseteq m.has
  /\ \A n \in CheckedTable[t] :
       IF n \in Repeated(t)
       THEN \A k \in DOMAIN m.val[n] : IsInitialized(KindOf(t, n), m.val[n][k])
       ELSE n \in m.has => IsInitialized(KindOf(t, n), m.val[n])

\* MergeFrom, which copying a message comes down to.
MergeFrom(t, to, from) ==
  LET Merged(n) ==
        CASE n \notin MergeTable[t] -> to.val[n]
          [] n \in MergeTable[t] /\ n \in Repeated(t) -> to.val[n] \o from.val[n]
          [] OTHER ->
               CASE n \notin from.has -> to.val[n]
                 [] n \in from.has /\ KindOf(t, n) \in MessageType ->
                      MergeFrom(KindOf(t, n), to.val[n], from.val[n])
                 [] OTHER -> from.val[n]
  IN [has |-> to.has \cup (from.has \cap MergeTable[t]),
      val |-> [n \in Names(t) |-> Merged(n)],
      unknown |-> to.unknown \o from.unknown]

-----------------------------------------------------------------------------
(* The life of a message *)

RECURSIVE Full(_)

\* A value that differs from the default.
Other(kind) ==
  CASE kind = "int" -> 300
    [] kind = "bytes" -> <<7>>
    [] kind \in DOMAIN Valid -> Max(Valid[kind])
    [] OTHER -> Full(kind)

\* A message with every field set, and one element in every repeated field.
Full(t) ==
  [has |-> Names(t) \ Repeated(t),
   val |-> [n \in Names(t) |-> IF n \in Repeated(t) THEN <<Other(KindOf(t, n))>>
                                                    ELSE Other(KindOf(t, n))],
   unknown |-> <<>>]

\* What accessors may put into a field.
Values(kind) ==
  {Other(kind),
   CASE kind \in DOMAIN Valid \cup {"int"} -> 0
     [] kind = "bytes" -> <<>>
     [] OTHER -> New(kind)}

Edit(m) ==
  /\ stage = "build"
  /\ edits < MaxEdits
  /\ edits' = edits + 1
  /\ msg' = m
  /\ UNCHANGED <<type, wire, damage, got, ok, stage>>

SetField(n) == \E v \in Values(KindOf(type, n)) : Edit(Put(type, msg, n, v))

ClearField(n) == Edit(Unput(type, msg, n))

SerializeToString ==
  /\ stage = "build"
  /\ wire' = Serialize(type, msg)
  /\ stage' = "written"
  /\ UNCHANGED <<type, msg, edits, damage, got, ok>>

UnknownNumber == 15

\* The wire comes from a program that knows another field.
AddUnknown ==
  /\ stage = "written"
  /\ damage = "none"
  /\ damage' = "unknown"
  /\ wire' = Append(wire, [num |-> UnknownNumber, wt |-> "varint",
                           nested |-> FALSE, val |-> 1])
  /\ UNCHANGED <<type, msg, edits, got, ok, stage>>

\* ... or another value of an enum.
AddEnumValue(k) ==
  /\ stage = "written"
  /\ damage = "none"
  /\ damage' = "enum"
  /\ \E c \in ParseTable[type] : c[1] = wire[k].num /\ c[3] \in DOMAIN Valid
  /\ wire' = [wire EXCEPT ![k].val = 99]
  /\ UNCHANGED <<type, msg, edits, got, ok, stage>>

\* The bytes end in the middle of the last field, or of the last field inside
\* of it.
CutShort ==
  LET k == Len(wire) IN
  /\ stage = "written"
  /\ damage = "none"
  /\ wire # <<>>
  /\ damage' = "cut"
  /\ \/ wire' = [wire EXCEPT ![k].wt = "cut"]
     \/ /\ wire[k].nested
        /\ wire[k].val # <<>>
        /\ wire' = [wire EXCEPT ![k].val[Len(wire[k].val)].wt = "cut"]
  /\ UNCHANGED <<type, msg, edits, got, ok, stage>>

\* MessageLite::ParseFromString and ParseFromArray: clear, merge, check.  The
\* fields that were read stay when it fails.
ParseFromString ==
  /\ stage = "written"
  /\ LET r == MergeFields(type, Clear(type, got), wire)
     IN /\ got' = r.msg
        /\ ok' = (r.ok /\ IsInitialized(type, r.msg))
  /\ stage' = "parsed"
  /\ UNCHANGED <<type, msg, edits, wire, damage>>

Init ==
  /\ type \in MessageType
  /\ msg \in {New(type), Full(type)}
  /\ edits = 0
  /\ wire = <<>>
  /\ damage = "none"
  /\ got = Full(type)
  /\ ok = FALSE
  /\ stage = "build"

Next ==
  \/ \E n \in Names(type) : SetField(n) \/ ClearField(n)
  \/ SerializeToString
  \/ AddUnknown
  \/ \E k \in DOMAIN wire : AddEnumValue(k)
  \/ CutShort
  \/ ParseFromString

Spec == Init /\ [][Next]_vars

-----------------------------------------------------------------------------
(* Properties *)

\* What is read is what was written, field by field and with the same has bits
\* (a zero that was set is not the same as one that was not), although the
\* object held another message before.
RoundTrip == stage = "parsed" /\ damage = "none" => got = msg

\* The labels of the proto file, followed through the messages inside.
RECURSIVE Complete(_, _)
Complete(t, m) ==
  /\ Labelled(t, "required") \subseteq m.has
  /\ \A n \in Names(t) : KindOf(t, n) \in MessageType =>
       IF n \in Repeated(t)
       THEN \A k \in DOMAIN m.val[n] : Complete(KindOf(t, n), m.val[n][k])
       ELSE n \in m.has => Complete(KindOf(t, n), m.val[n])

\* A message is accepted exactly if it is whole and has all that is required,
\* inside of other messages too: DealMessage and Apply go on to use the fields
\* of one that was accepted without looking at the has bits.
AcceptedIffComplete ==
  stage = "parsed" => (ok <=> damage # "cut" /\ Complete(type, got))

\* Nothing of what a newer program sends is lost: written again, the message
\* has the same fields.
NothingLost ==
  stage = "parsed" /\ damage # "cut" =>
    \A n \in {f[1] : f \in ParseTable[type]} \cup {UnknownNumber} :
      LET Of(w) == SelectSeq(w, LAMBDA f : f.num = n)
      IN Of(Serialize(type, got)) = Of(wire)

\* The buffer has the size of what is written to it.
SizeIsExact ==
  stage = "written" /\ damage = "none" => ByteSize(type, msg) = WireSize(wire)

\* A copy of what was read, as ReplyAppendEntries makes one, is equal to it.
CopyIsEqual == stage = "parsed" => MergeFrom(type, New(type), got) = got

=============================================================================
