----------------------------- MODULE BinaryPack -----------------------------
(***************************************************************************)
(* What PeerJS does to a value before it is sent and after it has arrived  *)
(* (html/lib/peerjs.js, BufferBuilder, Packer and Unpacker).               *)
(*                                                                         *)
(* A value is a pair of its kind and its contents. A string is a sequence  *)
(* of UTF-16 code units, an object the sequence of its properties. Numbers *)
(* are integers of 32 signed bits, TLC's own; doubles and the forms of 64  *)
(* bits are left out.                                                      *)
(***************************************************************************)
EXTENDS Integers, Sequences, SequencesExt

CONSTANT BlobFrom    \* strings longer than this are measured by a Blob (600)

ASSUME BlobFromAssumption == BlobFrom \in Nat

Null == <<"null">>
Undefined == <<"undefined">>
Thrown == <<"thrown">>           \* no value: the unpacker has thrown
Boolean(b) == <<"boolean", b>>
Number(n) == <<"number", n>>
String(units) == <<"string", units>>
Binary(bytes) == <<"binary", bytes>>
Array(values) == <<"array", values>>
Object(props) == <<"object", props>>     \* props: pairs of a key (a String) and a value

-----------------------------------------------------------------------------
(* Strings                                                                 *)

IsHigh(u) == u \in 55296..56319
IsLow(u) == u \in 56320..57343

\* How many code units the character at i takes: a surrogate pair takes two.
Units(units, i) ==
    IF IsHigh(units[i]) /\ i < Len(units) /\ IsLow(units[i + 1]) THEN 2 ELSE 1

\* UTF-8 as a Blob makes it of a string, from code unit i on; half a pair becomes
\* U+FFFD.
RECURSIVE Utf8(_, _)
Utf8(units, i) ==
    IF i > Len(units) THEN <<>>
    ELSE LET u == units[i]
             code == IF Units(units, i) = 2
                     THEN 65536 + (u - 55296) * 1024 + (units[i + 1] - 56320)
                     ELSE IF IsHigh(u) \/ IsLow(u) THEN 65533 ELSE u
             tail(k) == 128 + ((code \div 64^k) % 64)
             bytes == CASE code < 128 -> <<code>>
                        [] code \in 128..2047 -> <<192 + code \div 64, tail(0)>>
                        [] code \in 2048..65535 ->
                               <<224 + code \div 4096, tail(1), tail(0)>>
                        [] OTHER -> <<240 + code \div 262144, tail(2), tail(1), tail(0)>>
         IN  bytes \o Utf8(units, i + Units(units, i))

\* utf8Length: the replaced text has a character per byte of every code unit.
Utf8Length(units) ==
    IF Len(units) > BlobFrom THEN Len(Utf8(units, 1))
    ELSE LET width(u) == IF u < 128 THEN 1 ELSE IF u < 2048 THEN 2 ELSE 3
         IN  FoldSeq(LAMBDA u, sum : sum + width(u), 0, units)

\* unpack_string's loop, from byte i on: characters of one, two or three bytes. A
\* byte past the end counts as 0.
RECURSIVE Chars(_, _)
Chars(bytes, i) ==
    IF i > Len(bytes) THEN <<>>
    ELSE LET c == bytes[i]
             low(k) == IF i + k <= Len(bytes) THEN bytes[i + k] % 64 ELSE 0
         IN  CASE c < 128 -> <<c>> \o Chars(bytes, i + 1)
               [] c \in 192..223 -> <<(c - 192) * 64 + low(1)>> \o Chars(bytes, i + 2)
               [] OTHER -> <<(c % 16) * 4096 + low(1) * 64 + low(2)>> \o Chars(bytes, i + 3)

-----------------------------------------------------------------------------
(* Packing                                                                 *)

\* The lowest bytes of an integer in two's complement, most significant first.
Bytes(num, count) == [k \in 1..count |-> (num \div 256^(count - k)) % 256]

\* The type byte and the length: in the type byte up to 15, then in two bytes,
\* then in four.
Header(small, medium, large, length) ==
    CASE length <= 15 -> <<small + length>>
      [] length \in 16..65535 -> <<medium>> \o Bytes(length, 2)
      [] OTHER -> <<large>> \o Bytes(length, 4)

\* pack_integer
PackInteger(num) ==
    CASE num \in -32..127 -> Bytes(num, 1)
      [] num \in 128..255 -> <<204>> \o Bytes(num, 1)
      [] num \in -128..-33 -> <<208>> \o Bytes(num, 1)
      [] num \in 256..65535 -> <<205>> \o Bytes(num, 2)
      [] num \in -32768..-129 -> <<209>> \o Bytes(num, 2)
      [] num > 65535 -> <<206>> \o Bytes(num, 4)
      [] num < -32768 -> <<210>> \o Bytes(num, 4)

\* pack_string: the length is counted, the bytes are the Blob's.
PackString(units) == Header(176, 216, 217, Utf8Length(units)) \o Utf8(units, 1)

\* Packer.pack: the bytes of a value
RECURSIVE Pack(_)
Pack(value) ==
    CASE value[1] = "number" -> PackInteger(value[2])
      [] value[1] = "string" -> PackString(value[2])
      [] value[1] = "boolean" -> IF value[2] THEN <<195>> ELSE <<194>>
      [] value[1] \in {"undefined", "null"} -> <<192>>
      [] value[1] = "binary" -> Header(160, 218, 219, Len(value[2])) \o value[2]
      [] value[1] = "array" ->
             Header(144, 220, 221, Len(value[2]))
                 \o FlattenSeq([i \in DOMAIN value[2] |-> Pack(value[2][i])])
      [] value[1] = "object" ->
             Header(128, 222, 223, Len(value[2]))
                 \o FlattenSeq([i \in DOMAIN value[2] |->
                        Pack(value[2][i][1]) \o Pack(value[2][i][2])])

-----------------------------------------------------------------------------
(* Unpacking: what is read from the place next on, and the place after it  *)

\* unpack_uint8 does not look at the length: past the end there are zeros.
ByteAt(data, next) == IF next <= Len(data) THEN data[next] ELSE 0

\* read and unpack_raw, which do: the next size bytes are there.
Available(data, next, size) == next + size - 1 <= Len(data)

Unsigned(bytes) == FoldLeft(LAMBDA num, byte : num * 256 + byte, 0, bytes)

\* unpack_int8, unpack_int16, unpack_int32: what they subtract from the whole is
\* taken from the first byte, so that no number is longer than 32 bits.
Signed(bytes) ==
    Unsigned(<<IF bytes[1] < 128 THEN bytes[1] ELSE bytes[1] - 256>> \o Tail(bytes))

\* What follows a type byte that stands for something with a length: its kind, and
\* in how many bytes the length is given (0: in the type byte itself).
Sized(type) ==
    CASE type \in 128..143 -> <<"object", 0>>
      [] type \in 144..159 -> <<"array", 0>>
      [] type \in 160..175 -> <<"binary", 0>>
      [] type \in 176..191 -> <<"string", 0>>
      [] type \in 216..217 -> <<"string", 2 * (type - 215)>>
      [] type \in 218..219 -> <<"binary", 2 * (type - 217)>>
      [] type \in 220..221 -> <<"array", 2 * (type - 219)>>
      [] type \in 222..223 -> <<"object", 2 * (type - 221)>>

Result(value, next) == [value |-> value, next |-> next]

\* Unpacker.unpack from a place on, and the count values that follow a place.
RECURSIVE Unpack(_, _), UnpackMany(_, _, _)
UnpackMany(data, next, count) ==
    IF count = 0 THEN Result(<<>>, next)
    ELSE LET one == Unpack(data, next)
             others == UnpackMany(data, one.next, count - 1)
         IN  IF Thrown \in {one.value, others.value} THEN Result(Thrown, next)
             ELSE Result(<<one.value>> \o others.value, others.next)

Unpack(data, start) ==
    LET type == ByteAt(data, start)
        next == start + 1
        \* reads so many bytes, all of which must be there, but for a single one
        read(count) == [k \in 1..count |-> ByteAt(data, next + k - 1)]
        integer(count, Value(_)) ==
            IF count = 1 \/ Available(data, next, count)
            THEN Result(Number(Value(read(count))), next + count)
            ELSE Result(Thrown, next)
        \* size things of a kind, from a place on
        sized(kind, size, from) ==
            IF kind \in {"string", "binary"}
            THEN IF ~Available(data, from, size) THEN Result(Thrown, from)
                 ELSE LET bytes == SubSeq(data, from, from + size - 1)
                      IN  Result(IF kind = "string" THEN String(Chars(bytes, 1))
                                                    ELSE Binary(bytes), from + size)
            ELSE LET many == UnpackMany(data, from,
                                        IF kind = "array" THEN size ELSE 2 * size)
                     props == [i \in 1..size |-> <<many.value[2 * i - 1], many.value[2 * i]>>]
                 IN  IF many.value = Thrown THEN many
                     ELSE Result(IF kind = "array" THEN Array(many.value) ELSE Object(props),
                                 many.next)
    IN  CASE type < 128 -> Result(Number(type), next)
          [] type >= 224 -> Result(Number(type - 256), next)
          [] type \in (128..191) \cup (216..223) ->
                 LET kind == Sized(type)[1]
                     width == Sized(type)[2]
                 IN  IF width = 0 THEN sized(kind, type % 16, next)
                     ELSE IF ~Available(data, next, width) THEN Result(Thrown, next)
                     ELSE sized(kind, Unsigned(read(width)), next + width)
          [] type = 192 -> Result(Null, next)
          [] type = 194 -> Result(Boolean(FALSE), next)
          [] type = 195 -> Result(Boolean(TRUE), next)
          [] type \in 204..206 -> integer(2^(type - 204), Unsigned)
          [] type \in 208..210 -> integer(2^(type - 208), Signed)
          [] OTHER -> Result(Undefined, next)

-----------------------------------------------------------------------------
(* What it is meant to do, stated without bytes.                           *)

\* The value that arrives: undefined becomes null on the way, nothing else changes.
RECURSIVE Carried(_)
Carried(value) ==
    CASE value = Undefined -> Null
      [] value[1] = "array" -> Array([i \in DOMAIN value[2] |-> Carried(value[2][i])])
      [] value[1] = "object" ->
             Object([i \in DOMAIN value[2] |-> <<value[2][i][1], Carried(value[2][i][2])>>])
      [] OTHER -> value

\* The receiver has the value, and has read all that was sent and no more.
Arrives(value) ==
    LET data == Pack(value) IN Unpack(data, 1) = Result(Carried(value), Len(data) + 1)
=============================================================================
