----------------------------- MODULE MCDataLink -----------------------------
(* An instance of DataLink for TLC, and the packing of its messages checked   *)
(* on small values: a message that DataLink delivers whole is the one that    *)
(* was sent only if the unpacker undoes what the packer did.                  *)
EXTENDS DataLink, BinaryPack

\* Integers on both sides of every limit of pack_integer, and in between.
Limits == {-32, 127, -128, 255, -32768, 65535}
Integers32 == (-300)..300 \cup {-2147483647, 2147483647, -65537, 16777215, 16777216}
                  \cup UNION {(l - 2)..(l + 2) : l \in Limits}
ASSUME IntegersArrive == \A n \in Integers32 : Arrives(Number(n))

\* Strings of up to four code units, at the limits of one, two and three bytes,
\* shorter and longer than BlobFrom.
Units3 == {0, 127, 128, 2047, 2048, 65535}
Strings == UNION {[1..n -> Units3] : n \in 0..4}
ASSUME StringsArrive == \A units \in Strings : Arrives(String(units))

\* A string with half a surrogate pair or a whole one never arrives as it was,
\* neither alone nor in front of something else.
Surrogate == {units \in UNION {[1..n -> {65, 55357, 56832}] : n \in 1..4} :
                  \E i \in DOMAIN units : units[i] # 65}
ASSUME PairsAreLost == \A units \in Surrogate :
    ~Arrives(String(units)) /\ ~Arrives(Array(<<String(units), String(<<65>>), Null>>))

\* Lengths on both sides of the two limits of a header.
Filler(n) == [i \in 1..n |-> i % 256]
ASSUME LongArrive == \A n \in {0, 1, 15, 16, 255, 256, 65535, 65536} :
    Arrives(Binary(Filler(n)))
ASSUME ManyArrive == \A n \in {0, 1, 15, 16, 17, 40} :
    /\ Arrives(Array([i \in 1..n |-> Number(i)]))
    /\ Arrives(Object([i \in 1..n |-> <<String(<<i>>), Number(-i)>>]))

\* Values in one another: what the pages and DataConnection send are objects of
\* strings, numbers and files.
Plain == {Null, Undefined, Boolean(TRUE), Boolean(FALSE), Number(-1), Number(300),
          String(<<>>), String(<<65, 8364>>), Binary(<<0, 255>>)}
Nested == Plain \cup {Array(values) : values \in UNION {[1..n -> Plain] : n \in 0..2}}
                \cup {Object(<< <<String(<<102>>), v>>, <<String(<<116>>), w>> >>) :
                         v \in Plain, w \in Plain}
ASSUME NestedArrive == \A v \in Nested, w \in Plain :
    Arrives(Array(<<v, w>>)) /\ Arrives(Object(<< <<String(<<100>>), v>>, <<String(<<>>), w>> >>))
=============================================================================
