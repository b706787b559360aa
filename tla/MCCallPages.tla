---------------------------- MODULE MCCallPages ----------------------------
(* Instances of CallPages for TLC: users and how their names are spelled.   *)
EXTENDS CallPages, TLC

CONSTANTS a, b, c

\* With 8 bits: a and b have ids of their own; c has the id of b.
SameIds == [u \in Users |-> ((a :> <<5>>) @@ (b :> <<1, 40>>) @@ (c :> <<2, 9>>))[u]]
\* All different.
OwnIds == [u \in Users |-> ((a :> <<5>>) @@ (b :> <<1, 40>>) @@ (c :> <<2, 10>>))[u]]
\* c's id is negative.
BadId == [u \in Users |-> ((a :> <<5>>) @@ (b :> <<1, 40>>) @@ (c :> <<4, 10>>))[u]]

\* hashCode and encode compute what they are meant to, on names of up to three
\* characters and files of up to four bytes.
Names == UNION {[1..n -> {0, 1, 39, 97, 127, 255}] : n \in 0..3}
Files == UNION {[1..n -> {0, 1, 63, 64, 170, 255}] : n \in 0..4}
ASSUME HashIsPolynomial == \A str \in Names : IsHashOf(HashCode(str), str)
ASSUME EncodeIsBase64 == \A input \in Files : IsBase64Of(Encode(input), input)
=============================================================================
