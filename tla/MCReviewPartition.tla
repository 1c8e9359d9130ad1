------------------------- MODULE MCReviewPartition -------------------------
(* Every diff of at most MaxSize bytes that is valid UTF-8 (with one- and   *)
(* two-byte characters) and ends with a line feed.                          *)
EXTENDS ReviewPartition

CONSTANT MaxSize

WellFormed(bytes) ==
  /\ Last(bytes) = LF
  /\ \A i \in DOMAIN bytes :
       (bytes[i] = Cont) <=> (i > 1 /\ bytes[i - 1] = Lead)

MCPayloads == {bytes \in UNION {[1..n -> Byte] : n \in 1..MaxSize} : WellFormed(bytes)}
=============================================================================
