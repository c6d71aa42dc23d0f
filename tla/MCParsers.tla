------------------------------ MODULE MCParsers ------------------------------
(***************************************************************************)
(* Replies, authData and keys at the boundaries of the parsers.            *)
(***************************************************************************)
EXTENDS Parsers, SequencesExt

E(k, type) == [key |-> k, type |-> type]

\* Every field that some parser needs or may have, with a good value, and an
\* entry nobody asks for.
AllFields == {E(1, "desc"), E(2, "bytes"), E(3, "bytes"), E(4, "desc"), E(5, "u32"), E(0, "text")}

\* The same keys with the values other parsers want, or none does.
OtherValues == {E(1, "text"), E(1, "cose"), E(2, "map"), E(3, "u8"), E(4, "bytes"), E(5, "big")}

\* Up to three entries with repeated keys, and whole replies in any order.
MCMaps ==
  UNION {[1..n -> AllFields \cup OtherValues] : n \in 0..3}
    \cup SetToSeqs(AllFields)
    \cup SetToSeqs({E(1, "text"), E(2, "bytes"), E(3, "map"), E(4, "bytes"), E(0, "map")})

MCStatuses == 0..255

\* Lengths next to 37, 55 and the ends of ids of 0, 1 and 65535 bytes.
MCBlobs ==
  [len : {0, 32, 33, 36, 37, 38, 39, 54} \cup (55..62) \cup (65589..65595),
   flags : SUBSET {"AT", "ED"}, idLen : {0, 1, 65535}, key : {0, 1, 3}, ext : {0, 1, 2}]

\* Whole keys of the three kinds, each with one field missing or another.
Whole ==
  {[kty |-> {2}, alg |-> {-7}, crv |-> {1}, x |-> {32}, y |-> {32}],
   [kty |-> {1}, alg |-> {-8}, crv |-> {6}, x |-> {32}, y |-> {}],
   [kty |-> {2}, alg |-> {-25}, crv |-> {1}, x |-> {32}, y |-> {32}]}

MCKeys ==
  UNION {{k} \cup {[k EXCEPT !.kty = v] : v \in {{}, {1}, {2}}}
             \cup {[k EXCEPT !.crv = v] : v \in {{}, {1}, {6}}}
             \cup {[k EXCEPT !.alg = v] : v \in {{}, {-7}, {-8}, {-37}}}
             \cup {[k EXCEPT !.x = v] : v \in {{}, {31}, {33}}}
             \cup {[k EXCEPT !.y = v] : v \in {{}, {31}, {33}}} : k \in Whole}

MCLengths == {0, 8, 16, 32, 48, 64, 80}
=============================================================================
