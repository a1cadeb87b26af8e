------------------------------ MODULE MCStreams ------------------------------
(* Instances of Streams for TLC: identifiers at the ends of u32 and of its *)
(* lower half and around a carry into the upper 16 bits; lengths at each   *)
(* octet's limit.                                                          *)
EXTENDS Streams

EdgeIds ==
  { Zero, <<0, 1>>, <<0, 65534>>, <<0, 65535>>, <<32767, 65532>>, <<32767, 65533>>,
    <<32767, 65534>>, <<32767, 65535>>, <<32768, 0>>, <<32768, 1>>,
    <<65535, 65534>>, <<65535, 65535>> }
EdgeLengths == {0, 65536, TwoTo24 - 1, TwoTo24, TwoTo24 + 256}
=============================================================================
