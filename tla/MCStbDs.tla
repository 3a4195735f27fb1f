------------------------------ MODULE MCStbDs ------------------------------
(***************************************************************************)
(* StbDs for TLC, with the small buckets of STBDS_INTERNAL_SMALL_BUCKET,   *)
(* so that few keys make a table grow.  One key comes with two values.     *)
(* The hash functions: one makes all keys meet; in the other a hash that   *)
(* is kept for empty slots meets a key that has the hash it becomes, and   *)
(* three keys meet in a table of one bucket, two of them in one of two.    *)
(***************************************************************************)
EXTENDS StbDs

CONSTANTS a, b, c, d, e

MCSsid == {a, b, c, d, e}

MCPoints ==
  [ssid : MCSsid, SNR : {1}, channel : {1}]
    \cup {[ssid |-> a, SNR |-> 2, channel |-> 1]}

MCHashes(ha, hb, hc, hd, he) ==
  [s \in MCSsid |-> CASE s = a -> ha [] s = b -> hb [] s = c -> hc
                      [] s = d -> hd [] OTHER -> he]

MCHashFunctions ==
  {MCHashes(7, 7, 7, 7, 7), MCHashes(0, 2, 3, 7, 11)}

=============================================================================
