----------------------------- MODULE MCJsonParser -----------------------------
(***************************************************************************)
(* JsonParser for TLC.  Long and LongToo stand for two names of more than  *)
(* 31 characters that have their first 31 in common.  A key taken for a    *)
(* value is a name too.  An unsigned int has 2 bits here and a long 4, from*)
(* -8 to 7: Extremes are the numbers next to its ends.                     *)
(***************************************************************************)
EXTENDS JsonParser

MCSsid == {"", "A", "Long", "ssid", "snr", "channel", "x", "access_points"}
MCCut == [n \in MCSsid \cup {"LongToo"} |-> IF n = "LongToo" THEN "Long" ELSE n]
MCUnsigned == 0..3

Ssids == {Attribute("ssid", Name(n)) : n \in {"A", "Long", "LongToo"}}
Parameters == {Attribute("snr", Number(-1)), Attribute("snr", Number(2)),
               Attribute("channel", Number(5))}
Extremes == {Attribute(key, Number(n)) :
               key \in {"snr", "channel"}, n \in {-10, -9, -8, 7, 8, 9}}
Others == {Attribute("x", Number(1)), Attribute("x", Name("ssid")),
           Attribute("x", Object(<<Attribute("ssid", Name("A"))>>))}

(***************************************************************************)
(* Up to three access points and three attributes, not all at once; and,   *)
(* as what was in the file before, two access points.                      *)
(***************************************************************************)
MCOverwritten ==
  {<< <<Attribute("ssid", Name("A")), Attribute("snr", Number(2))>>, one >> :
      one \in TupleOf(Others, 1)}

MCDocs ==
  {<< >>}
  \cup {<<one>> : one \in SeqOf(Ssids \cup Parameters \cup Others, 2)}
  \cup {<<one>> : one \in TupleOf(Parameters \cup {Attribute("ssid", Name("A"))}, 3)}
  \cup {<<one, two>> : one \in TupleOf(Ssids \cup Others, 1),
                       two \in TupleOf(Ssids, 1) \cup TupleOf(Ssids \cup Parameters, 2)}
  \cup {<<one, two, three>> : one, two, three \in TupleOf(Ssids, 1)}
  \cup {<<Append(one, Attribute("snr", Number(2)))>> : one \in TupleOf(Others, 2)}
  \cup {<<one>> : one \in TupleOf(Extremes, 1)}
  \cup {<<<<high, low>>>> : high, low \in
          {Attribute("snr", Number(9)), Attribute("channel", Number(-10))}}
  \cup MCOverwritten

=============================================================================
