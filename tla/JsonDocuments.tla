---------------------------- MODULE JsonDocuments ----------------------------
(***************************************************************************)
(* The files the server is made for, and what they say, independently of   *)
(* how the code reads them.                                                *)
(*                                                                         *)
(* A document is a sequence of access point objects, each a sequence of    *)
(* attributes; it is written as a sequence of lexemes, blanks left out.    *)
(* The value of an attribute is a name (a JSON string that does not begin  *)
(* with a digit) or a number; that of a key the code does not know may     *)
(* also be an object.                                                      *)
(***************************************************************************)
EXTENDS AccessPointsData, Integers, SequencesExt

CONSTANTS
  Cut,     \* from the names in files to the names a char[SSID_MAX_LEN] holds
  Width,   \* the number of bits of an unsigned int
  LONG_MAX \* the largest long; the smallest is LONG_MIN

NoName == ""

ASSUME CutAssumption ==
  /\ Cut \in [DOMAIN Cut -> Ssid]
  /\ {NoName, "access_points"} \subseteq DOMAIN Cut /\ NoName \in Ssid
  /\ Cut[NoName] = NoName
\* That a power of two is a natural is known to TLC, but not to the provers.
ASSUME WidthAssumption ==
  Width \in Nat /\ 2^Width \in Nat \ {0} /\ Unsigned = 0 .. 2^Width - 1
\* A long has more bits than an unsigned int.
ASSUME LongAssumption ==
  LONG_MAX \in Nat /\ (LONG_MAX + 1) % 2^Width = 0

LONG_MIN == -LONG_MAX - 1

KnownKeys == {"ssid", "snr", "channel"}

(***************************************************************************)
(* A value of the kind: a record, for names and numbers do not mix.        *)
(***************************************************************************)
Name(n) == [kind |-> "name", name |-> n]
Number(n) == [kind |-> "number", number |-> n]
Object(attributes) == [kind |-> "object", attributes |-> attributes]

Attribute(key, value) == [key |-> key, value |-> value]

OnlyKnown(doc) ==
  \A k \in DOMAIN doc : \A a \in DOMAIN doc[k] : doc[k][a].key \in KnownKeys

(***************************************************************************)
(* The documents, and those in which the keys the code knows have values   *)
(* of their type; an SSID that is a number is left out inside objects too, *)
(* where the code can come upon it.                                        *)
(***************************************************************************)
Names == [kind : {"name"}, name : DOMAIN Cut]
Numbers == [kind : {"number"}, number : Int]
PlainAttributes == [key : DOMAIN Cut, value : Names \cup Numbers]
Objects == [kind : {"object"}, attributes : Seq(PlainAttributes)]
Attributes == [key : DOMAIN Cut, value : Names \cup Numbers \cup Objects]
Documents == Seq(Seq(Attributes))

SsidIsName(a) == a.key = "ssid" => a.value.kind = "name"

WellTyped(doc) ==
  \A k \in DOMAIN doc : \A a \in DOMAIN doc[k] :
    LET attribute == doc[k][a]
        value     == attribute.value
    IN  /\ SsidIsName(attribute)
        /\ attribute.key \in {"snr", "channel"} => value.kind = "number"
        /\ value.kind = "object" =>
             \A i \in DOMAIN value.attributes : SsidIsName(value.attributes[i])

(***************************************************************************)
(* Lexemes: the marks { } [ ] : and , by name, and strings and primitives, *)
(* which carry their text as a value.                                      *)
(***************************************************************************)
Mark(m) == [lex |-> m]
Str(text) == [lex |-> "str", value |-> Name(text)]
Prim(n) == [lex |-> "prim", value |-> Number(n)]

Separated(parts) ==
  FlattenSeq([k \in DOMAIN parts |->
                IF k = 1 THEN parts[k] ELSE <<Mark("comma")>> \o parts[k]])

PlainAttribute(a) ==
  <<Str(a.key), Mark("colon"),
    IF a.value.kind = "number" THEN Prim(a.value.number) ELSE Str(a.value.name)>>

Braced(parts) == <<Mark("lbrace")>> \o Separated(parts) \o <<Mark("rbrace")>>

AttributeText(a) ==
  IF a.value.kind = "object"
    THEN LET inner == a.value.attributes
         IN  <<Str(a.key), Mark("colon")>>
             \o Braced([k \in DOMAIN inner |-> PlainAttribute(inner[k])])
    ELSE PlainAttribute(a)

AccessPointText(ap) == Braced([a \in DOMAIN ap |-> AttributeText(ap[a])])

TextOf(doc) ==
  <<Mark("lbrace"), Str("access_points"), Mark("colon"), Mark("lbracket")>>
  \o Separated([k \in DOMAIN doc |-> AccessPointText(doc[k])])
  \o <<Mark("rbracket"), Mark("rbrace")>>

(***************************************************************************)
(* What a document says.  Of an attribute given twice the last one counts, *)
(* as of an SSID given twice; an attribute left out is zero or empty.  A   *)
(* number that an unsigned int holds is what it says; another one that a   *)
(* long holds is off by a multiple of what an unsigned int counts to; one  *)
(* beyond any long is the largest or the smallest value.                   *)
(***************************************************************************)
LastOf(ap, key, default) ==
  LET with == {a \in DOMAIN ap : ap[a].key = key}
  IN  IF with = {} THEN default
      ELSE ap[CHOOSE a \in with : \A b \in with : b <= a].value

SsidSaid(ap) == Cut[LastOf(ap, "ssid", Name(NoName)).name]

UnsignedSaid(n) ==
  IF n > LONG_MAX THEN 2^Width - 1
  ELSE IF n < LONG_MIN THEN 0
  ELSE CHOOSE u \in Unsigned : (u - n) % 2^Width = 0

NumberSaid(ap, key) == UnsignedSaid(LastOf(ap, key, Number(0)).number)

ListSaid(doc) ==
  [s \in Ssid |->
     LET with == {k \in DOMAIN doc : SsidSaid(doc[k]) = s}
         last == CHOOSE k \in with : \A j \in with : j <= k
     IN  IF with = {} THEN Absent
         ELSE [SNR     |-> NumberSaid(doc[last], "snr"),
               channel |-> NumberSaid(doc[last], "channel")]]

=============================================================================
