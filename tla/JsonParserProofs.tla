-------------------------- MODULE JsonParserProofs --------------------------
(***************************************************************************)
(* Theorems about JsonParser, for every document and every size of the     *)
(* token array: a text that is not whole makes no map, the walk over the   *)
(* tokens stays within those that jsmn has filled, what it takes from them *)
(* has the type of the place it is stored in, and the map of a document of *)
(* known attributes is the list that the document says.                    *)
(*                                                                         *)
(* A document is read along places: what has been written of it so far,    *)
(* and what may follow.  The parser's state at a place is then known from  *)
(* the place alone.                                                        *)
(***************************************************************************)
EXTENDS JsonParser, AccessPointsDataProofs, FiniteSetTheorems
-----------------------------------------------------------------------------
(* FlattenSeq, which is a recursive function.                              *)

IsFlattening(f, seqs, n) ==
  f = [i \in 1..n |-> IF i = 1 THEN seqs[i] ELSE f[i - 1] \o seqs[i]]

LEMMA FlatteningExists ==
  ASSUME NEW seqs
  PROVE  \A n \in Nat : \E f : IsFlattening(f, seqs, n)
<1> DEFINE S == {n \in Nat : \E f : IsFlattening(f, seqs, n)}
<1>1. 0 \in S
  <2>1. IsFlattening([i \in 1..0 |-> i], seqs, 0)
    BY DEF IsFlattening
  <2>2. QED
    BY <2>1
<1>2. ASSUME NEW n \in Nat, n \in S
      PROVE  n + 1 \in S
  <2>1. PICK f : IsFlattening(f, seqs, n)
    BY <1>2
  <2> DEFINE g == [i \in 1..(n + 1) |->
                     IF i = n + 1
                       THEN IF i = 1 THEN seqs[i] ELSE f[i - 1] \o seqs[i]
                       ELSE f[i]]
             Right(i) == g[i] = IF i = 1 THEN seqs[i] ELSE g[i - 1] \o seqs[i]
  <2>2. ASSUME NEW i \in 1..(n + 1)
        PROVE  Right(i)
    <3>1. i # 1 => /\ i - 1 \in 1..(n + 1) /\ i - 1 # n + 1
                   /\ g[i - 1] = f[i - 1]
      OBVIOUS
    <3>2. CASE i = n + 1
      BY <3>1, <3>2
    <3>3. CASE i # n + 1
      <4>1. i \in 1..n /\ g[i] = f[i]
        BY <3>3
      <4>2. f[i] = IF i = 1 THEN seqs[i] ELSE f[i - 1] \o seqs[i]
        BY <2>1, <4>1 DEF IsFlattening
      <4>3. QED
        BY <3>1, <4>1, <4>2
    <3>4. QED
      BY <3>2, <3>3
  <2>3. IsFlattening(g, seqs, n + 1)
    BY <2>2 DEF IsFlattening
  <2> HIDE DEF g
  <2>4. QED
    BY <2>3
<1> HIDE DEF S
<1>3. \A n \in Nat : n \in S
  BY <1>1, <1>2, NatSetInduction
<1>4. QED
  BY <1>3 DEF S

LEMMA FlatteningOf ==
  ASSUME NEW seqs, NEW n \in Nat \ {0}, Len(seqs) = n
  PROVE  \E f : IsFlattening(f, seqs, n) /\ FlattenSeq(seqs) = f[n]
<1> DEFINE g == CHOOSE f : IsFlattening(f, seqs, n)
<1>1. IsFlattening(g, seqs, n)
  BY FlatteningExists
<1>2. FlattenSeq(seqs) = g[n]
  BY DEF FlattenSeq, IsFlattening
<1>3. QED
  BY <1>1, <1>2

-----------------------------------------------------------------------------
(***************************************************************************)
(* The places of a document: before the access point k + 1, before the     *)
(* attribute a + 1 of access point k, and so on; a lexeme leads from one   *)
(* to the next.                                                            *)
(***************************************************************************)
Marks == [lex : {"lbrace", "rbrace", "lbracket", "rbracket", "colon", "comma"}]
Strings == [lex : {"str"}, value : Names]
Primitives == [lex : {"prim"}, value : Numbers]
Lexemes == Marks \cup Strings \cup Primitives

InInner == {"inner", "inner_more", "inner_key", "inner_value"}
InAp == {"ap", "ap_more", "key", "value"} \cup InInner
InList == {"list", "list_more", "close", "end"} \cup InAp
Ats == {"open", "name", "named", "array"} \cup InList

Place(at, k, a, i) == [at |-> at, k |-> k, a |-> a, i |-> i]

Places == [at : Ats, k : Nat, a : Nat, i : Nat]

Start == Place("open", 0, 0, 0)
End(d) == Place("end", Len(d), 0, 0)

Plain(v) == IF v.kind = "number" THEN Prim(v.number) ELSE Str(v.name)

InTop(d, p, l, q) ==
  \/ p = Start /\ l = Mark("lbrace") /\ q = Place("name", 0, 0, 0)
  \/ p.at = "name" /\ l = Str("access_points") /\ q = Place("named", 0, 0, 0)
  \/ p.at = "named" /\ l = Mark("colon") /\ q = Place("array", 0, 0, 0)
  \/ p.at = "array" /\ l = Mark("lbracket") /\ q = Place("list", 0, 0, 0)
  \/ /\ p.at = "list" /\ p.k > 0 /\ p.k < Len(d)
     /\ l = Mark("comma") /\ q = Place("list_more", p.k, 0, 0)
  \/ /\ p.at = "list_more" \/ (p.at = "list" /\ p.k = 0)
     /\ p.k < Len(d)
     /\ l = Mark("lbrace") /\ q = Place("ap", p.k + 1, 0, 0)
  \/ /\ p.at = "list" /\ p.k = Len(d)
     /\ l = Mark("rbracket") /\ q = Place("close", p.k, 0, 0)
  \/ p.at = "close" /\ l = Mark("rbrace") /\ q = Place("end", p.k, 0, 0)

InAccessPoint(d, p, l, q) ==
  \/ /\ p.at = "ap" /\ p.a > 0 /\ p.a < Len(d[p.k])
     /\ l = Mark("comma") /\ q = Place("ap_more", p.k, p.a, 0)
  \/ /\ p.at = "ap_more" \/ (p.at = "ap" /\ p.a = 0)
     /\ p.a < Len(d[p.k])
     /\ l = Str(d[p.k][p.a + 1].key) /\ q = Place("key", p.k, p.a + 1, 0)
  \/ /\ p.at = "ap" /\ p.a = Len(d[p.k])
     /\ l = Mark("rbrace") /\ q = Place("list", p.k, 0, 0)
  \/ p.at = "key" /\ l = Mark("colon") /\ q = Place("value", p.k, p.a, 0)
  \/ /\ p.at = "value" /\ d[p.k][p.a].value.kind # "object"
     /\ l = Plain(d[p.k][p.a].value) /\ q = Place("ap", p.k, p.a, 0)

InObject(d, p, l, q) ==
  LET inner == d[p.k][p.a].value.attributes
  IN  \/ /\ p.at = "value" /\ d[p.k][p.a].value.kind = "object"
         /\ l = Mark("lbrace") /\ q = Place("inner", p.k, p.a, 0)
      \/ /\ p.at = "inner" /\ p.i > 0 /\ p.i < Len(inner)
         /\ l = Mark("comma") /\ q = Place("inner_more", p.k, p.a, p.i)
      \/ /\ p.at = "inner_more" \/ (p.at = "inner" /\ p.i = 0)
         /\ p.i < Len(inner)
         /\ l = Str(inner[p.i + 1].key)
         /\ q = Place("inner_key", p.k, p.a, p.i + 1)
      \/ /\ p.at = "inner" /\ p.i = Len(inner)
         /\ l = Mark("rbrace") /\ q = Place("ap", p.k, p.a, 0)
      \/ /\ p.at = "inner_key" /\ l = Mark("colon")
         /\ q = Place("inner_value", p.k, p.a, p.i)
      \/ /\ p.at = "inner_value" /\ l = Plain(inner[p.i].value)
         /\ q = Place("inner", p.k, p.a, p.i)

(***************************************************************************)
(* The places that exist, so that the document says something about them.  *)
(***************************************************************************)
Exists(d, p) ==
  /\ p \in Places /\ p.k <= Len(d)
  /\ p.at \in InAp => p.k > 0 /\ p.a <= Len(d[p.k])
  /\ p.at \in {"key", "value"} \cup InInner => p.a > 0
  /\ p.at \in InInner => /\ d[p.k][p.a].value.kind = "object"
                         /\ p.i <= Len(d[p.k][p.a].value.attributes)
  /\ p.at \in {"inner_key", "inner_value"} => p.i > 0
  /\ p.at \in {"close", "end"} => p.k = Len(d)
  /\ p.at \in {"open", "name", "named", "array"} => p.k = 0

Reads(d, p, l, q) ==
  /\ l \in Lexemes /\ Exists(d, p) /\ Exists(d, q)
  /\ InTop(d, p, l, q) \/ InAccessPoint(d, p, l, q) \/ InObject(d, p, l, q)

(***************************************************************************)
(* A text that leads from a place to another.                              *)
(***************************************************************************)
IsRun(f, d, t, p, q) ==
  /\ f \in [1..(Len(t) + 1) -> Places]
  /\ f[1] = p /\ f[Len(t) + 1] = q
  /\ \A i \in 1..Len(t) : Reads(d, f[i], t[i], f[i + 1])

Leads(d, t, p, q) == t \in Seq(Lexemes) /\ \E f : IsRun(f, d, t, p, q)

LEMMA NothingLeads ==
  ASSUME NEW d, NEW p \in Places
  PROVE  Leads(d, << >>, p, p)
<1> DEFINE f == [i \in 1..1 |-> p]
<1>1. Len(<< >>) = 0 /\ << >> \in Seq(Lexemes)
  OBVIOUS
<1>2. IsRun(f, d, << >>, p, p)
  BY <1>1 DEF IsRun
<1>3. QED
  BY <1>1, <1>2 DEF Leads

LEMMA OneLeads ==
  ASSUME NEW d, NEW p, NEW l, NEW q, Reads(d, p, l, q)
  PROVE  Leads(d, <<l>>, p, q)
<1> DEFINE f == [i \in 1..2 |-> IF i = 1 THEN p ELSE q]
<1>0. p \in Places /\ q \in Places /\ l \in Lexemes
  BY DEF Reads, Exists
<1>1. /\ p \in Places /\ q \in Places /\ l \in Lexemes
      /\ <<l>> \in Seq(Lexemes) /\ Len(<<l>>) = 1 /\ <<l>>[1] = l
  BY <1>0
<1>2. f \in [1..(1 + 1) -> Places] /\ f[1] = p /\ f[1 + 1] = q
  BY <1>1
<1> HIDE DEF f
<1>3. IsRun(f, d, <<l>>, p, q)
  <2>1. \A i \in 1..1 : i = 1
    OBVIOUS
  <2>2. QED
    BY <1>1, <1>2, <2>1 DEF IsRun
<1>4. QED
  BY <1>1, <1>3 DEF Leads

LEMMA LeadsOn ==
  ASSUME NEW d, NEW s, NEW t, NEW p, NEW q, NEW r,
         Leads(d, s, p, q), Leads(d, t, q, r)
  PROVE  Leads(d, s \o t, p, r)
<1>1. PICK f : IsRun(f, d, s, p, q)
  BY DEF Leads
<1>2. PICK g : IsRun(g, d, t, q, r)
  BY DEF Leads
<1> DEFINE m == Len(s)
           n == Len(t)
           h == [i \in 1..(m + n + 1) |-> IF i <= m THEN f[i] ELSE g[i - m]]
<1>3. /\ s \in Seq(Lexemes) /\ t \in Seq(Lexemes) /\ m \in Nat /\ n \in Nat
      /\ s \o t \in Seq(Lexemes) /\ Len(s \o t) = m + n
      /\ \A i \in 1..(m + n) :
           (s \o t)[i] = IF i <= m THEN s[i] ELSE t[i - m]
  BY DEF Leads
<1>4. /\ f \in [1..(m + 1) -> Places] /\ f[1] = p /\ f[m + 1] = q
      /\ g \in [1..(n + 1) -> Places] /\ g[1] = q /\ g[n + 1] = r
      /\ \A i \in 1..m : Reads(d, f[i], s[i], f[i + 1])
      /\ \A i \in 1..n : Reads(d, g[i], t[i], g[i + 1])
  BY <1>1, <1>2 DEF IsRun
<1> HIDE DEF m, n
<1>5. h \in [1..(m + n + 1) -> Places]
  <2>1. ASSUME NEW i \in 1..(m + n + 1)
        PROVE  (IF i <= m THEN f[i] ELSE g[i - m]) \in Places
    <3>1. i <= m => i \in 1..(m + 1)
      BY <1>3
    <3>2. ~(i <= m) => i - m \in 1..(n + 1)
      BY <1>3
    <3>3. QED
      BY <1>4, <3>1, <3>2
  <2>2. QED
    BY <2>1
<1>6. \A i \in 1..(m + n + 1) : h[i] = IF i <= m THEN f[i] ELSE g[i - m]
  OBVIOUS
<1> HIDE DEF h
<1>7. h[1] = p
  <2>1. CASE m = 0
    <3>1. 1 - m = 1 /\ f[1] = f[m + 1] /\ 1 \in 1..(m + n + 1)
      BY <1>3, <2>1
    <3>2. QED
      BY <1>3, <1>4, <1>6, <2>1, <3>1
  <2>2. CASE m # 0
    BY <1>3, <1>4, <1>6, <2>2
  <2>3. QED
    BY <2>1, <2>2
<1>8. h[m + n + 1] = r
  <2>1. (m + n + 1) - m = n + 1 /\ m + n + 1 \in 1..(m + n + 1)
        /\ ~(m + n + 1 <= m)
    BY <1>3
  <2>2. QED
    BY <1>4, <1>6, <2>1
<1>9. ASSUME NEW i \in 1..(m + n)
      PROVE  Reads(d, h[i], (s \o t)[i], h[i + 1])
  <2>0. i \in 1..(m + n + 1) /\ i + 1 \in 1..(m + n + 1)
    BY <1>3
  <2>1. CASE i < m
    <3>1. i \in 1..m /\ i <= m /\ i + 1 <= m
      BY <1>3, <2>1
    <3>2. h[i] = f[i] /\ h[i + 1] = f[i + 1] /\ (s \o t)[i] = s[i]
      BY <1>3, <1>6, <2>0, <3>1
    <3>3. QED
      BY <1>4, <3>1, <3>2
  <2>2. CASE i = m
    <3>1. i \in 1..m /\ i <= m /\ ~(i + 1 <= m) /\ (i + 1) - m = 1
      BY <1>3, <2>2
    <3>2. h[i] = f[i] /\ h[i + 1] = g[1] /\ (s \o t)[i] = s[i]
      BY <1>3, <1>6, <2>0, <3>1
    <3>3. QED
      BY <1>4, <2>2, <3>1, <3>2
  <2>3. CASE i > m
    <3>1. /\ i - m \in 1..n /\ ~(i <= m) /\ ~(i + 1 <= m)
          /\ (i + 1) - m = (i - m) + 1
      BY <1>3, <2>3
    <3>2. h[i] = g[i - m] /\ h[i + 1] = g[(i + 1) - m]
      BY <1>6, <2>0, <3>1
    <3>3. (s \o t)[i] = t[i - m]
      BY <1>3, <3>1
    <3>4. Reads(d, g[i - m], t[i - m], g[(i - m) + 1])
      BY <1>4, <3>1
    <3>5. QED
      BY <3>1, <3>2, <3>3, <3>4
  <2>4. QED
    BY <1>3, <2>1, <2>2, <2>3
<1>10. IsRun(h, d, s \o t, p, r)
  BY <1>3, <1>5, <1>7, <1>8, <1>9 DEF IsRun
<1>11. QED
  BY <1>3, <1>10 DEF Leads

(***************************************************************************)
(* Texts one after the other, with a comma before all but the first.       *)
(***************************************************************************)
PartsLead(d, parts, n, P) ==
  /\ parts \in Seq(Seq(Lexemes)) /\ Len(parts) = n
  /\ P \in [0..n -> Places]
  /\ \A k \in 1..n :
       Leads(d, IF k = 1 THEN parts[k] ELSE <<Mark("comma")>> \o parts[k],
             P[k - 1], P[k])

LEMMA SeparatedLead ==
  ASSUME NEW d, NEW parts, NEW n \in Nat, NEW P, PartsLead(d, parts, n, P)
  PROVE  Leads(d, Separated(parts), P[0], P[n])
<1> DEFINE seqs == [k \in DOMAIN parts |->
                      IF k = 1 THEN parts[k] ELSE <<Mark("comma")>> \o parts[k]]
<1>1. /\ DOMAIN parts = 1..n /\ P \in [0..n -> Places]
      /\ Separated(parts) = FlattenSeq(seqs)
      /\ \A k \in 1..n : seqs[k] = IF k = 1 THEN parts[k]
                                   ELSE <<Mark("comma")>> \o parts[k]
      /\ \A k \in 1..n : Leads(d, seqs[k], P[k - 1], P[k])
  <2>1. DOMAIN parts = 1..n /\ P \in [0..n -> Places]
    <3>1. parts \in Seq(Seq(Lexemes)) /\ Len(parts) = n /\ P \in [0..n -> Places]
      BY Zenon DEF PartsLead
    <3>2. DOMAIN parts = 1..n
      BY <3>1
    <3>3. QED
      BY <3>1, <3>2, Zenon
  <2>2. Separated(parts) = FlattenSeq(seqs)
    BY Zenon DEF Separated
  <2>3. \A k \in 1..n : seqs[k] = IF k = 1 THEN parts[k]
                                 ELSE <<Mark("comma")>> \o parts[k]
    BY <2>1
  <2>4. \A k \in 1..n : Leads(d, seqs[k], P[k - 1], P[k])
    <3>1. \A k \in 1..n :
            Leads(d, IF k = 1 THEN parts[k] ELSE <<Mark("comma")>> \o parts[k],
                  P[k - 1], P[k])
      BY DEF PartsLead
    <3> HIDE DEF seqs
    <3>2. QED
      BY <2>3, <3>1, Zenon
  <2> HIDE DEF seqs
  <2>5. QED
    BY <2>1, <2>2, <2>3, <2>4
<1>2. seqs \in Seq(Seq(Lexemes)) /\ Len(seqs) = n
  <2>1. \A k \in 1..n : seqs[k] \in Seq(Lexemes)
    BY <1>1 DEF Leads
  <2>2. seqs = [k \in 1..n |-> seqs[k]]
    BY <1>1
  <2> HIDE DEF seqs
  <2>3. QED
    BY <2>1, <2>2
<1> HIDE DEF seqs
<1>3. CASE n = 0
  <2>1. FlattenSeq(seqs) = << >>
    BY <1>2, <1>3 DEF FlattenSeq
  <2>2. P[0] \in Places
    <3>1. 0 \in 0..n
      OBVIOUS
    <3>2. QED
      BY <1>1, <3>1, Zenon
  <2>3. QED
    BY <1>1, <1>3, <2>1, <2>2, NothingLeads
<1>4. CASE n # 0
  <2>1. PICK f : IsFlattening(f, seqs, n) /\ FlattenSeq(seqs) = f[n]
    BY <1>2, <1>4, FlatteningOf
  <2>2. \A k \in 1..n : f[k] = IF k = 1 THEN seqs[k] ELSE f[k - 1] \o seqs[k]
    BY <2>1 DEF IsFlattening
  <2> DEFINE S == {k \in Nat : k \in 1..n => Leads(d, f[k], P[0], P[k])}
  <2>3. 0 \in S
    OBVIOUS
  <2>4. ASSUME NEW k \in Nat, k \in S
        PROVE  k + 1 \in S
    <3>1. SUFFICES ASSUME k + 1 \in 1..n
                   PROVE  Leads(d, f[k + 1], P[0], P[k + 1])
      OBVIOUS
    <3>0. (k + 1) - 1 = k
      OBVIOUS
    <3>2. Leads(d, seqs[k + 1], P[k], P[k + 1]) /\ (k + 1) - 1 = k
      <4>1. Leads(d, seqs[k + 1], P[(k + 1) - 1], P[k + 1])
        BY <1>1, <3>1, Zenon
      <4>2. QED
        BY <3>0, <4>1
    <3>3. CASE k = 0
      BY <2>2, <3>1, <3>2, <3>3
    <3>4. CASE k # 0
      <4>1. k \in 1..n /\ k + 1 # 1
        BY <3>1, <3>4
      <4>2. Leads(d, f[k], P[0], P[k])
        BY <2>4, <4>1
      <4>3. f[k + 1] = f[k] \o seqs[k + 1]
        BY <2>2, <3>1, <3>2, <4>1
      <4>4. QED
        BY <3>2, <4>2, <4>3, LeadsOn
    <3>5. QED
      BY <3>3, <3>4
  <2> HIDE DEF S
  <2>5. \A k \in Nat : k \in S
    BY <2>3, <2>4, NatSetInduction
  <2>6. Leads(d, f[n], P[0], P[n])
    BY <1>4, <2>5 DEF S
  <2>7. QED
    BY <1>1, <2>1, <2>6
<1>5. QED
  BY <1>3, <1>4

(***************************************************************************)
(* A text in braces.                                                       *)
(***************************************************************************)
LEMMA BracedLead ==
  ASSUME NEW d, NEW parts, NEW n \in Nat, NEW P, PartsLead(d, parts, n, P),
         NEW p, NEW q,
         Reads(d, p, Mark("lbrace"), P[0]), Reads(d, P[n], Mark("rbrace"), q)
  PROVE  Leads(d, Braced(parts), p, q)
<1>1. Leads(d, <<Mark("lbrace")>>, p, P[0]) /\ Leads(d, <<Mark("rbrace")>>, P[n], q)
  BY OneLeads
<1>2. Leads(d, Separated(parts), P[0], P[n])
  BY SeparatedLead
<1>3. Leads(d, <<Mark("lbrace")>> \o Separated(parts), p, P[n])
  BY <1>1, <1>2, LeadsOn
<1>4. Leads(d, (<<Mark("lbrace")>> \o Separated(parts)) \o <<Mark("rbrace")>>, p, q)
  BY <1>1, <1>3, LeadsOn
<1>5. QED
  BY <1>4 DEF Braced

-----------------------------------------------------------------------------
(* The text of a document leads from its start to its end.                 *)

LEMMA LexemesAre ==
  /\ \A m \in {"lbrace", "rbrace", "lbracket", "rbracket", "colon", "comma"} : Mark(m) \in Lexemes
  /\ \A n \in DOMAIN Cut : Str(n) \in Lexemes
  /\ \A v \in Names \cup Numbers : Plain(v) \in Lexemes
<1>1. \A m \in {"lbrace", "rbrace", "lbracket", "rbracket", "colon", "comma"} : Mark(m) \in Marks
  BY DEF Mark, Marks
<1>2. \A n \in DOMAIN Cut : Str(n) \in Strings
  BY DEF Str, Name, Names, Strings
<1>3. ASSUME NEW v \in Names
      PROVE  Plain(v) \in Strings
  <2>1. v.kind = "name" /\ v.name \in DOMAIN Cut
    BY DEF Names
  <2>2. QED
    BY <1>2, <2>1 DEF Plain
<1>4. ASSUME NEW v \in Numbers
      PROVE  Plain(v) \in Primitives
  BY DEF Numbers, Plain, Prim, Number, Primitives
<1>5. QED
  BY <1>1, <1>2, <1>3, <1>4 DEF Lexemes

LEMMA PlaceIs ==
  ASSUME NEW at \in Ats, NEW k \in Nat, NEW a \in Nat, NEW i \in Nat
  PROVE  /\ Place(at, k, a, i) \in Places
         /\ Place(at, k, a, i).at = at /\ Place(at, k, a, i).k = k
         /\ Place(at, k, a, i).a = a /\ Place(at, k, a, i).i = i
BY DEF Place, Places

LEMMA ApPlaceIs ==
  ASSUME NEW at \in Ats, NEW k \in Nat, NEW a \in Nat
  PROVE  /\ Place(at, k, a, 0) \in Places
         /\ Place(at, k, a, 0).at = at /\ Place(at, k, a, 0).k = k
         /\ Place(at, k, a, 0).a = a
BY DEF Place, Places

LEMMA ListPlaceIs ==
  ASSUME NEW at \in Ats, NEW k \in Nat
  PROVE  /\ Place(at, k, 0, 0) \in Places
         /\ Place(at, k, 0, 0).at = at /\ Place(at, k, 0, 0).k = k
BY DEF Place, Places

LEMMA DocIs ==
  ASSUME NEW d \in Docs
  PROVE  /\ Len(d) \in Nat /\ DOMAIN d = 1..Len(d)
         /\ \A k \in 1..Len(d) :
              /\ d[k] \in Seq(Attributes) /\ Len(d[k]) \in Nat
              /\ DOMAIN d[k] = 1..Len(d[k])
              /\ \A a \in 1..Len(d[k]) : d[k][a] \in Attributes
<1>1. d \in Seq(Seq(Attributes))
  BY DocsAssumption DEF Documents
<1>2. \A k \in 1..Len(d) : d[k] \in Seq(Attributes)
  BY <1>1
<1>3. QED
  BY <1>1, <1>2

LEMMA AttributeIs ==
  ASSUME NEW att \in Attributes
  PROVE  /\ att.key \in DOMAIN Cut
         /\ att.value.kind # "object" => att.value \in Names \cup Numbers
         /\ att.value.kind = "object" =>
              /\ att.value.attributes \in Seq(PlainAttributes)
              /\ Len(att.value.attributes) \in Nat
              /\ DOMAIN att.value.attributes = 1..Len(att.value.attributes)
              /\ \A i \in 1..Len(att.value.attributes) :
                   /\ att.value.attributes[i].key \in DOMAIN Cut
                   /\ att.value.attributes[i].value \in Names \cup Numbers
<1>1. att.key \in DOMAIN Cut /\ att.value \in Names \cup Numbers \cup Objects
  BY DEF Attributes
<1>2. \A v \in Names \cup Numbers : v.kind # "object"
  BY DEF Names, Numbers
<1>3. \A v \in Objects : v.kind = "object" /\ v.attributes \in Seq(PlainAttributes)
  BY DEF Objects
<1>4. CASE att.value \in Objects
  <2> DEFINE inner == att.value.attributes
  <2>1. inner \in Seq(PlainAttributes)
    BY <1>3, <1>4
  <2> HIDE DEF inner
  <2>2. /\ Len(inner) \in Nat /\ DOMAIN inner = 1..Len(inner)
        /\ \A i \in 1..Len(inner) : inner[i] \in PlainAttributes
    BY <2>1
  <2>3. \A b \in PlainAttributes :
          b.key \in DOMAIN Cut /\ b.value \in Names \cup Numbers
    BY DEF PlainAttributes
  <2>4. QED
    BY <1>1, <1>3, <1>4, <2>1, <2>2, <2>3 DEF inner
<1>5. CASE att.value \in Names \cup Numbers
  BY <1>1, <1>2, <1>5
<1>6. QED
  BY <1>1, <1>4, <1>5

LEMMA Three ==
  ASSUME NEW x, NEW y, NEW z, NEW t, t = <<x, y, z>>
  PROVE  t = (<<x>> \o <<y>>) \o <<z>>
<1> DEFINE T == {x, y, z}
           s == (<<x>> \o <<y>>) \o <<z>>
<1>1. <<x>> \in Seq(T) /\ <<y>> \in Seq(T) /\ <<z>> \in Seq(T)
  OBVIOUS
<1>2. /\ t \in Seq(T) /\ Len(t) = 3
      /\ t[1] = x /\ t[2] = y /\ t[3] = z
  OBVIOUS
<1>3. s \in Seq(T) /\ Len(s) = 3 /\ s[1] = x /\ s[2] = y /\ s[3] = z
  BY <1>1
<1> HIDE DEF s
<1>4. \A i \in 1..3 : i = 1 \/ i = 2 \/ i = 3
  OBVIOUS
<1>5. \A i \in 1..3 : t[i] = s[i]
  BY <1>2, <1>3, <1>4
<1>6. t = s
  BY <1>2, <1>3, <1>5
<1>7. QED
  BY <1>6 DEF s

LEMMA FunctionIsSeq ==
  ASSUME NEW T, NEW n \in Nat, NEW s, s = [i \in 1..n |-> s[i]],
         \A i \in 1..n : s[i] \in T
  PROVE  s \in Seq(T) /\ Len(s) = n
OBVIOUS

LEMMA Two ==
  ASSUME NEW x, NEW y
  PROVE  <<x, y>> = <<x>> \o <<y>>
<1> DEFINE T == {x, y}
           s == <<x>> \o <<y>>
<1>1. <<x>> \in Seq(T) /\ <<y>> \in Seq(T)
  OBVIOUS
<1>2. <<x, y>> \in Seq(T) /\ Len(<<x, y>>) = 2
  OBVIOUS
<1>3. s \in Seq(T) /\ Len(s) = 2 /\ s[1] = x /\ s[2] = y
  BY <1>1
<1> HIDE DEF s
<1>4. \A i \in 1..2 : i = 1 \/ i = 2
  OBVIOUS
<1>5. <<x, y>> = s
  BY <1>2, <1>3, <1>4
<1>6. QED
  BY <1>5 DEF s

LEMMA Four ==
  ASSUME NEW w, NEW x, NEW y, NEW z
  PROVE  <<w, x, y, z>> = <<w, x, y>> \o <<z>>
<1> DEFINE T == {w, x, y, z}
           s == <<w, x, y>> \o <<z>>
<1>1. <<w, x, y>> \in Seq(T) /\ <<z>> \in Seq(T)
  OBVIOUS
<1>2. <<w, x, y, z>> \in Seq(T) /\ Len(<<w, x, y, z>>) = 4
  OBVIOUS
<1>3. s \in Seq(T) /\ Len(s) = 4 /\ s[1] = w /\ s[2] = x /\ s[3] = y /\ s[4] = z
  BY <1>1
<1> HIDE DEF s
<1>4. \A i \in 1..4 : i = 1 \/ i = 2 \/ i = 3 \/ i = 4
  OBVIOUS
<1>5. <<w, x, y, z>> = s
  BY <1>2, <1>3, <1>4
<1>6. QED
  BY <1>5 DEF s

LEMMA PlainText ==
  ASSUME NEW b
  PROVE  PlainAttribute(b)
           = (<<Str(b.key)>> \o <<Mark("colon")>>) \o <<Plain(b.value)>>
<1>1. PlainAttribute(b) = <<Str(b.key), Mark("colon"), Plain(b.value)>>
  BY DEF PlainAttribute, Plain
<1>2. QED
  BY <1>1, Three

(***************************************************************************)
(* An attribute inside an object.                                          *)
(***************************************************************************)
LEMMA InnerLeads ==
  ASSUME NEW d \in Docs, NEW k \in 1..Len(d), NEW a \in 1..Len(d[k]),
         d[k][a].value.kind = "object",
         NEW i \in 1..Len(d[k][a].value.attributes)
  PROVE  LET b    == d[k][a].value.attributes[i]
             comma == <<Mark("comma")>>
             part == PlainAttribute(b)
         IN  /\ part \in Seq(Lexemes)
             /\ Leads(d, IF i = 1 THEN part ELSE comma \o part,
                      Place("inner", k, a, i - 1), Place("inner", k, a, i))
<1> DEFINE inner == d[k][a].value.attributes
           b == inner[i]
           p == Place("inner", k, a, i - 1)
           p0 == Place("inner_more", k, a, i - 1)
           p1 == Place("inner_key", k, a, i)
           p2 == Place("inner_value", k, a, i)
           q == Place("inner", k, a, i)
<1>1. /\ k \in Nat /\ a \in Nat /\ i \in Nat /\ i - 1 \in Nat /\ i > 0 /\ k > 0
      /\ a > 0 /\ Len(d) \in Nat /\ Len(d[k]) \in Nat /\ k <= Len(d)
      /\ a <= Len(d[k]) /\ Len(inner) \in Nat /\ i <= Len(inner)
      /\ b.key \in DOMAIN Cut /\ b.value \in Names \cup Numbers
  <2>1. /\ Len(d) \in Nat /\ Len(d[k]) \in Nat /\ d[k][a] \in Attributes
        /\ k \in 1..Len(d) /\ a \in 1..Len(d[k])
    BY DocIs
  <2>2. /\ Len(inner) \in Nat
        /\ b.key \in DOMAIN Cut /\ b.value \in Names \cup Numbers
    BY <2>1, AttributeIs
  <2> HIDE DEF inner, b
  <2>3. i \in 1..Len(inner)
    BY DEF inner
  <2>4. QED
    BY <2>1, <2>2, <2>3
<1>2. /\ Exists(d, p) /\ Exists(d, p0) /\ Exists(d, p1) /\ Exists(d, p2)
      /\ Exists(d, q)
  <2> HIDE DEF inner
  <2>1. \A at \in InInner, j \in Nat :
          j <= Len(inner) /\ (at \in {"inner_key", "inner_value"} => j > 0)
            => Exists(d, Place(at, k, a, j))
    <3> TAKE at \in InInner, j \in Nat
    <3>1. /\ at \in Ats /\ at \in InAp
          /\ at \notin {"close", "end", "open", "name", "named", "array"}
      BY DEF InInner, InAp, InList, Ats
    <3> DEFINE r == Place(at, k, a, j)
    <3>2. r \in Places /\ r.at = at /\ r.k = k /\ r.a = a /\ r.i = j
      <4>1. at \in Ats /\ k \in Nat /\ a \in Nat /\ j \in Nat
        BY <1>1, <3>1
      <4>2. QED
        BY <4>1 DEF Place, Places
    <3> HIDE DEF r
    <3>3. QED
      BY <1>1, <3>1, <3>2 DEF Exists, inner, r
  <2>2. {"inner", "inner_more", "inner_key", "inner_value"} = InInner
    BY DEF InInner
  <2>3. i - 1 <= Len(inner)
    BY <1>1
  <2> HIDE DEF b
  <2>4. QED
    BY <1>1, <2>1, <2>2, <2>3
<1>3. /\ p.at = "inner" /\ p.k = k /\ p.a = a /\ p.i = i - 1
      /\ p0.at = "inner_more" /\ p0.k = k /\ p0.a = a /\ p0.i = i - 1
      /\ p1.at = "inner_key" /\ p1.k = k /\ p1.a = a /\ p1.i = i
      /\ p2.at = "inner_value" /\ p2.k = k /\ p2.a = a /\ p2.i = i
      /\ inner = d[k][a].value.attributes /\ b = inner[i]
      /\ p0 = Place("inner_more", k, a, i - 1)
      /\ p1 = Place("inner_key", k, a, i) /\ p2 = Place("inner_value", k, a, i)
      /\ q = Place("inner", k, a, i)
  BY DEF Place
<1>8. PlainAttribute(b) = (<<Str(b.key)>> \o <<Mark("colon")>>) \o <<Plain(b.value)>>
  BY PlainText
<1> HIDE DEF inner, b, p, p0, p1, p2, q
<1>4. i # 1 => Reads(d, p, Mark("comma"), p0)
  <2>1. i # 1 => i - 1 > 0 /\ i - 1 < Len(inner)
    BY <1>1
  <2>2. i # 1 => InObject(d, p, Mark("comma"), p0)
    BY <1>3, <2>1 DEF InObject
  <2>3. QED
    BY <1>2, <2>2, LexemesAre DEF Reads
<1>5. /\ Reads(d, p0, Str(b.key), p1)
      /\ i = 1 => Reads(d, p, Str(b.key), p1)
  <2>1. (i - 1) + 1 = i /\ i - 1 < Len(inner) /\ (i = 1 => i - 1 = 0)
    BY <1>1
  <2>2. Str(b.key) \in Lexemes
    BY <1>1, LexemesAre
  <2>3. InObject(d, p0, Str(b.key), p1)
    BY <1>3, <2>1 DEF InObject
  <2>4. i = 1 => InObject(d, p, Str(b.key), p1)
    BY <1>3, <2>1 DEF InObject
  <2>5. QED
    BY <1>2, <2>2, <2>3, <2>4 DEF Reads
<1>6. Reads(d, p1, Mark("colon"), p2)
  <2>1. InObject(d, p1, Mark("colon"), p2)
    BY <1>3 DEF InObject
  <2>2. QED
    BY <1>2, <2>1, LexemesAre DEF Reads
<1>7. Reads(d, p2, Plain(b.value), q)
  <2>1. InObject(d, p2, Plain(b.value), q)
    BY <1>3 DEF InObject
  <2>2. QED
    BY <1>1, <1>2, <2>1, LexemesAre DEF Reads
<1>9. ASSUME NEW s, Reads(d, s, Str(b.key), p1)
      PROVE  Leads(d, PlainAttribute(b), s, q)
  <2>1. Leads(d, <<Str(b.key)>>, s, p1)
    BY <1>9, OneLeads
  <2>2. Leads(d, <<Str(b.key)>> \o <<Mark("colon")>>, s, p2)
    BY <1>6, <2>1, OneLeads, LeadsOn
  <2>3. QED
    BY <1>7, <1>8, <2>2, OneLeads, LeadsOn
<1>10. PlainAttribute(b) \in Seq(Lexemes)
  BY <1>5, <1>9 DEF Leads
<1>11. i # 1 => Leads(d, <<Mark("comma")>> \o PlainAttribute(b), p, q)
  BY <1>4, <1>5, <1>9, OneLeads, LeadsOn
<1>12. i = 1 => Leads(d, PlainAttribute(b), p, q)
  BY <1>5, <1>9
<1>13. QED
  BY <1>10, <1>11, <1>12, Zenon DEF p, q, b, inner

(***************************************************************************)
(* An attribute of an access point.                                        *)
(***************************************************************************)
LEMMA AttributeLeads ==
  ASSUME NEW d \in Docs, NEW k \in 1..Len(d), NEW a \in 1..Len(d[k])
  PROVE  LET part == AttributeText(d[k][a])
         IN  /\ part \in Seq(Lexemes)
             /\ Leads(d, IF a = 1 THEN part ELSE <<Mark("comma")>> \o part,
                      Place("ap", k, a - 1, 0), Place("ap", k, a, 0))
<1> DEFINE att == d[k][a]
           v == att.value
           p == Place("ap", k, a - 1, 0)
           p0 == Place("ap_more", k, a - 1, 0)
           p1 == Place("key", k, a, 0)
           p2 == Place("value", k, a, 0)
           q == Place("ap", k, a, 0)
<1>1. /\ k \in Nat /\ a \in Nat /\ a - 1 \in Nat /\ k > 0 /\ a > 0
      /\ Len(d) \in Nat /\ Len(d[k]) \in Nat /\ k <= Len(d) /\ a <= Len(d[k])
      /\ att \in Attributes
  BY DocIs
<1>2. /\ Exists(d, p) /\ Exists(d, p0) /\ Exists(d, p1) /\ Exists(d, p2)
      /\ Exists(d, q)
  <2>1. ASSUME NEW at \in {"ap", "ap_more", "key", "value"}, NEW j \in Nat,
               j <= Len(d[k]), at \in {"key", "value"} => j > 0
        PROVE  Exists(d, Place(at, k, j, 0))
    <3>1. /\ at \in Ats /\ at \notin InInner
          /\ at \notin {"close", "end", "open", "name", "named", "array"}
          /\ at \notin {"inner_key", "inner_value"}
      BY DEF InInner, InAp, InList, Ats
    <3> DEFINE r == Place(at, k, j, 0)
    <3> HIDE DEF att, v, p, p0, p1, p2, q
    <3>2. r \in Places /\ r.at = at /\ r.k = k /\ r.a = j
      <4>1. at \in Ats /\ k \in Nat /\ j \in Nat
        BY <1>1, <3>1
      <4> HIDE DEF r
      <4>2. /\ Place(at, k, j, 0) \in Places
            /\ Place(at, k, j, 0).at = at /\ Place(at, k, j, 0).k = k
            /\ Place(at, k, j, 0).a = j
        BY <4>1 DEF Place, Places
      <4>3. QED
        BY <4>2 DEF r
    <3> HIDE DEF r
    <3>3. QED
      BY <1>1, <2>1, <3>1, <3>2 DEF Exists, r
  <2>2. a - 1 <= Len(d[k]) /\ a <= Len(d[k])
    BY <1>1
  <2> HIDE DEF att
  <2>3. QED
    BY <1>1, <2>1, <2>2
<1>3. /\ p.at = "ap" /\ p.k = k /\ p.a = a - 1
      /\ p0.at = "ap_more" /\ p0.k = k /\ p0.a = a - 1
      /\ p1.at = "key" /\ p1.k = k /\ p1.a = a
      /\ p2.at = "value" /\ p2.k = k /\ p2.a = a
      /\ att = d[k][a] /\ v = att.value
      /\ p0 = Place("ap_more", k, a - 1, 0)
      /\ p1 = Place("key", k, a, 0) /\ p2 = Place("value", k, a, 0)
      /\ q = Place("ap", k, a, 0)
  BY DEF Place
<1> HIDE DEF p, p0, p1, p2, q, v, att
<1>4. a # 1 => Reads(d, p, Mark("comma"), p0)
  <2>1. a # 1 => a - 1 > 0 /\ a - 1 < Len(d[k])
    BY <1>1
  <2>2. a # 1 => InAccessPoint(d, p, Mark("comma"), p0)
    BY <1>3, <2>1 DEF InAccessPoint
  <2>3. QED
    BY <1>2, <2>2, LexemesAre DEF Reads
<1>5. /\ Reads(d, p0, Str(att.key), p1)
      /\ a = 1 => Reads(d, p, Str(att.key), p1)
  <2>1. (a - 1) + 1 = a /\ a - 1 < Len(d[k]) /\ (a = 1 => a - 1 = 0)
    BY <1>1
  <2>2. Str(att.key) \in Lexemes
    BY <1>1, AttributeIs, LexemesAre
  <2>3. InAccessPoint(d, p0, Str(att.key), p1)
    BY <1>3, <2>1 DEF InAccessPoint
  <2>4. a = 1 => InAccessPoint(d, p, Str(att.key), p1)
    BY <1>3, <2>1 DEF InAccessPoint
  <2>5. QED
    BY <1>2, <2>2, <2>3, <2>4 DEF Reads
<1>6. Reads(d, p1, Mark("colon"), p2)
  <2>1. InAccessPoint(d, p1, Mark("colon"), p2)
    BY <1>3 DEF InAccessPoint
  <2>2. QED
    BY <1>2, <2>1, LexemesAre DEF Reads
<1>7. ASSUME NEW s, Reads(d, s, Str(att.key), p1)
      PROVE  Leads(d, <<Str(att.key)>> \o <<Mark("colon")>>, s, p2)
  BY <1>6, <1>7, OneLeads, LeadsOn
<1>8. ASSUME NEW s, Reads(d, s, Str(att.key), p1)
      PROVE  Leads(d, AttributeText(att), s, q)
  <2>1. CASE v.kind # "object"
    <3>1. Reads(d, p2, Plain(v), q)
      <4>1. InAccessPoint(d, p2, Plain(v), q)
        BY <1>3, <2>1 DEF InAccessPoint
      <4>2. Plain(v) \in Lexemes
        BY <1>1, <1>3, <2>1, AttributeIs, LexemesAre
      <4>3. QED
        BY <1>2, <4>1, <4>2 DEF Reads
    <3>2. AttributeText(att)
            = (<<Str(att.key)>> \o <<Mark("colon")>>) \o <<Plain(v)>>
      BY <1>3, <2>1, PlainText DEF AttributeText
    <3>3. QED
      BY <1>7, <1>8, <3>1, <3>2, OneLeads, LeadsOn
  <2>2. CASE v.kind = "object"
    <3> DEFINE inner == v.attributes
               n == Len(inner)
               parts == [i \in DOMAIN inner |-> PlainAttribute(inner[i])]
               P == [i \in 0..n |-> Place("inner", k, a, i)]
    <3>1. n \in Nat /\ DOMAIN inner = 1..n
      BY <1>1, <1>3, <2>2, AttributeIs
    <3>2. \A i \in 0..n : P[i] = Place("inner", k, a, i)
      OBVIOUS
    <3>3. \A i \in 0..n : P[i] \in Places
      <4>1. "inner" \in Ats
        BY DEF InInner, InAp, InList, Ats
      <4>2. QED
        BY <1>1, <3>1, <4>1, PlaceIs
    <3>4. \A i \in 1..n :
            /\ parts[i] \in Seq(Lexemes)
            /\ Leads(d, IF i = 1 THEN parts[i] ELSE <<Mark("comma")>> \o parts[i],
                     P[i - 1], P[i])
      <4> TAKE i \in 1..n
      <4>1. i \in DOMAIN inner /\ i - 1 \in 0..n /\ i \in 0..n
        BY <3>1
      <4>2. parts[i] = PlainAttribute(inner[i])
        BY <4>1
      <4>3. inner = d[k][a].value.attributes /\ d[k][a].value.kind = "object"
        BY <1>3, <2>2
      <4> DEFINE b == d[k][a].value.attributes[i]
      <4>4. /\ PlainAttribute(b) \in Seq(Lexemes)
            /\ Leads(d, IF i = 1 THEN PlainAttribute(b)
                        ELSE <<Mark("comma")>> \o PlainAttribute(b),
                     Place("inner", k, a, i - 1), Place("inner", k, a, i))
        <5>1. i \in 1..Len(d[k][a].value.attributes)
          BY <3>1, <4>3
        <5> HIDE DEF inner, n, parts, P
        <5>2. QED
          BY <4>3, <5>1, InnerLeads
      <4>5. parts[i] = PlainAttribute(b)
        BY <4>2, <4>3
      <4> HIDE DEF parts, P, b
      <4>6. QED
        BY <3>2, <4>1, <4>4, <4>5
    <3>5. /\ parts \in Seq(Seq(Lexemes)) /\ Len(parts) = n
      <4>1. parts = [i \in 1..n |-> parts[i]]
        BY <3>1
      <4> HIDE DEF parts, P, n
      <4>2. QED
        BY <3>1, <3>4, <4>1, FunctionIsSeq
    <3>6. PartsLead(d, parts, n, P)
      <4>1. P \in [0..n -> Places]
        BY <3>3
      <4> HIDE DEF parts, P, n
      <4>2. QED
        BY <3>4, <3>5, <4>1, Zenon DEF PartsLead
    <3>7. Exists(d, P[0]) /\ Exists(d, P[n])
      <4>1. ASSUME NEW i \in 0..n
            PROVE  Exists(d, P[i])
        <5>1. P[i].at = "inner" /\ P[i].k = k /\ P[i].a = a /\ P[i].i = i
          BY DEF Place
        <5>2. P[i] \in Places /\ i <= n
          BY <3>1, <3>3
        <5>3. "inner" \in InInner /\ "inner" \in InAp
              /\ "inner" \notin {"close", "end", "open", "name", "named", "array",
                                 "inner_key", "inner_value"}
          BY DEF InInner, InAp
        <5> HIDE DEF P
        <5>4. QED
          BY <1>1, <1>3, <2>2, <5>1, <5>2, <5>3 DEF Exists
      <4>2. 0 \in 0..n /\ n \in 0..n
        BY <3>1
      <4>3. QED
        BY <4>1, <4>2
    <3>8. Reads(d, p2, Mark("lbrace"), P[0])
      <4>1. P[0] = Place("inner", k, a, 0)
        BY <3>1
      <4> HIDE DEF P
      <4>2. InObject(d, p2, Mark("lbrace"), P[0])
        BY <1>3, <2>2, <4>1 DEF InObject
      <4>3. QED
        BY <1>2, <3>7, <4>2, LexemesAre DEF Reads
    <3>9. Reads(d, P[n], Mark("rbrace"), q)
      <4>1. P[n].at = "inner" /\ P[n].k = k /\ P[n].a = a /\ P[n].i = n
        BY <3>1 DEF Place
      <4> HIDE DEF P
      <4>2. InObject(d, P[n], Mark("rbrace"), q)
        BY <1>3, <2>2, <4>1 DEF InObject
      <4>3. QED
        BY <1>2, <3>7, <4>2, LexemesAre DEF Reads
    <3>10. AttributeText(att)
             = (<<Str(att.key)>> \o <<Mark("colon")>>) \o Braced(parts)
      <4>1. AttributeText(att) = <<Str(att.key), Mark("colon")>> \o Braced(parts)
        BY <1>3, <2>2, Zenon DEF AttributeText
      <4>2. <<Str(att.key), Mark("colon")>> = <<Str(att.key)>> \o <<Mark("colon")>>
        BY Two
      <4>3. QED
        BY <4>1, <4>2
    <3> HIDE DEF parts, P, n
    <3>11. Leads(d, Braced(parts), p2, q)
      BY <3>1, <3>6, <3>8, <3>9, BracedLead
    <3>12. QED
      BY <1>7, <1>8, <3>10, <3>11, LeadsOn
  <2>3. QED
    BY <2>1, <2>2
<1>9. AttributeText(att) \in Seq(Lexemes)
  BY <1>5, <1>8 DEF Leads
<1>10. a # 1 => Leads(d, <<Mark("comma")>> \o AttributeText(att), p, q)
  BY <1>4, <1>5, <1>8, OneLeads, LeadsOn
<1>11. a = 1 => Leads(d, AttributeText(att), p, q)
  BY <1>5, <1>8
<1>12. QED
  BY <1>9, <1>10, <1>11, Zenon DEF p, q, att

(***************************************************************************)
(* An access point, and a document.                                        *)
(***************************************************************************)
LEMMA AccessPointLeads ==
  ASSUME NEW d \in Docs, NEW k \in 1..Len(d)
  PROVE  LET part == AccessPointText(d[k])
         IN  /\ part \in Seq(Lexemes)
             /\ Leads(d, IF k = 1 THEN part ELSE <<Mark("comma")>> \o part,
                      Place("list", k - 1, 0, 0), Place("list", k, 0, 0))
<1> DEFINE ap_k == d[k]
           n == Len(ap_k)
           parts == [a \in DOMAIN ap_k |-> AttributeText(ap_k[a])]
           P == [a \in 0..n |-> Place("ap", k, a, 0)]
           p == Place("list", k - 1, 0, 0)
           p0 == Place("list_more", k - 1, 0, 0)
           q == Place("list", k, 0, 0)
<1>1. /\ k \in Nat /\ k - 1 \in Nat /\ k > 0 /\ n \in Nat /\ DOMAIN ap_k = 1..n
      /\ Len(d) \in Nat /\ k <= Len(d) /\ k - 1 < Len(d)
      /\ (k # 1 => k - 1 > 0) /\ (k = 1 => k - 1 = 0) /\ (k - 1) + 1 = k
  BY DocIs
<1>2. \A a \in 0..n : P[a] = Place("ap", k, a, 0)
  OBVIOUS
<1>3. \A a \in 0..n : P[a] \in Places
  <2>1. "ap" \in Ats
    BY DEF InAp, InList, Ats
  <2>2. QED
    BY <1>1, <1>2, <2>1, PlaceIs
<1>4. \A a \in 1..n :
        /\ parts[a] \in Seq(Lexemes)
        /\ Leads(d, IF a = 1 THEN parts[a] ELSE <<Mark("comma")>> \o parts[a],
                 P[a - 1], P[a])
  <2> TAKE a \in 1..n
  <2>1. a \in DOMAIN ap_k /\ a - 1 \in 0..n /\ a \in 0..n
    BY <1>1
  <2>2. parts[a] = AttributeText(d[k][a])
    BY <2>1
  <2> HIDE DEF parts, P
  <2>3. QED
    BY <1>2, <2>1, <2>2, AttributeLeads
<1>5. parts \in Seq(Seq(Lexemes)) /\ Len(parts) = n
  <2>1. parts = [a \in 1..n |-> parts[a]]
    BY <1>1
  <2> HIDE DEF parts, P, n
  <2>2. QED
    BY <1>1, <1>4, <2>1, FunctionIsSeq
<1>6. PartsLead(d, parts, n, P)
  <2>1. P \in [0..n -> Places]
    BY <1>3
  <2> HIDE DEF parts, P, n
  <2>2. QED
    BY <1>4, <1>5, <2>1, Zenon DEF PartsLead
<1>7. Exists(d, P[0]) /\ Exists(d, P[n])
  <2>1. ASSUME NEW a \in 0..n
        PROVE  Exists(d, P[a])
    <3>1. P[a].at = "ap" /\ P[a].k = k /\ P[a].a = a
      BY DEF Place
    <3>2. P[a] \in Places /\ a <= n /\ a \in Nat
      <4>1. a <= n /\ a \in Nat
        BY <1>1
      <4> HIDE DEF P, n
      <4>2. P[a] \in Places
        BY <1>3
      <4>3. QED
        BY <4>1, <4>2
    <3>3. "ap" \notin InInner /\ "ap" \in InAp
          /\ "ap" \notin {"close", "end", "open", "name", "named", "array", "key",
                          "value", "inner_key", "inner_value"}
      BY DEF InInner, InAp
    <3> HIDE DEF P
    <3>4. QED
      BY <1>1, <3>1, <3>2, <3>3 DEF Exists
  <2>2. 0 \in 0..n /\ n \in 0..n
    BY <1>1
  <2>3. QED
    BY <2>1, <2>2
<1>8. Exists(d, p) /\ Exists(d, p0) /\ Exists(d, q)
  <2>1. ASSUME NEW at \in {"list", "list_more"}, NEW j \in Nat, j <= Len(d)
        PROVE  Exists(d, Place(at, j, 0, 0))
    <3>1. /\ at \in Ats /\ at \notin InInner /\ at \notin InAp
          /\ at \notin {"close", "end", "open", "name", "named", "array"}
          /\ at \notin {"inner_key", "inner_value", "key", "value"}
      BY DEF InInner, InAp, InList, Ats
    <3> DEFINE r == Place(at, j, 0, 0)
    <3>2. r \in Places /\ r.at = at /\ r.k = j
      <4>1. at \in Ats /\ j \in Nat /\ 0 \in Nat
        BY <3>1
      <4>2. QED
        BY <4>1, ListPlaceIs, Zenon
    <3> HIDE DEF r
    <3>3. QED
      BY <2>1, <3>1, <3>2 DEF Exists, r
  <2>2. k - 1 <= Len(d)
    BY <1>1
  <2> HIDE DEF P, parts, n, ap_k
  <2>3. QED
    BY <1>1, <2>1, <2>2
<1>9. /\ p.at = "list" /\ p.k = k - 1 /\ p0.at = "list_more" /\ p0.k = k - 1
      /\ p0 = Place("list_more", k - 1, 0, 0)
      /\ q = Place("list", k, 0, 0)
      /\ P[0] = Place("ap", k, 0, 0)
      /\ P[n].at = "ap" /\ P[n].k = k /\ P[n].a = n /\ n = Len(d[k])
  BY <1>1 DEF Place
<1>10. AccessPointText(d[k]) = Braced(parts)
  BY Zenon DEF AccessPointText
<1> HIDE DEF p, p0, q, P, parts, n, ap_k
<1>11. k # 1 => Reads(d, p, Mark("comma"), p0)
  <2>1. k # 1 => InTop(d, p, Mark("comma"), p0)
    BY <1>1, <1>9 DEF InTop
  <2>2. QED
    BY <1>8, <2>1, LexemesAre DEF Reads
<1>12. /\ Reads(d, p0, Mark("lbrace"), P[0])
       /\ k = 1 => Reads(d, p, Mark("lbrace"), P[0])
  <2>1. InTop(d, p0, Mark("lbrace"), P[0])
    BY <1>1, <1>9 DEF InTop
  <2>2. k = 1 => InTop(d, p, Mark("lbrace"), P[0])
    BY <1>1, <1>9 DEF InTop
  <2>3. QED
    BY <1>7, <1>8, <2>1, <2>2, LexemesAre DEF Reads
<1>13. Reads(d, P[n], Mark("rbrace"), q)
  <2>1. InAccessPoint(d, P[n], Mark("rbrace"), q)
    BY <1>9 DEF InAccessPoint
  <2>2. QED
    BY <1>7, <1>8, <2>1, LexemesAre DEF Reads
<1>14. /\ Leads(d, Braced(parts), p0, q)
       /\ k = 1 => Leads(d, Braced(parts), p, q)
  BY <1>1, <1>6, <1>12, <1>13, BracedLead
<1>15. Braced(parts) \in Seq(Lexemes)
  BY <1>14 DEF Leads
<1>16. k # 1 => Leads(d, <<Mark("comma")>> \o Braced(parts), p, q)
  BY <1>11, <1>14, OneLeads, LeadsOn
<1>17. QED
  BY <1>10, <1>14, <1>15, <1>16, Zenon DEF p, q

LEMMA ThreeLead ==
  ASSUME NEW d, NEW p, NEW q, NEW x, NEW y, NEW z,
         Leads(d, (<<x>> \o <<y>>) \o <<z>>, p, q)
  PROVE  Leads(d, <<x, y, z>>, p, q)
<1> DEFINE t == <<x, y, z>>
<1>1. t = <<x, y, z>>
  OBVIOUS
<1> HIDE DEF t
<1>2. t = (<<x>> \o <<y>>) \o <<z>>
  BY <1>1, Three
<1>3. QED
  BY <1>2, Zenon DEF t

LEMMA TextLeads ==
  ASSUME NEW d \in Docs
  PROVE  Leads(d, TextOf(d), Start, End(d))
<1> DEFINE n == Len(d)
           parts == [k \in DOMAIN d |-> AccessPointText(d[k])]
           P == [k \in 0..n |-> Place("list", k, 0, 0)]
           p0 == Start
           p1 == Place("name", 0, 0, 0)
           p2 == Place("named", 0, 0, 0)
           p3 == Place("array", 0, 0, 0)
           q0 == Place("close", n, 0, 0)
           q == End(d)
<1>1. n \in Nat /\ DOMAIN d = 1..n
  BY DocIs
<1>2. \A k \in 0..n : P[k] = Place("list", k, 0, 0)
  OBVIOUS
<1>3. \A k \in 0..n : P[k] \in Places
  <2>1. "list" \in Ats
    BY DEF InList, Ats
  <2>2. QED
    BY <1>1, <1>2, <2>1, PlaceIs
<1>4. \A k \in 1..n :
        /\ parts[k] \in Seq(Lexemes)
        /\ Leads(d, IF k = 1 THEN parts[k] ELSE <<Mark("comma")>> \o parts[k],
                 P[k - 1], P[k])
  <2> TAKE k \in 1..n
  <2>1. k \in DOMAIN d /\ k - 1 \in 0..n /\ k \in 0..n
    BY <1>1
  <2>2. parts[k] = AccessPointText(d[k])
    BY <2>1
  <2> HIDE DEF parts, P
  <2>3. QED
    BY <1>2, <2>1, <2>2, AccessPointLeads
<1>5. parts \in Seq(Seq(Lexemes)) /\ Len(parts) = n
  <2>1. parts = [k \in 1..n |-> parts[k]]
    BY <1>1
  <2> HIDE DEF parts, P, n
  <2>2. QED
    BY <1>1, <1>4, <2>1, FunctionIsSeq
<1>6. PartsLead(d, parts, n, P)
  <2>1. P \in [0..n -> Places]
    BY <1>3
  <2> HIDE DEF parts, P, n
  <2>2. QED
    BY <1>4, <1>5, <2>1, Zenon DEF PartsLead
<1>7. /\ Exists(d, p0) /\ Exists(d, p1) /\ Exists(d, p2) /\ Exists(d, p3)
      /\ Exists(d, q0) /\ Exists(d, q) /\ Exists(d, P[0]) /\ Exists(d, P[n])
  <2>1. ASSUME NEW at \in Ats, at \notin InAp, NEW j \in Nat, j <= n,
               at \in {"open", "name", "named", "array"} => j = 0,
               at \in {"close", "end"} => j = n
        PROVE  Exists(d, Place(at, j, 0, 0))
    <3>1. at \notin InInner /\ at \notin {"inner_key", "inner_value", "key", "value"}
      BY <2>1 DEF InInner, InAp
    <3> DEFINE r == Place(at, j, 0, 0)
    <3>2. r \in Places /\ r.at = at /\ r.k = j
      <4>1. at \in Ats /\ j \in Nat /\ 0 \in Nat
        BY <3>1
      <4>2. QED
        BY <4>1, ListPlaceIs, Zenon
    <3> HIDE DEF r
    <3>3. QED
      BY <2>1, <3>1, <3>2 DEF Exists, r
  <2>2. {"open", "name", "named", "array", "list", "close", "end"}
          \subseteq Ats \ InAp
    BY DEF InInner, InAp, InList, Ats
  <2>3. P[0] = Place("list", 0, 0, 0) /\ P[n] = Place("list", n, 0, 0)
        /\ 0 <= n
    BY <1>1
  <2> HIDE DEF P, parts, n
  <2>4. Exists(d, p0) /\ Exists(d, p1) /\ Exists(d, p2) /\ Exists(d, p3)
    BY <1>1, <2>1, <2>2, <2>3 DEF Start
  <2>5. Exists(d, Place("close", n, 0, 0)) /\ Exists(d, Place("end", n, 0, 0))
    <3>1. n \in Nat /\ n <= n
      BY <1>1
    <3>2. /\ "close" \in Ats /\ "close" \notin InAp
          /\ "end" \in Ats /\ "end" \notin InAp
      BY <2>2
    <3>3. QED
      BY <2>1, <3>1, <3>2
  <2>6. Exists(d, Place("list", 0, 0, 0)) /\ Exists(d, Place("list", n, 0, 0))
    BY <1>1, <2>1, <2>2, <2>3
  <2>7. QED
    BY <2>3, <2>4, <2>5, <2>6 DEF End, n
<1>8. /\ p1.at = "name" /\ p2.at = "named" /\ p3.at = "array"
      /\ q0.at = "close" /\ q0.k = n
      /\ p0 = Start
      /\ p1 = Place("name", 0, 0, 0) /\ p2 = Place("named", 0, 0, 0)
      /\ p3 = Place("array", 0, 0, 0) /\ q0 = Place("close", n, 0, 0)
      /\ q = Place("end", n, 0, 0)
      /\ P[0] = Place("list", 0, 0, 0)
      /\ P[n].at = "list" /\ P[n].k = n /\ n = Len(d)
  BY <1>1 DEF Place, End
<1>9. TextOf(d) =
        (<<Mark("lbrace"), Str("access_points"), Mark("colon"), Mark("lbracket")>>
           \o Separated(parts)) \o <<Mark("rbracket"), Mark("rbrace")>>
  BY Zenon DEF TextOf
<1> HIDE DEF n, parts, P, p0, p1, p2, p3, q0, q
<1>10. /\ InTop(d, p0, Mark("lbrace"), p1)
       /\ InTop(d, p1, Str("access_points"), p2)
       /\ InTop(d, p2, Mark("colon"), p3)
       /\ InTop(d, p3, Mark("lbracket"), P[0])
       /\ InTop(d, P[n], Mark("rbracket"), q0)
       /\ InTop(d, q0, Mark("rbrace"), q)
  BY <1>8 DEF InTop
<1>11. "access_points" \in DOMAIN Cut
  BY CutAssumption
<1>12. /\ Leads(d, <<Mark("lbrace")>>, p0, p1)
       /\ Leads(d, <<Str("access_points")>>, p1, p2)
       /\ Leads(d, <<Mark("colon")>>, p2, p3)
       /\ Leads(d, <<Mark("lbracket")>>, p3, P[0])
       /\ Leads(d, <<Mark("rbracket")>>, P[n], q0)
       /\ Leads(d, <<Mark("rbrace")>>, q0, q)
  BY <1>7, <1>10, <1>11, LexemesAre, OneLeads DEF Reads
<1>13. Leads(d, <<Mark("rbracket"), Mark("rbrace")>>, P[n], q)
  BY <1>12, LeadsOn, Two
<1>14. Leads(d, <<Mark("lbrace"), Str("access_points"), Mark("colon"), Mark("lbracket")>>, p0, P[0])
  <2>1. Leads(d, <<Mark("lbrace"), Str("access_points"), Mark("colon")>>, p0, p3)
    <3>1. Leads(d, <<Mark("lbrace")>> \o <<Str("access_points")>>, p0, p2)
      BY <1>12, LeadsOn
    <3>2. Leads(d, (<<Mark("lbrace")>> \o <<Str("access_points")>>) \o <<Mark("colon")>>,
                p0, p3)
      BY <1>12, <3>1, LeadsOn
    <3>3. QED
      BY <3>2, ThreeLead
  <2>2. Leads(d, <<Mark("lbrace"), Str("access_points"), Mark("colon")>> \o <<Mark("lbracket")>>,
              p0, P[0])
    BY <1>12, <2>1, LeadsOn
  <2>3. QED
    BY <2>2, Four
<1>15. Leads(d, Separated(parts), P[0], P[n])
  BY <1>1, <1>6, SeparatedLead
<1>16. QED
  BY <1>8, <1>9, <1>13, <1>14, <1>15, LeadsOn DEF q


-----------------------------------------------------------------------------
(* The tokens.                                                             *)

Tokens == [type : {"OBJECT", "ARRAY", "STRING", "PRIMITIVE"}, start : Nat,
           end : Nat, size : Nat, value : Names \cup Numbers]

Opened(toks) == {k \in DOMAIN toks : IsOpen(toks[k])}

(***************************************************************************)
(* A token more, counted in the token super; and a token closed.           *)
(***************************************************************************)
WithToken(toks, super, token) ==
  Append(IF super = 0 THEN toks ELSE [toks EXCEPT ![super].size = @ + 1], token)

WithEnd(toks, k, e) == [toks EXCEPT ![k].end = e]

LEMMA TokenResized ==
  ASSUME NEW t \in Tokens, NEW s \in Nat
  PROVE  LET u == [t EXCEPT !.size = s]
         IN  /\ u \in Tokens /\ u.type = t.type /\ u.end = t.end
             /\ u.value = t.value /\ u.size = s
BY DEF Tokens

Added(toks, super, token, new) ==
  /\ toks \in Seq(Tokens) /\ super \in 0..Len(toks) /\ token \in Tokens
  /\ token.size = 0 /\ new = WithToken(toks, super, token)

LEMMA TokenAdded ==
  ASSUME NEW toks, NEW super, NEW token, NEW new, Added(toks, super, token, new)
  PROVE  /\ new \in Seq(Tokens) /\ Len(new) = Len(toks) + 1
         /\ new[Len(toks) + 1] = token
         /\ \A j \in 1..Len(toks) :
              /\ new[j].type = toks[j].type /\ new[j].end = toks[j].end
              /\ new[j].value = toks[j].value
              /\ j # super => new[j].size = toks[j].size
              /\ j = super => new[j].size = toks[j].size + 1
         /\ token.end = 0 => Opened(new) = Opened(toks) \cup {Len(toks) + 1}
         /\ token.end # 0 => Opened(new) = Opened(toks)
<1>0. /\ toks \in Seq(Tokens) /\ super \in 0..Len(toks) /\ token \in Tokens
      /\ new = WithToken(toks, super, token)
  BY DEF Added
<1> DEFINE n == Len(toks)
           counted == IF super = 0 THEN toks
                      ELSE [toks EXCEPT ![super].size = @ + 1]
<1>1. /\ n \in Nat /\ DOMAIN toks = 1..n
      /\ \A j \in 1..n : toks[j] \in Tokens
  BY <1>0
<1>2. ASSUME NEW j \in 1..n
      PROVE  /\ counted[j] \in Tokens
             /\ counted[j].type = toks[j].type /\ counted[j].end = toks[j].end
             /\ counted[j].value = toks[j].value
             /\ counted[j].size = IF j = super THEN toks[j].size + 1
                                               ELSE toks[j].size
  <2>1. toks[j] \in Tokens /\ toks[j].size \in Nat
    BY <1>1 DEF Tokens
  <2>2. CASE super = 0 \/ j # super
    <3>1. counted[j] = toks[j] /\ j # super
      BY <1>1, <2>2
    <3> HIDE DEF counted
    <3>2. QED
      BY <2>1, <3>1
  <2>3. CASE super # 0 /\ j = super
    <3>1. counted[j] = [toks[j] EXCEPT !.size = toks[j].size + 1]
      BY <1>1, <2>3
    <3>2. toks[j].size + 1 \in Nat
      BY <2>1
    <3> HIDE DEF counted
    <3>3. QED
      BY <2>1, <2>3, <3>1, <3>2, TokenResized
  <2>4. QED
    BY <2>2, <2>3
<1>3. counted \in Seq(Tokens) /\ Len(counted) = n
  <2>1. counted = [j \in 1..n |-> counted[j]]
    <3>1. CASE super = 0
      BY <1>0, <1>1, <3>1
    <3>2. CASE super # 0
      BY <1>1, <3>2
    <3>3. QED
      BY <3>1, <3>2
  <2> HIDE DEF counted, n
  <2>2. QED
    BY <1>1, <1>2, <2>1, FunctionIsSeq
<1>4. new = Append(counted, token)
  BY <1>0 DEF WithToken
<1> HIDE DEF counted, n
<1>5. /\ new \in Seq(Tokens) /\ Len(new) = n + 1 /\ new[n + 1] = token
      /\ DOMAIN new = 1..(n + 1)
      /\ \A j \in 1..n : new[j] = counted[j]
  BY <1>0, <1>1, <1>3, <1>4
<1>6. Opened(new) = Opened(toks) \cup (IF token.end = 0 THEN {n + 1} ELSE {})
  <2>1. \A j \in 1..(n + 1) : j \in 1..n \/ j = n + 1
    BY <1>1
  <2>2. n + 1 \in 1..(n + 1) /\ n + 1 \notin 1..n /\ 1..n \subseteq 1..(n + 1)
    BY <1>1
  <2>3. \A j \in 1..n : new[j].end = toks[j].end
    BY <1>2, <1>5
  <2>4. QED
    BY <1>1, <1>5, <2>1, <2>2, <2>3 DEF Opened, IsOpen
<1>7. QED
  BY <1>2, <1>5, <1>6 DEF n

LEMMA TokenClosed ==
  ASSUME NEW toks \in Seq(Tokens), NEW k \in 1..Len(toks), NEW e \in Nat \ {0},
         NEW new, new = WithEnd(toks, k, e)
  PROVE  /\ new \in Seq(Tokens) /\ Len(new) = Len(toks)
         /\ \A j \in 1..Len(toks) :
              /\ new[j].type = toks[j].type /\ new[j].size = toks[j].size
              /\ new[j].value = toks[j].value
         /\ Opened(new) = Opened(toks) \ {k}
<1> DEFINE n == Len(toks)
<1>1. /\ n \in Nat /\ DOMAIN toks = 1..n
      /\ \A j \in 1..n : toks[j] \in Tokens
  OBVIOUS
<1>2. /\ new = [j \in 1..n |-> new[j]] /\ DOMAIN new = 1..n
      /\ \A j \in 1..n : new[j] = IF j = k THEN [toks[j] EXCEPT !.end = e]
                                           ELSE toks[j]
  BY <1>1 DEF WithEnd
<1>3. ASSUME NEW j \in 1..n
      PROVE  /\ new[j] \in Tokens
             /\ new[j].type = toks[j].type /\ new[j].size = toks[j].size
             /\ new[j].value = toks[j].value
             /\ new[j].end = IF j = k THEN e ELSE toks[j].end
  <2>1. CASE j = k
    BY <1>1, <1>2, <2>1 DEF Tokens
  <2>2. CASE j # k
    BY <1>1, <1>2, <2>2
  <2>3. QED
    BY <2>1, <2>2
<1> HIDE DEF n
<1>4. new \in Seq(Tokens) /\ Len(new) = n
  BY <1>1, <1>2, <1>3, FunctionIsSeq
<1>5. Opened(new) = Opened(toks) \ {k}
  BY <1>1, <1>2, <1>3 DEF Opened, IsOpen
<1>6. QED
  BY <1>3, <1>4, <1>5 DEF n

(***************************************************************************)
(* The last token that is open.                                            *)
(***************************************************************************)
LEMMA NoneIsOpen ==
  ASSUME NEW toks
  PROVE  Opened(toks) = {} => LastOpen(toks) = 0
BY DEF Opened, LastOpen

LEMMA LastIsOpen ==
  ASSUME NEW toks \in Seq(Tokens), NEW m \in Opened(toks),
         \A k \in Opened(toks) : k <= m
  PROVE  LastOpen(toks) = m
<1>1. Opened(toks) \subseteq Nat
  BY DEF Opened
<1>2. \A k \in Opened(toks) : (\A j \in Opened(toks) : j <= k) => k = m
  BY <1>1
<1>3. LastOpen(toks) = CHOOSE k \in Opened(toks) : \A j \in Opened(toks) : j <= k
  BY DEF Opened, LastOpen
<1>4. QED
  BY <1>2, <1>3

LEMMA HasLargest ==
  ASSUME NEW A, NEW n \in Nat, A \subseteq 1..n, A # {}
  PROVE  \E m \in A : \A k \in A : k <= m
<1> DEFINE S == {j \in Nat : (\E k \in A : k <= j)
                               => \E m \in A : \A k \in A : k <= j => k <= m}
<1>1. 0 \in S
  OBVIOUS
<1>2. ASSUME NEW j \in Nat, j \in S
      PROVE  j + 1 \in S
  <2>1. CASE j + 1 \in A
    BY <2>1
  <2>2. CASE j + 1 \notin A
    <3>1. \A k \in A : k <= j + 1 => k <= j
      BY <2>2
    <3>2. QED
      BY <1>2, <3>1
  <2>3. QED
    BY <2>1, <2>2
<1> HIDE DEF S
<1>3. n \in S
  BY <1>1, <1>2, NatSetInduction
<1>4. \A k \in A : k <= n
  OBVIOUS
<1>5. QED
  BY <1>3, <1>4 DEF S

LEMMA SomeIsOpen ==
  ASSUME NEW toks \in Seq(Tokens), LastOpen(toks) # 0
  PROVE  LastOpen(toks) \in Opened(toks)
<1>1. Opened(toks) # {}
  BY NoneIsOpen
<1>2. Opened(toks) \subseteq 1..Len(toks) /\ Len(toks) \in Nat
  BY DEF Opened
<1>3. \E m \in Opened(toks) : \A k \in Opened(toks) : k <= m
  BY <1>1, <1>2, HasLargest
<1>4. QED
  BY <1>3, LastIsOpen

LEMMA NoneOpenIsNone ==
  ASSUME NEW toks \in Seq(Tokens), Opened(toks) # {}
  PROVE  LastOpen(toks) # 0
<1>1. Opened(toks) \subseteq 1..Len(toks) /\ Len(toks) \in Nat
  BY DEF Opened
<1>2. PICK m \in Opened(toks) : \A k \in Opened(toks) : k <= m
  BY <1>1, HasLargest
<1>3. QED
  BY <1>1, <1>2, LastIsOpen

(***************************************************************************)
(* The values that exist.                                                  *)
(***************************************************************************)
LEMMA ValueIs ==
  ASSUME NEW d \in Docs, NEW p, Exists(d, p), p.at \in {"key", "value"} \cup InInner
  PROVE  /\ p.k \in 1..Len(d) /\ p.a \in 1..Len(d[p.k])
         /\ d[p.k][p.a] \in Attributes
         /\ d[p.k][p.a].value.kind # "object" =>
              d[p.k][p.a].value \in Names \cup Numbers
<1>1. p \in Places /\ p.k \in Nat /\ p.a \in Nat
  BY DEF Exists, Places
<1>2. p.at \in InAp
  BY DEF InAp
<1>3. p.k \in 1..Len(d) /\ p.a \in 1..Len(d[p.k])
  <2>1. p.k > 0 /\ p.k <= Len(d) /\ p.a > 0 /\ p.a <= Len(d[p.k])
    BY <1>2, Zenon DEF Exists
  <2>2. p.k \in 1..Len(d)
    BY <1>1, <2>1, DocIs
  <2>3. QED
    BY <1>1, <2>1, <2>2, DocIs
<1>4. d[p.k][p.a] \in Attributes
  BY <1>3, DocIs
<1>5. QED
  BY <1>3, <1>4, AttributeIs

LEMMA InnerValueIs ==
  ASSUME NEW d \in Docs, NEW p, Exists(d, p),
         p.at \in {"inner_key", "inner_value"}
  PROVE  LET inner == d[p.k][p.a].value.attributes
         IN  /\ d[p.k][p.a].value.kind = "object"
             /\ p.i \in 1..Len(inner)
             /\ inner[p.i].key \in DOMAIN Cut
             /\ inner[p.i].value \in Names \cup Numbers
<1>1. p \in Places /\ p.i \in Nat
  BY DEF Exists, Places
<1>2. p.at \in InInner
  BY DEF InInner
<1>3. d[p.k][p.a] \in Attributes
  BY <1>2, ValueIs
<1>4. d[p.k][p.a].value.kind = "object" /\ p.i > 0
      /\ p.i <= Len(d[p.k][p.a].value.attributes)
  BY <1>2 DEF Exists
<1>5. p.i \in 1..Len(d[p.k][p.a].value.attributes)
  <2>1. Len(d[p.k][p.a].value.attributes) \in Nat
    BY <1>3, <1>4, AttributeIs
  <2>2. QED
    BY <1>1, <1>4, <2>1
<1>6. QED
  BY <1>3, <1>4, <1>5, AttributeIs

(***************************************************************************)
(* The lexemes and places by name only.                                    *)
(***************************************************************************)
Moves(p, l, q, from, lexes, to) == p.at \in from /\ l.lex \in lexes /\ q.at = to

MovesSomehow(p, l, q) ==
  \/ Moves(p, l, q, {"open"}, {"lbrace"}, "name")
  \/ Moves(p, l, q, {"name"}, {"str"}, "named")
  \/ Moves(p, l, q, {"named"}, {"colon"}, "array")
  \/ Moves(p, l, q, {"array"}, {"lbracket"}, "list")
  \/ Moves(p, l, q, {"list"}, {"comma"}, "list_more")
  \/ Moves(p, l, q, {"list", "list_more"}, {"lbrace"}, "ap")
  \/ Moves(p, l, q, {"list"}, {"rbracket"}, "close")
  \/ Moves(p, l, q, {"close"}, {"rbrace"}, "end")
  \/ Moves(p, l, q, {"ap"}, {"comma"}, "ap_more")
  \/ Moves(p, l, q, {"ap", "ap_more"}, {"str"}, "key")
  \/ Moves(p, l, q, {"ap"}, {"rbrace"}, "list")
  \/ Moves(p, l, q, {"key"}, {"colon"}, "value")
  \/ Moves(p, l, q, {"value"}, {"str", "prim"}, "ap")
  \/ Moves(p, l, q, {"value"}, {"lbrace"}, "inner")
  \/ Moves(p, l, q, {"inner"}, {"comma"}, "inner_more")
  \/ Moves(p, l, q, {"inner", "inner_more"}, {"str"}, "inner_key")
  \/ Moves(p, l, q, {"inner"}, {"rbrace"}, "ap")
  \/ Moves(p, l, q, {"inner_key"}, {"colon"}, "inner_value")
  \/ Moves(p, l, q, {"inner_value"}, {"str", "prim"}, "inner")

LEMMA LexOf ==
  /\ \A m : Mark(m).lex = m
  /\ \A n : Str(n).lex = "str" /\ Str(n).value = Name(n)
  /\ \A v \in Names \cup Numbers : Plain(v).lex \in {"str", "prim"}
  /\ \A v \in Names \cup Numbers : Plain(v).value = v
<1>1. ASSUME NEW v \in Names
      PROVE  v.kind = "name" /\ v = Name(v.name)
  BY DEF Names, Name
<1>2. ASSUME NEW v \in Numbers
      PROVE  v.kind = "number" /\ v = Number(v.number)
  BY DEF Numbers, Number
<1>3. \A v \in Names \cup Numbers : Plain(v).lex \in {"str", "prim"}
  BY DEF Str, Prim, Plain
<1>4. \A v \in Names \cup Numbers : Plain(v).value = v
  BY <1>1, <1>2 DEF Str, Prim, Plain
<1>5. \A m : Mark(m).lex = m
  BY DEF Mark
<1>6. \A n : Str(n).lex = "str" /\ Str(n).value = Name(n)
  BY DEF Str
<1>7. QED
  BY <1>3, <1>4, <1>5, <1>6

LEMMA AtOf == \A at, k, a, i : Place(at, k, a, i).at = at
BY DEF Place

LEMMA TopMoves ==
  ASSUME NEW d, NEW p, NEW l, NEW q, InTop(d, p, l, q)
  PROVE  MovesSomehow(p, l, q)
BY LexOf, AtOf DEF InTop, MovesSomehow, Moves, Start

LEMMA ApMoves ==
  ASSUME NEW d \in Docs, NEW p, NEW l, NEW q, Exists(d, p),
         InAccessPoint(d, p, l, q)
  PROVE  MovesSomehow(p, l, q)
<1>1. (p.at = "value" /\ d[p.k][p.a].value.kind # "object")
        => Plain(d[p.k][p.a].value).lex \in {"str", "prim"}
  BY ValueIs, LexOf
<1>2. QED
  BY <1>1, LexOf, AtOf DEF InAccessPoint, MovesSomehow, Moves

LEMMA ObjectMoves ==
  ASSUME NEW d \in Docs, NEW p, NEW l, NEW q, Exists(d, p),
         InObject(d, p, l, q)
  PROVE  MovesSomehow(p, l, q)
<1>1. p.at = "inner_value"
        => Plain(d[p.k][p.a].value.attributes[p.i].value).lex \in {"str", "prim"}
  BY InnerValueIs, LexOf
<1> DEFINE inner == d[p.k][p.a].value.attributes
<1>2. \/ /\ p.at = "value" /\ l = Mark("lbrace")
         /\ q = Place("inner", p.k, p.a, 0)
      \/ /\ p.at = "inner" /\ l = Mark("comma")
         /\ q = Place("inner_more", p.k, p.a, p.i)
      \/ /\ p.at \in {"inner", "inner_more"} /\ l = Str(inner[p.i + 1].key)
         /\ q = Place("inner_key", p.k, p.a, p.i + 1)
      \/ /\ p.at = "inner" /\ l = Mark("rbrace")
         /\ q = Place("ap", p.k, p.a, 0)
      \/ /\ p.at = "inner_key" /\ l = Mark("colon")
         /\ q = Place("inner_value", p.k, p.a, p.i)
      \/ /\ p.at = "inner_value" /\ l = Plain(inner[p.i].value)
         /\ q = Place("inner", p.k, p.a, p.i)
  BY DEF InObject
<1> HIDE DEF inner
<1>3. \/ p.at = "value" /\ l.lex = "lbrace" /\ q.at = "inner"
      \/ p.at = "inner" /\ l.lex = "comma" /\ q.at = "inner_more"
      \/ p.at \in {"inner", "inner_more"} /\ l.lex = "str" /\ q.at = "inner_key"
      \/ p.at = "inner" /\ l.lex = "rbrace" /\ q.at = "ap"
      \/ p.at = "inner_key" /\ l.lex = "colon" /\ q.at = "inner_value"
      \/ p.at = "inner_value" /\ l.lex \in {"str", "prim"} /\ q.at = "inner"
  <2>1. /\ Mark("lbrace").lex = "lbrace" /\ Mark("rbrace").lex = "rbrace"
        /\ Mark("comma").lex = "comma" /\ Mark("colon").lex = "colon"
        /\ Str(inner[p.i + 1].key).lex = "str"
    BY LexOf
  <2>2. p.at = "inner_value" => Plain(inner[p.i].value).lex \in {"str", "prim"}
    BY <1>1 DEF inner
  <2>3. /\ Place("inner", p.k, p.a, 0).at = "inner"
        /\ Place("inner_more", p.k, p.a, p.i).at = "inner_more"
        /\ Place("inner_key", p.k, p.a, p.i + 1).at = "inner_key"
        /\ Place("ap", p.k, p.a, 0).at = "ap"
        /\ Place("inner_value", p.k, p.a, p.i).at = "inner_value"
        /\ Place("inner", p.k, p.a, p.i).at = "inner"
    BY AtOf
  <2>4. QED
    BY <1>2, <2>1, <2>2, <2>3, Zenon
<1>4. QED
  BY <1>3 DEF MovesSomehow, Moves

-----------------------------------------------------------------------------
(* The brackets: a torn text does not close what it opens, or closes more. *)

Depth(p) ==
  IF p.at \in {"open", "end"} THEN 0
  ELSE IF p.at \in {"name", "named", "array", "close"} THEN 1
  ELSE IF p.at \in {"list", "list_more"} THEN 2
  ELSE IF p.at \in InInner THEN 4 ELSE 3

Turn(l) == IF l.lex \in {"lbrace", "lbracket"} THEN 1
           ELSE IF l.lex \in {"rbrace", "rbracket"} THEN 0 - 1 ELSE 0

IsBalance(b, t) ==
  /\ b \in [1..(Len(t) + 1) -> Int] /\ b[1] = 0
  /\ \A i \in 1..Len(t) : b[i + 1] = b[i] + Turn(t[i])

(***************************************************************************)
(* What a lexeme does to the depth; it never leads to the start, or away   *)
(* from the end.                                                           *)
(***************************************************************************)
Turns(p, l, q) ==
  /\ Depth(q) = Depth(p) + Turn(l)
  /\ q.at # "open" /\ p.at # "end"
  /\ l.lex = "str" => p.at # "open"

LEMMA ReadsTurns ==
  ASSUME NEW d \in Docs, NEW p, NEW l, NEW q, Reads(d, p, l, q)
  PROVE  Turns(p, l, q)
<1>1. MovesSomehow(p, l, q)
  BY TopMoves, ApMoves, ObjectMoves, Zenon DEF Reads
<1>2. QED
  BY <1>1 DEF MovesSomehow, Moves, Turns, Depth, Turn, InInner

LEMMA RunBalances ==
  ASSUME NEW d \in Docs
  PROVE  LET t == TextOf(d)
         IN  /\ t \in Seq(Lexemes)
             /\ \E b : /\ IsBalance(b, t) /\ b[Len(t) + 1] = 0
                       /\ \A i \in 2..Len(t) : b[i] > 0
                       /\ \A i \in 1..Len(t) : t[i].lex = "str" => b[i] > 0
<1> DEFINE t == TextOf(d)
<1>1. t \in Seq(Lexemes) /\ \E f : IsRun(f, d, t, Start, End(d))
  BY TextLeads DEF Leads
<1> HIDE DEF t
<1>2. PICK f : IsRun(f, d, t, Start, End(d))
  BY <1>1
<1> DEFINE n == Len(t)
           b == [i \in 1..(n + 1) |-> Depth(f[i])]
<1>3. /\ n \in Nat /\ f \in [1..(n + 1) -> Places]
      /\ f[1] = Start /\ f[n + 1] = End(d)
      /\ \A i \in 1..n : Reads(d, f[i], t[i], f[i + 1])
  BY <1>1, <1>2 DEF IsRun
<1>4. \A p : Depth(p) \in Int /\ (Depth(p) > 0 <=> p.at \notin {"open", "end"})
  BY DEF Depth, InInner
<1>5. \A i \in 1..n : Turns(f[i], t[i], f[i + 1])
  BY <1>3, ReadsTurns
<1>6. \A i \in 1..(n + 1) : b[i] = Depth(f[i])
  OBVIOUS
<1>7. b \in [1..(n + 1) -> Int]
  BY <1>4
<1> HIDE DEF b, n
<1>8. \A i \in 1..n : /\ i \in 1..(n + 1) /\ i + 1 \in 1..(n + 1)
  BY <1>3
<1>9. Depth(Start) = 0 /\ Depth(End(d)) = 0
  BY DEF Start, End, Place, Depth
<1>10. b[1] = 0 /\ b[n + 1] = 0
  <2>1. 1 \in 1..(n + 1) /\ n + 1 \in 1..(n + 1)
    BY <1>3
  <2>2. QED
    BY <1>3, <1>6, <1>9, <2>1
<1>11. \A i \in 1..n : b[i + 1] = b[i] + Turn(t[i])
  BY <1>5, <1>6, <1>8 DEF Turns
<1>12. ASSUME NEW i \in 2..n
       PROVE  b[i] > 0
  <2>1. i - 1 \in 1..n /\ (i - 1) + 1 = i /\ i \in 1..n
    BY <1>3
  <2>2. Turns(f[i - 1], t[i - 1], f[i]) /\ Turns(f[i], t[i], f[i + 1])
    BY <1>5, <2>1
  <2>3. f[i].at \notin {"open", "end"}
    BY <2>2 DEF Turns
  <2>4. QED
    BY <1>4, <1>6, <1>8, <2>1, <2>3
<1>13. ASSUME NEW i \in 1..n, t[i].lex = "str"
       PROVE  b[i] > 0
  <2>1. f[i].at \notin {"open", "end"}
    BY <1>5, <1>13 DEF Turns
  <2>2. QED
    BY <1>4, <1>6, <1>8, <2>1
<1>14. IsBalance(b, t)
  BY <1>7, <1>10, <1>11 DEF IsBalance, n
<1>15. QED
  BY <1>1, <1>10, <1>12, <1>13, <1>14 DEF t, n

(***************************************************************************)
(* The texts a run begins with: whole, a beginning, or with the end of a   *)
(* longer one.                                                             *)
(***************************************************************************)
Texts == Seq(Lexemes \cup {Mark("broken")})

(***************************************************************************)
(* All but the whole text and the empty one end out of balance.            *)
(***************************************************************************)
Balanced(t, whole) ==
  \E b : /\ IsBalance(b, t)
         /\ (t # whole /\ t # << >>) => b[Len(t) + 1] # 0

LEMMA WholeText ==
  ASSUME NEW d \in Docs
  PROVE  TextOf(d) \in Texts /\ Balanced(TextOf(d), TextOf(d))
BY RunBalances DEF Balanced, Texts

LEMMA BeginningText ==
  ASSUME NEW d \in Docs, NEW k \in 0..(Len(TextOf(d)) - 1)
  PROVE  LET t == SubSeq(TextOf(d), 1, k)
         IN  t \in Texts /\ Balanced(t, TextOf(d))
<1> DEFINE w == TextOf(d)
           t == SubSeq(w, 1, k)
<1>1. /\ w \in Seq(Lexemes)
      /\ \E b : /\ IsBalance(b, w) /\ b[Len(w) + 1] = 0
                /\ \A i \in 2..Len(w) : b[i] > 0
  BY RunBalances
<1>2. k \in 0..(Len(w) - 1)
  OBVIOUS
<1> HIDE DEF w
<1>3. PICK b : /\ IsBalance(b, w) /\ \A i \in 2..Len(w) : b[i] > 0
  BY <1>1
<1>4. /\ t \in Seq(Lexemes) /\ Len(t) = k /\ k \in Nat
      /\ \A i \in 1..k : t[i] = w[i]
  BY <1>1, <1>2
<1>5. t \in Texts
  BY <1>4 DEF Texts
<1> DEFINE c == [i \in 1..(k + 1) |-> b[i]]
<1>6. Len(w) \in Nat /\ b \in [1..(Len(w) + 1) -> Int] /\ b[1] = 0
      /\ \A i \in 1..Len(w) : b[i + 1] = b[i] + Turn(w[i])
  BY <1>1, <1>3 DEF IsBalance
<1> HIDE DEF t
<1>7. IsBalance(c, t)
  <2>1. c \in [1..(k + 1) -> Int] /\ c[1] = 0
    BY <1>2, <1>6
  <2>2. ASSUME NEW i \in 1..k
        PROVE  c[i + 1] = c[i] + Turn(t[i])
    <3>1. i \in 1..Len(w) /\ i \in 1..(k + 1) /\ i + 1 \in 1..(k + 1)
      BY <1>2, <1>6
    <3>2. c[i] = b[i] /\ c[i + 1] = b[i + 1] /\ t[i] = w[i]
      BY <1>4, <3>1
    <3> HIDE DEF c
    <3>3. QED
      BY <1>6, <3>1, <3>2
  <2> HIDE DEF c
  <2>3. QED
    BY <1>4, <2>1, <2>2 DEF IsBalance
<1>8. t # << >> => c[k + 1] # 0
  <2>1. t # << >> => k # 0
    BY <1>4
  <2>2. k # 0 => b[k + 1] > 0
    BY <1>2, <1>3
  <2>3. k + 1 \in 1..(k + 1) /\ k + 1 \in 1..(Len(w) + 1)
    BY <1>2, <1>4
  <2>4. b[k + 1] \in Int /\ c[k + 1] = b[k + 1]
    BY <1>6, <2>3
  <2>5. QED
    BY <2>1, <2>2, <2>4
<1> HIDE DEF c
<1>9. Balanced(t, w)
  BY <1>4, <1>7, <1>8 DEF Balanced
<1>10. QED
  BY <1>5, <1>9 DEF t, w

LEMMA BrokenText ==
  ASSUME NEW d \in Docs, NEW k \in DOMAIN TextOf(d), TextOf(d)[k].lex = "str"
  PROVE  LET t == Append(SubSeq(TextOf(d), 1, k - 1), Mark("broken"))
         IN  t \in Texts /\ Balanced(t, TextOf(d))
<1> DEFINE w == TextOf(d)
           s == SubSeq(w, 1, k - 1)
           t == Append(s, Mark("broken"))
<1>1. /\ w \in Seq(Lexemes)
      /\ \E b : /\ IsBalance(b, w)
                /\ \A i \in 1..Len(w) : w[i].lex = "str" => b[i] > 0
  BY RunBalances
<1>2. k \in DOMAIN w /\ w[k].lex = "str"
  OBVIOUS
<1> HIDE DEF w
<1>3. k \in 1..Len(w) /\ Len(w) \in Nat
  BY <1>1, <1>2
<1>4. PICK b : IsBalance(b, w) /\ b[k] > 0
  BY <1>1, <1>2, <1>3
<1>5. /\ s \in Seq(Lexemes) /\ Len(s) = k - 1 /\ k - 1 \in Nat
      /\ \A i \in 1..(k - 1) : s[i] = w[i]
  BY <1>1, <1>3
<1> HIDE DEF s
<1>6. /\ s \in Seq(Lexemes \cup {Mark("broken")})
      /\ Mark("broken") \in Lexemes \cup {Mark("broken")}
  BY <1>5
<1>7. /\ t \in Seq(Lexemes \cup {Mark("broken")}) /\ Len(t) = k
      /\ t[k] = Mark("broken") /\ \A i \in 1..(k - 1) : t[i] = w[i]
  BY <1>3, <1>5, <1>6
<1> DEFINE c == [i \in 1..(k + 1) |-> IF i = k + 1 THEN b[k] ELSE b[i]]
<1>8. b \in [1..(Len(w) + 1) -> Int] /\ b[1] = 0
      /\ \A i \in 1..Len(w) : b[i + 1] = b[i] + Turn(w[i])
  BY <1>4 DEF IsBalance
<1>9. Turn(Mark("broken")) = 0
  BY DEF Turn, Mark
<1> HIDE DEF t
<1>10. IsBalance(c, t)
  <2>1. c \in [1..(k + 1) -> Int] /\ c[1] = 0
    BY <1>3, <1>8
  <2>2. ASSUME NEW i \in 1..k
        PROVE  c[i + 1] = c[i] + Turn(t[i])
    <3>1. CASE i = k
      <4>1. b[k] \in Int /\ c[k + 1] = b[k] /\ c[k] = b[k]
        BY <1>3, <1>8
      <4>2. QED
        BY <1>7, <1>9, <3>1, <4>1
    <3>2. CASE i # k
      <4>1. /\ i \in 1..(k - 1) /\ i \in 1..Len(w) /\ i # k + 1 /\ i + 1 # k + 1
            /\ i \in 1..(k + 1) /\ i + 1 \in 1..(k + 1)
        BY <1>3, <3>2
      <4>2. c[i + 1] = b[i + 1] /\ c[i] = b[i] /\ t[i] = w[i]
        BY <1>7, <4>1
      <4>3. QED
        BY <1>8, <4>1, <4>2
    <3>3. QED
      BY <3>1, <3>2
  <2> HIDE DEF c
  <2>3. QED
    BY <1>7, <2>1, <2>2 DEF IsBalance
<1>11. c[k + 1] # 0
  <2>1. b[k] \in Int
    BY <1>3, <1>8
  <2>2. QED
    BY <1>3, <1>4, <2>1
<1> HIDE DEF c
<1>12. Balanced(t, w)
  BY <1>7, <1>10, <1>11 DEF Balanced
<1>13. QED
  BY <1>7, <1>12 DEF t, s, w, Texts

LEMMA LongerText ==
  ASSUME NEW d \in Docs, NEW longer \in Docs, NEW end \in Ends(TextOf(longer))
  PROVE  LET t == TextOf(d) \o end
         IN  t \in Texts /\ Balanced(t, TextOf(d))
<1> DEFINE w == TextOf(d)
           v == TextOf(longer)
           t == w \o end
           m == Len(w)
<1>1. /\ w \in Seq(Lexemes)
      /\ \E b : IsBalance(b, w) /\ b[Len(w) + 1] = 0
  BY RunBalances
<1>2. /\ v \in Seq(Lexemes)
      /\ \E b : /\ IsBalance(b, v) /\ b[Len(v) + 1] = 0
                /\ \A i \in 2..Len(v) : b[i] > 0
  BY RunBalances
<1>3. PICK k \in 2..Len(v) : end = SubSeq(v, k, Len(v))
  BY DEF Ends
<1> HIDE DEF w, v
<1>4. PICK b : IsBalance(b, w) /\ b[Len(w) + 1] = 0
  BY <1>1
<1>5. PICK g : /\ IsBalance(g, v) /\ g[Len(v) + 1] = 0 /\ g[k] > 0
  BY <1>2, <1>3
<1> DEFINE n == Len(end)
<1>6. /\ end \in Seq(Lexemes) /\ n = Len(v) - k + 1 /\ n \in Nat
      /\ Len(v) \in Nat /\ k \in Nat /\ k >= 2 /\ k <= Len(v)
      /\ \A i \in 1..n : end[i] = v[i + k - 1]
  BY <1>2, <1>3
<1>7. /\ t \in Seq(Lexemes) /\ Len(t) = m + n /\ m \in Nat
      /\ \A i \in 1..(m + n) : t[i] = IF i <= m THEN w[i] ELSE end[i - m]
  <2>1. end \in Seq(Lexemes) /\ w \in Seq(Lexemes)
    BY <1>1, <1>6
  <2>2. QED
    BY <2>1
<1>8. /\ b \in [1..(m + 1) -> Int] /\ b[1] = 0 /\ b[m + 1] = 0
      /\ \A i \in 1..m : b[i + 1] = b[i] + Turn(w[i])
  BY <1>4 DEF IsBalance
<1>9. /\ g \in [1..(Len(v) + 1) -> Int] /\ g[Len(v) + 1] = 0
      /\ \A i \in 1..Len(v) : g[i + 1] = g[i] + Turn(v[i])
  BY <1>5 DEF IsBalance
<1> DEFINE c == [i \in 1..(m + n + 1) |->
                   IF i <= m THEN b[i] ELSE g[(i - m) + k - 1] - g[k]]
<1> HIDE DEF t, m, n
<1>10. /\ \A i \in 1..(m + n + 1) :
            c[i] = IF i <= m THEN b[i] ELSE g[(i - m) + k - 1] - g[k]
       /\ c \in [1..(m + n + 1) -> Int]
  <2>1. ASSUME NEW i \in 1..(m + n + 1)
        PROVE  (IF i <= m THEN b[i] ELSE g[(i - m) + k - 1] - g[k]) \in Int
    <3>1. CASE i <= m
      <4>1. i \in 1..(m + 1)
        BY <1>7, <3>1
      <4>2. b[i] \in Int
        BY <1>8, <4>1, Zenon
      <4>3. QED
        BY <3>1, <4>2, Zenon
    <3>2. CASE ~(i <= m)
      <4> DEFINE j == (i - m) + k - 1
                 last == Len(v)
      <4>1. m \in Nat /\ k \in Nat /\ k >= 2 /\ k <= last
            /\ n = last - k + 1 /\ last \in Nat
        BY <1>6, <1>7
      <4> HIDE DEF last
      <4>2. j \in 1..(last + 1) /\ k \in 1..(last + 1)
        BY <3>2, <4>1
      <4> HIDE DEF j
      <4>3. g[j] \in Int /\ g[k] \in Int
        BY <1>9, <4>2, Zenon DEF last
      <4>4. g[j] - g[k] \in Int
        BY <4>3
      <4>5. QED
        BY <3>2, <4>4, Zenon DEF j
    <3>3. QED
      BY <3>1, <3>2
  <2>2. QED
    BY <2>1
<1> HIDE DEF c
<1>11. c[1] = 0
  <2>1. CASE m = 0
    <3>1. c[1] = g[(1 - m) + k - 1] - g[k]
      BY <1>6, <1>7, <1>10, <2>1
    <3>2. (1 - m) + k - 1 = k /\ g[k] \in Int
      BY <1>6, <1>9, <2>1
    <3>3. QED
      BY <3>1, <3>2
  <2>2. CASE m # 0
    BY <1>6, <1>7, <1>8, <1>10, <2>2
  <2>3. QED
    BY <2>1, <2>2
<1>12. ASSUME NEW i \in 1..(m + n)
       PROVE  c[i + 1] = c[i] + Turn(t[i])
  <2>0. i \in 1..(m + n + 1) /\ i + 1 \in 1..(m + n + 1) /\ g[k] \in Int
    <3>1. i \in 1..(m + n + 1) /\ i + 1 \in 1..(m + n + 1)
      BY <1>6, <1>7
    <3>2. k \in 1..(Len(v) + 1)
      BY <1>6
    <3>3. QED
      BY <1>9, <3>1, <3>2
  <2>1. CASE i < m
    <3>1. i \in 1..m /\ i <= m /\ i + 1 <= m
      BY <1>7, <2>1
    <3>2. c[i] = b[i] /\ c[i + 1] = b[i + 1] /\ t[i] = w[i]
      BY <1>7, <1>10, <2>0, <3>1
    <3>3. QED
      BY <1>8, <3>1, <3>2
  <2>2. CASE i = m
    <3>1. i \in 1..m /\ i <= m /\ ~(i + 1 <= m) /\ ((i + 1) - m) + k - 1 = k
      BY <1>6, <1>7, <2>2
    <3>2. c[i] = b[i] /\ c[i + 1] = g[k] - g[k] /\ t[i] = w[i]
      BY <1>7, <1>10, <2>0, <3>1
    <3>3. c[i + 1] = b[i + 1]
      BY <1>8, <2>0, <2>2, <3>2
    <3>4. QED
      BY <1>8, <3>1, <3>2, <3>3
  <2>3. CASE i > m
    <3> DEFINE j == (i - m) + k - 1
    <3>1. /\ ~(i <= m) /\ ~(i + 1 <= m) /\ i - m \in 1..n
          /\ ((i + 1) - m) + k - 1 = j + 1 /\ j \in 1..Len(v)
      BY <1>6, <1>7, <2>3
    <3>2. c[i] = g[j] - g[k] /\ c[i + 1] = g[j + 1] - g[k]
      BY <1>10, <2>0, <3>1
    <3>3. t[i] = v[j]
      BY <1>6, <1>7, <3>1
    <3> HIDE DEF j
    <3>4. g[j + 1] = g[j] + Turn(v[j]) /\ g[j] \in Int /\ Turn(v[j]) \in Int
      <4>1. j \in 1..(Len(v) + 1)
        BY <1>6, <3>1
      <4>2. Turn(v[j]) \in Int
        BY DEF Turn
      <4>3. QED
        BY <1>9, <3>1, <4>1, <4>2
    <3>5. QED
      BY <2>0, <3>2, <3>3, <3>4
  <2>4. QED
    BY <1>7, <2>1, <2>2, <2>3
<1>13. c[m + n + 1] # 0
  <2>1. /\ m + n + 1 \in 1..(m + n + 1) /\ ~(m + n + 1 <= m)
        /\ ((m + n + 1) - m) + k - 1 = Len(v) + 1
    BY <1>6, <1>7
  <2>2. c[m + n + 1] = g[Len(v) + 1] - g[k]
    BY <1>10, <2>1
  <2>3. g[k] \in Int
    <3>1. k \in 1..(Len(v) + 1)
      BY <1>6
    <3>2. QED
      BY <1>9, <3>1, Zenon
  <2>4. QED
    BY <1>5, <1>9, <2>2, <2>3
<1>14. IsBalance(c, t)
  BY <1>7, <1>10, <1>11, <1>12 DEF IsBalance
<1>15. Balanced(t, w)
  BY <1>7, <1>13, <1>14 DEF Balanced
<1>16. t \in Texts
  BY <1>7 DEF Texts
<1>17. QED
  BY <1>15, <1>16 DEF t, w

LEMMA InitialText ==
  ASSUME Init
  PROVE  doc \in Docs /\ text \in Texts /\ Balanced(text, TextOf(doc))
<1>1. doc \in Docs
  BY DEF Init
<1>2. CASE text = TextOf(doc)
  BY <1>1, <1>2, WholeText
<1>3. CASE text \in Beginnings(TextOf(doc))
  <2>1. CASE \E k \in 0..(Len(TextOf(doc)) - 1) : text = SubSeq(TextOf(doc), 1, k)
    BY <1>1, <2>1, BeginningText
  <2>2. CASE \E k \in DOMAIN TextOf(doc) :
               /\ TextOf(doc)[k].lex = "str"
               /\ text = Append(SubSeq(TextOf(doc), 1, k - 1), Mark("broken"))
    BY <1>1, <2>2, BrokenText
  <2>3. QED
    BY <1>3, <2>1, <2>2 DEF Beginnings
<1>4. CASE \E longer \in Overwritten :
             \E end \in Ends(TextOf(longer)) : text = TextOf(doc) \o end
  BY <1>1, <1>4, LongerText, DocsAssumption
<1>5. QED
  BY <1>2, <1>3, <1>4 DEF Init

-----------------------------------------------------------------------------
(* What jsmn keeps, whatever the text.                                     *)

Phases == {"start", "jsmn_parse", "check", "next", "attributes", "returned"}

Parsing ==
  /\ doc \in Docs /\ text \in Texts /\ pc \in Phases
  /\ pos \in 1..(Len(text) + 1)
  /\ tokens \in Seq(Tokens) /\ Len(tokens) <= EXPECTED_TOKENS
  /\ toksuper \in 0..Len(tokens)

LEMMA LexemeIs ==
  ASSUME NEW l \in Lexemes \cup {Mark("broken")}, l.lex \in {"str", "prim"}
  PROVE  l \in Lexemes /\ l.value \in Names \cup Numbers
BY DEF Lexemes, Marks, Strings, Primitives, Mark

(***************************************************************************)
(* The steps over a lexeme: an error, or the token that is added or        *)
(* closed.                                                                 *)
(***************************************************************************)
Fails == pc' = "returned" /\ result' = NULL /\ UNCHANGED jsmn

Goes == /\ pc' = pc /\ result' = result /\ pos' = pos + 1
        /\ pos \in 1..Len(text)

Adds(token, super) ==
  /\ token \in Tokens /\ token.size = 0
  /\ Len(tokens) < EXPECTED_TOKENS
  /\ tokens' = WithToken(tokens, toksuper, token)
  /\ toksuper' = super

LEMMA AddTokenAdds ==
  ASSUME Parsing, NEW token \in Tokens, token.size = 0, NEW super,
         pos <= Len(text), AddToken(token, super)
  PROVE  Fails \/ (Goes /\ Adds(token, super))
<1>1. pos \in 1..Len(text)
  BY DEF Parsing, Texts
<1>2. CASE Len(tokens) >= EXPECTED_TOKENS
  BY <1>2 DEF AddToken, Return, Fails
<1>3. CASE ~(Len(tokens) >= EXPECTED_TOKENS)
  <2>1. /\ tokens' = Append(Counted, token) /\ toksuper' = super
        /\ pos' = pos + 1 /\ pc' = pc /\ result' = result
    BY <1>3 DEF AddToken
  <2>2. Len(tokens) < EXPECTED_TOKENS
    BY <1>3, TokensAssumption DEF Parsing
  <2>3. QED
    BY <1>1, <2>1, <2>2 DEF Goes, Adds, WithToken, Counted
<1>4. QED
  BY <1>2, <1>3

LEMMA Opens ==
  ASSUME Parsing, OpeningBracket
  PROVE  /\ pc = "jsmn_parse" /\ UNCHANGED <<input, walk>>
         /\ pos \in 1..Len(text) /\ text[pos].lex \in {"lbrace", "lbracket"}
         /\ \/ Fails
            \/ Goes /\ \E token : /\ Adds(token, Len(tokens) + 1)
                                  /\ token.end = 0
                                  /\ token.type = TypeOfMark(text[pos].lex)
                                  /\ token.value = Name(NoName)
<1> DEFINE token == Token(TypeOfMark(text[pos].lex), 0, Name(NoName))
<1>1. /\ pc = "jsmn_parse" /\ UNCHANGED <<input, walk>> /\ pos <= Len(text)
      /\ text[pos].lex \in {"lbrace", "lbracket"}
      /\ AddToken(token, Len(tokens) + 1)
  BY DEF OpeningBracket, AtLexeme
<1>2. NoName \in DOMAIN Cut
  BY CutAssumption
<1>3. pos \in Nat /\ pos \in 1..Len(text)
  BY <1>1 DEF Parsing, Texts
<1>4. /\ token \in Tokens /\ token.size = 0 /\ token.end = 0
      /\ token.type = TypeOfMark(text[pos].lex) /\ token.value = Name(NoName)
  BY <1>2, <1>3 DEF Token, Tokens, TypeOfMark, Names, Name
<1> HIDE DEF token
<1>5. Fails \/ (Goes /\ Adds(token, Len(tokens) + 1))
  BY <1>1, <1>4, AddTokenAdds
<1>6. QED
  BY <1>1, <1>3, <1>4, <1>5

LEMMA Puts ==
  ASSUME Parsing, StringOrPrimitive
  PROVE  /\ pc = "jsmn_parse" /\ UNCHANGED <<input, walk>>
         /\ pos \in 1..Len(text) /\ text[pos].lex \in {"str", "prim"}
         /\ \/ Fails
            \/ Goes /\ \E token : /\ Adds(token, toksuper) /\ token.end # 0
                                  /\ token.type = IF text[pos].lex = "str"
                                                    THEN "STRING" ELSE "PRIMITIVE"
                                  /\ token.value = text[pos].value
<1> DEFINE type == IF text[pos].lex = "str" THEN "STRING" ELSE "PRIMITIVE"
           token == Token(type, pos + 1, text[pos].value)
<1>1. /\ pc = "jsmn_parse" /\ UNCHANGED <<input, walk>> /\ pos <= Len(text)
      /\ text[pos].lex \in {"str", "prim"}
      /\ AddToken(token, toksuper)
  BY DEF StringOrPrimitive, AtLexeme
<1>2. pos \in Nat /\ pos \in 1..Len(text)
  BY <1>1 DEF Parsing, Texts
<1>3. text[pos].value \in Names \cup Numbers
  <2>1. text[pos] \in Lexemes \cup {Mark("broken")}
    BY <1>2 DEF Parsing, Texts
  <2>2. QED
    BY <1>1, <2>1, LexemeIs
<1>4. /\ token \in Tokens /\ token.size = 0 /\ token.end # 0
      /\ token.type = type /\ token.value = text[pos].value
  BY <1>2, <1>3 DEF Token, Tokens
<1> HIDE DEF token
<1>5. Fails \/ (Goes /\ Adds(token, toksuper))
  BY <1>1, <1>4, AddTokenAdds
<1>6. QED
  BY <1>1, <1>2, <1>4, <1>5

LEMMA Closes ==
  ASSUME Parsing, ClosingBracket
  PROVE  /\ pc = "jsmn_parse" /\ UNCHANGED <<input, walk>>
         /\ pos \in 1..Len(text) /\ text[pos].lex \in {"rbrace", "rbracket"}
         /\ LET last == LastOpen(tokens)
            IN  \/ Fails
                \/ /\ Goes /\ last # 0
                   /\ tokens[last].type = TypeOfMark(text[pos].lex)
                   /\ tokens' = WithEnd(tokens, last, pos + 1)
                   /\ toksuper' = LastOpen(tokens')
<1>1. /\ pc = "jsmn_parse" /\ UNCHANGED <<input, walk>> /\ pos <= Len(text)
      /\ text[pos].lex \in {"rbrace", "rbracket"}
  BY DEF ClosingBracket, AtLexeme
<1>2. pos \in 1..Len(text)
  BY <1>1 DEF Parsing, Texts
<1>3. QED
  BY <1>1, <1>2 DEF ClosingBracket, Return, Fails, Goes, WithEnd

LEMMA Passes ==
  ASSUME Parsing, Colon \/ Comma
  PROVE  /\ pc = "jsmn_parse" /\ UNCHANGED <<input, walk>> /\ Goes
         /\ text[pos].lex \in {"colon", "comma"} /\ tokens' = tokens
         /\ toksuper' \in {Len(tokens), LastOpen(tokens), toksuper}
<1>1. pc = "jsmn_parse" /\ pos <= Len(text) /\ text[pos].lex \in {"colon", "comma"}
  BY DEF Colon, Comma, AtLexeme
<1>2. pos \in 1..Len(text)
  BY <1>1 DEF Parsing, Texts
<1>3. QED
  BY <1>1, <1>2 DEF Colon, Comma, Goes

LEMMA ParsingStarts == Init => Parsing
<1> SUFFICES ASSUME Init PROVE Parsing
  OBVIOUS
<1>1. doc \in Docs /\ text \in Texts
  BY InitialText
<1>2. /\ pc = "start" /\ pos = 1 /\ tokens = << >> /\ toksuper = 0
  BY DEF Init
<1>3. << >> \in Seq(Tokens) /\ Len(<< >>) = 0
  OBVIOUS
<1>4. QED
  BY <1>1, <1>2, <1>3, TokensAssumption DEF Parsing, Texts, Phases

LEMMA LastOpenIs ==
  ASSUME NEW toks \in Seq(Tokens)
  PROVE  /\ LastOpen(toks) \in 0..Len(toks)
         /\ LastOpen(toks) # 0 => LastOpen(toks) \in Opened(toks)
<1>1. CASE LastOpen(toks) = 0
  BY <1>1
<1>2. CASE LastOpen(toks) # 0
  <2>1. LastOpen(toks) \in Opened(toks)
    BY <1>2, SomeIsOpen
  <2>2. QED
    BY <2>1 DEF Opened
<1>3. QED
  BY <1>1, <1>2

(***************************************************************************)
(* The other steps leave the text and the tokens alone.                    *)
(***************************************************************************)
Rests == UNCHANGED <<input, jsmn>> /\ pc' \in Phases

LEMMA OthersRest ==
  ASSUME Parsing,
         \/ CheckBuffer \/ BrokenString \/ EndOfText
         \/ CheckTop \/ NextAccessPoint \/ NextAttribute \/ AddAccessPoint
         \/ ReturnMap \/ UNCHANGED vars
  PROVE  Rests
<1>1. CASE CheckBuffer
  BY <1>1 DEF CheckBuffer, Return, Rests, Phases
<1>2. CASE BrokenString
  BY <1>2 DEF BrokenString, Return, Rests, Phases
<1>3. CASE EndOfText
  BY <1>3 DEF EndOfText, Return, Rests, Phases
<1>4. CASE CheckTop
  BY <1>4 DEF CheckTop, Return, Rests, Phases
<1>5. CASE NextAccessPoint
  BY <1>5 DEF NextAccessPoint, Return, Rests, Phases
<1>6. CASE NextAttribute
  BY <1>6 DEF NextAttribute, Parsing, Rests
<1>7. CASE AddAccessPoint
  BY <1>7 DEF AddAccessPoint, Rests, Phases
<1>8. CASE ReturnMap
  BY <1>8 DEF ReturnMap, Return, Rests, Phases
<1>9. CASE UNCHANGED vars
  BY <1>9 DEF vars, Parsing, Rests
<1>10. QED
  BY <1>1, <1>2, <1>3, <1>4, <1>5, <1>6, <1>7, <1>8, <1>9

LEMMA AddsParsing ==
  ASSUME Parsing, UNCHANGED input, Goes, NEW token, NEW super, Adds(token, super),
         super \in 0..(Len(tokens) + 1)
  PROVE  Parsing'
<1>1. /\ tokens' \in Seq(Tokens) /\ Len(tokens') = Len(tokens) + 1
  <2>1. Added(tokens, toksuper, token, tokens')
    BY DEF Parsing, Adds, Added
  <2>2. QED
    BY <2>1, TokenAdded
<1>2. Len(tokens') <= EXPECTED_TOKENS
  BY <1>1, TokensAssumption DEF Adds, Parsing
<1>3. pos' \in 1..(Len(text) + 1)
  BY DEF Goes, Parsing, Texts
<1>4. QED
  BY <1>1, <1>2, <1>3 DEF Parsing, Goes, Adds, input

LEMMA ParsingStays == Parsing /\ [Next]_vars => Parsing'
<1> SUFFICES ASSUME Parsing, [Next]_vars PROVE Parsing'
  OBVIOUS
<1>0. ASSUME Fails, UNCHANGED input
      PROVE  Parsing'
  BY <1>0 DEF Parsing, Fails, input, jsmn, Phases
<1>1. CASE OpeningBracket
  <2>1. Len(tokens) + 1 \in 0..(Len(tokens) + 1)
    BY DEF Parsing
  <2>2. QED
    BY <1>0, <1>1, <2>1, Opens, AddsParsing
<1>2. CASE ClosingBracket
  <2>1. CASE Fails
    BY <1>0, <1>2, <2>1, Closes
  <2>2. CASE /\ Goes /\ LastOpen(tokens) # 0
             /\ tokens' = WithEnd(tokens, LastOpen(tokens), pos + 1)
             /\ toksuper' = LastOpen(tokens')
    <3>1. LastOpen(tokens) \in 1..Len(tokens) /\ pos + 1 \in Nat \ {0}
      BY <2>2, LastOpenIs DEF Parsing, Texts
    <3>2. tokens' \in Seq(Tokens) /\ Len(tokens') = Len(tokens)
      BY <2>2, <3>1, TokenClosed DEF Parsing
    <3>3. toksuper' \in 0..Len(tokens')
      BY <2>2, <3>2, LastOpenIs
    <3>4. pos' \in 1..(Len(text) + 1)
      BY <2>2 DEF Goes, Parsing, Texts
    <3>5. UNCHANGED input
      BY <1>2, Closes
    <3>6. QED
      BY <2>2, <3>2, <3>3, <3>4, <3>5 DEF Parsing, Goes, input
  <2>3. QED
    BY <1>2, <2>1, <2>2, Closes
<1>3. CASE StringOrPrimitive
  <2>1. toksuper \in 0..(Len(tokens) + 1)
    BY DEF Parsing
  <2>2. QED
    BY <1>0, <1>3, <2>1, Puts, AddsParsing
<1>4. CASE Colon \/ Comma
  <2>1. UNCHANGED <<input, tokens>> /\ Goes
        /\ toksuper' \in {Len(tokens), LastOpen(tokens), toksuper}
    BY <1>4, Passes
  <2>2. toksuper' \in 0..Len(tokens)
    BY <2>1, LastOpenIs DEF Parsing
  <2>3. pos' \in 1..(Len(text) + 1)
    BY <2>1 DEF Goes, Parsing, Texts
  <2>4. QED
    BY <2>1, <2>2, <2>3 DEF Parsing, Goes, input
<1>5. CASE Rests
  BY <1>5 DEF Parsing, Rests, input, jsmn
<1>6. QED
  BY <1>1, <1>2, <1>3, <1>4, <1>5, OthersRest DEF Next

-----------------------------------------------------------------------------
(***************************************************************************)
(* What is open is what the brackets passed so far leave open, and only a  *)
(* whole text ends with nothing open.                                      *)
(***************************************************************************)
Opening ==
  \E b :
    /\ IsBalance(b, text)
    /\ (~Whole /\ text # << >>) => b[Len(text) + 1] # 0
    /\ pc = "jsmn_parse" => Cardinality(Opened(tokens)) = b[pos]

OnlyWhole ==
  /\ pc = "start" => pos = 1 /\ tokens = << >>
  /\ pc = "jsmn_parse" => text # << >>
  /\ pc \in {"check", "next", "attributes"} => Whole
  /\ (pc = "returned" /\ ~Whole) => result = NULL

LEMMA OpenedIs ==
  ASSUME NEW toks \in Seq(Tokens)
  PROVE  /\ Opened(toks) \subseteq 1..Len(toks) /\ IsFiniteSet(Opened(toks))
         /\ Cardinality(Opened(toks)) \in Nat
<1>1. Opened(toks) \subseteq 1..Len(toks) /\ Len(toks) \in Nat
  BY DEF Opened
<1>2. IsFiniteSet(1..Len(toks))
  BY <1>1, FS_Interval
<1>3. IsFiniteSet(Opened(toks))
  BY <1>1, <1>2, FS_Subset
<1>4. QED
  BY <1>1, <1>3, FS_CardinalityType

LEMMA OpenedGrows ==
  ASSUME Parsing, NEW token, NEW super, Adds(token, super)
  PROVE  Cardinality(Opened(tokens'))
           = Cardinality(Opened(tokens)) + (IF token.end = 0 THEN 1 ELSE 0)
<1>0. Added(tokens, toksuper, token, tokens')
  BY DEF Parsing, Adds, Added
<1>1. /\ token.end = 0 => Opened(tokens') = Opened(tokens) \cup {Len(tokens) + 1}
      /\ token.end # 0 => Opened(tokens') = Opened(tokens)
  BY <1>0, TokenAdded
<1>2. /\ Opened(tokens) \subseteq 1..Len(tokens) /\ IsFiniteSet(Opened(tokens))
      /\ Cardinality(Opened(tokens)) \in Nat /\ Len(tokens) \in Nat
  BY OpenedIs DEF Parsing
<1>3. Len(tokens) + 1 \notin Opened(tokens)
  BY <1>2
<1>4. Cardinality(Opened(tokens) \cup {Len(tokens) + 1})
        = Cardinality(Opened(tokens)) + 1
  BY <1>2, <1>3, FS_AddElement
<1>5. CASE token.end = 0
  BY <1>1, <1>4, <1>5
<1>6. CASE token.end # 0
  BY <1>1, <1>2, <1>6
<1>7. QED
  BY <1>5, <1>6

LEMMA OpenedShrinks ==
  ASSUME Parsing, LastOpen(tokens) # 0,
         tokens' = WithEnd(tokens, LastOpen(tokens), pos + 1)
  PROVE  Cardinality(Opened(tokens')) = Cardinality(Opened(tokens)) - 1
<1>1. LastOpen(tokens) \in Opened(tokens) /\ LastOpen(tokens) \in 1..Len(tokens)
  BY LastOpenIs, OpenedIs DEF Parsing
<1>2. pos + 1 \in Nat \ {0}
  BY DEF Parsing, Texts
<1>3. Opened(tokens') = Opened(tokens) \ {LastOpen(tokens)}
  BY <1>1, <1>2, TokenClosed DEF Parsing
<1>4. IsFiniteSet(Opened(tokens))
  BY OpenedIs DEF Parsing
<1>5. QED
  BY <1>1, <1>3, <1>4, FS_RemoveElement

LEMMA OpeningStays ==
  ASSUME Parsing, Opening, OnlyWhole, [Next]_vars
  PROVE  Opening' /\ OnlyWhole'
<1>1. PICK b : /\ IsBalance(b, text)
               /\ (~Whole /\ text # << >>) => b[Len(text) + 1] # 0
               /\ pc = "jsmn_parse" => Cardinality(Opened(tokens)) = b[pos]
  BY DEF Opening
<1>2. /\ b \in [1..(Len(text) + 1) -> Int] /\ b[1] = 0
      /\ \A i \in 1..Len(text) : b[i + 1] = b[i] + Turn(text[i])
  BY <1>1 DEF IsBalance
<1>3. ASSUME UNCHANGED input,
             pc' = "jsmn_parse" => Cardinality(Opened(tokens')) = b[pos']
      PROVE  Opening'
  BY <1>1, <1>3 DEF Opening, input, Whole
<1>4. ASSUME UNCHANGED input, pc = "jsmn_parse", pc' = pc
      PROVE  OnlyWhole'
  BY <1>4 DEF OnlyWhole, input
<1>5. ASSUME UNCHANGED input, Fails
      PROVE  Opening' /\ OnlyWhole'
  BY <1>3, <1>5 DEF Fails, OnlyWhole
<1>6. ASSUME pc = "jsmn_parse", Goes,
             Cardinality(Opened(tokens'))
               = Cardinality(Opened(tokens)) + Turn(text[pos]),
             UNCHANGED input
      PROVE  Opening' /\ OnlyWhole'
  <2>1. b[pos + 1] = b[pos] + Turn(text[pos])
    BY <1>2, <1>6 DEF Goes
  <2>2. Cardinality(Opened(tokens')) = b[pos']
    BY <1>1, <1>6, <2>1 DEF Goes
  <2>3. QED
    BY <1>3, <1>4, <1>6, <2>2 DEF Goes
<1>7. CASE OpeningBracket
  <2>1. Turn(text[pos]) = 1
    BY <1>7, Opens DEF Turn
  <2>2. QED
    BY <1>5, <1>6, <1>7, <2>1, Opens, OpenedGrows
<1>8. CASE ClosingBracket
  <2>1. Turn(text[pos]) = 0 - 1
    BY <1>8, Closes DEF Turn
  <2>2. Cardinality(Opened(tokens)) \in Int
    BY OpenedIs DEF Parsing
  <2>3. QED
    BY <1>5, <1>6, <1>8, <2>1, <2>2, Closes, OpenedShrinks
<1>9. CASE StringOrPrimitive
  <2>1. Turn(text[pos]) = 0
    BY <1>9, Puts DEF Turn
  <2>2. QED
    BY <1>5, <1>6, <1>9, <2>1, Puts, OpenedGrows
<1>10. CASE Colon \/ Comma
  <2>1. Turn(text[pos]) = 0
    BY <1>10, Passes DEF Turn
  <2>2. Cardinality(Opened(tokens)) \in Int
    BY OpenedIs DEF Parsing
  <2>3. QED
    BY <1>6, <1>10, <2>1, <2>2, Passes
<1>11. CASE CheckBuffer
  <2>1. Opened(<< >>) = {} /\ Cardinality({}) = 0
    BY FS_EmptySet DEF Opened
  <2>2. UNCHANGED input /\ UNCHANGED jsmn /\ pos = 1 /\ tokens = << >>
    BY <1>11 DEF CheckBuffer, OnlyWhole
  <2>3. Opening'
    BY <1>2, <1>3, <2>1, <2>2 DEF jsmn
  <2>4. OnlyWhole'
    BY <1>11, <2>2 DEF CheckBuffer, Return, OnlyWhole, input
  <2>5. QED
    BY <2>3, <2>4
<1>12. CASE BrokenString
  BY <1>3, <1>12 DEF BrokenString, Return, OnlyWhole
<1>13. CASE EndOfText
  <2>1. UNCHANGED input /\ pc = "jsmn_parse" /\ pos > Len(text) /\ text # << >>
    BY <1>13 DEF EndOfText, OnlyWhole
  <2>2. pos = Len(text) + 1
    BY <2>1 DEF Parsing, Texts
  <2>3. CASE LastOpen(tokens) # 0
    BY <1>3, <1>13, <2>1, <2>3 DEF EndOfText, Return, OnlyWhole
  <2>4. CASE LastOpen(tokens) = 0
    <3>1. Opened(tokens) = {}
      <4>1. Opened(tokens) # {} => LastOpen(tokens) # 0
        BY NoneOpenIsNone DEF Parsing
      <4>2. QED
        BY <2>4, <4>1
    <3>2. b[Len(text) + 1] = 0
      BY <1>1, <2>1, <2>2, <3>1, FS_EmptySet
    <3>3. Whole
      BY <1>1, <2>1, <3>2
    <3>4. pc' = "check"
      BY <1>13, <2>4 DEF EndOfText
    <3>5. QED
      BY <1>3, <2>1, <3>3, <3>4 DEF OnlyWhole, Whole, input
  <2>5. QED
    BY <2>3, <2>4
<1>14. CASE CheckTop
  BY <1>3, <1>14 DEF CheckTop, Return, OnlyWhole, Whole, input
<1>15. CASE NextAccessPoint
  BY <1>3, <1>15 DEF NextAccessPoint, Return, OnlyWhole, Whole, input
<1>16. CASE NextAttribute
  BY <1>3, <1>16 DEF NextAttribute, OnlyWhole, Whole, input
<1>17. CASE AddAccessPoint
  BY <1>3, <1>17 DEF AddAccessPoint, OnlyWhole, Whole, input
<1>18. CASE ReturnMap
  BY <1>3, <1>18 DEF ReturnMap, Return, OnlyWhole, Whole, input
<1>19. CASE UNCHANGED vars
  BY <1>1, <1>3, <1>19 DEF vars, OnlyWhole, Whole, input, jsmn
<1>20. QED
  BY <1>7, <1>8, <1>9, <1>10, <1>11, <1>12, <1>13, <1>14, <1>15, <1>16, <1>17,
     <1>18, <1>19 DEF Next

LEMMA OpeningStarts == Init => Opening /\ OnlyWhole
<1> SUFFICES ASSUME Init PROVE Opening /\ OnlyWhole
  OBVIOUS
<1>1. pc = "start" /\ pos = 1 /\ tokens = << >>
  BY DEF Init
<1>2. Opening
  BY <1>1, InitialText DEF Opening, Balanced, Whole
<1>3. QED
  BY <1>1, <1>2 DEF OnlyWhole

(***************************************************************************)
(* A text that is a part of a document, or a document with the end of      *)
(* another one behind it, makes no map (parse_json_from_buffer).           *)
(***************************************************************************)
THEOREM TornTexts == Spec => []TornIsIgnored
<1> DEFINE Inv == Parsing /\ Opening /\ OnlyWhole
<1>1. Init => Inv
  BY ParsingStarts, OpeningStarts
<1>2. Inv /\ [Next]_vars => Inv'
  BY ParsingStays, OpeningStays
<1>3. Inv => TornIsIgnored
  BY DEF OnlyWhole, TornIsIgnored
<1>4. QED
  BY <1>1, <1>2, <1>3, PTL DEF Spec

-----------------------------------------------------------------------------
(***************************************************************************)
(* The tokens of a document.  o lists those of its access points, and e is *)
(* the object, if any, whose last key has no value yet.  An object's size  *)
(* is its number of keys, so that twice its size is what its keys and      *)
(* plain values take: there are that many tokens behind it, and before the *)
(* next access point.                                                      *)
(***************************************************************************)
IsObject(toks, j) == toks[j].type = "OBJECT"

Ordered(toks, o) ==
  /\ o \in Seq(Nat)
  /\ \A i \in 1..Len(o) : o[i] \in 4..Len(toks)
  /\ \A i \in 1..Len(o), k \in 1..Len(o) : i < k => o[i] < o[k]

Listed(toks, o) ==
  Len(toks) >= 3 /\ toks[3].type = "ARRAY" /\ toks[3].size = Len(o)

TokensFollow(toks, e) ==
  \A j \in 4..Len(toks) :
    IsObject(toks, j) =>
      j + 2 * toks[j].size <= Len(toks) + (IF j = e THEN 1 ELSE 0)

EndBeforeNext(toks, o) ==
  \A i \in 1..Len(o) : \A j \in 4..(o[i] - 1) :
    IsObject(toks, j) => j + 2 * toks[j].size < o[i]

Shape(toks, o, e) ==
  /\ Ordered(toks, o) /\ Listed(toks, o)
  /\ TokensFollow(toks, e) /\ EndBeforeNext(toks, o)

(***************************************************************************)
(* What a new token does to the shape: a key in the object super, a value, *)
(* an access point.                                                        *)
(***************************************************************************)
LEMMA AddedIs ==
  ASSUME NEW toks, NEW super, NEW token, NEW new, Added(toks, super, token, new)
  PROVE  /\ new \in Seq(Tokens) /\ Len(toks) \in Nat /\ Len(new) = Len(toks) + 1
         /\ new[Len(toks) + 1].type = token.type /\ new[Len(toks) + 1].size = 0
         /\ \A j \in 1..Len(toks) :
              /\ new[j].type = toks[j].type /\ toks[j].size \in Nat
              /\ j # super => new[j].size = toks[j].size
              /\ j = super => new[j].size = toks[j].size + 1
<1>1. /\ toks \in Seq(Tokens) /\ super \in 0..Len(toks) /\ token \in Tokens
      /\ token.size = 0 /\ new = WithToken(toks, super, token)
  BY DEF Added
<1> HIDE DEF Added
<1>2. /\ new \in Seq(Tokens) /\ Len(new) = Len(toks) + 1
      /\ new[Len(toks) + 1] = token
      /\ \A j \in 1..Len(toks) :
           /\ new[j].type = toks[j].type
           /\ j # super => new[j].size = toks[j].size
           /\ j = super => new[j].size = toks[j].size + 1
  BY TokenAdded
<1>3. ASSUME NEW j \in 1..Len(toks)
      PROVE  toks[j].size \in Nat
  <2>1. toks[j] \in Tokens
    BY <1>1
  <2>2. QED
    BY <2>1 DEF Tokens
<1>4. QED
  BY <1>1, <1>2, <1>3

LEMMA OrderedStays ==
  ASSUME NEW toks, NEW new, Len(toks) \in Nat, Len(new) = Len(toks) + 1,
         NEW o, Ordered(toks, o)
  PROVE  Ordered(new, o)
<1> DEFINE n == Len(toks)
<1>1. /\ o \in Seq(Nat)
      /\ \A i \in 1..Len(o) : o[i] \in 4..n
      /\ \A i \in 1..Len(o), k \in 1..Len(o) : i < k => o[i] < o[k]
  BY DEF Ordered
<1>2. 4..n \subseteq 4..Len(new)
  OBVIOUS
<1> HIDE DEF n
<1>3. \A i \in 1..Len(o) : o[i] \in 4..Len(new)
  BY <1>1, <1>2, Zenon
<1>4. QED
  BY <1>1, <1>3, Zenon DEF Ordered

LEMMA KeyAdded ==
  ASSUME NEW toks, NEW super, NEW token, NEW new, Added(toks, super, token, new),
         NEW o, Shape(toks, o, 0), token.type = "STRING",
         super \in 4..Len(toks), \A i \in 1..Len(o) : o[i] <= super
  PROVE  Shape(new, o, super)
<1> DEFINE n == Len(toks)
<1>1. /\ new \in Seq(Tokens) /\ n \in Nat /\ Len(new) = n + 1
      /\ new[n + 1].type = token.type /\ new[n + 1].size = 0
      /\ \A j \in 1..n : /\ new[j].type = toks[j].type /\ toks[j].size \in Nat
                         /\ j # super => new[j].size = toks[j].size
                         /\ j = super => new[j].size = toks[j].size + 1
  BY AddedIs
<1>2. Ordered(new, o)
  BY <1>1, OrderedStays DEF Shape
<1>3. Listed(new, o)
  BY <1>1 DEF Shape, Listed
<1>4. TokensFollow(new, super)
  <2> SUFFICES ASSUME NEW j \in 4..Len(new), IsObject(new, j)
               PROVE  j + 2 * new[j].size
                        <= Len(new) + (IF j = super THEN 1 ELSE 0)
    BY DEF TokensFollow
  <2>1. j # n + 1 /\ j \in 4..(n + 1)
    BY <1>1 DEF IsObject
  <2>2. j \in 4..n /\ j \in 1..n
    <3> HIDE DEF n
    <3>1. QED
      BY <1>1, <2>1
  <2>3. IsObject(toks, j)
    BY <1>1, <2>2 DEF IsObject
  <2>4. j + 2 * toks[j].size <= n
    BY <2>2, <2>3 DEF Shape, TokensFollow
  <2>5. /\ toks[j].size \in Nat
        /\ new[j].size = toks[j].size \/ new[j].size = toks[j].size + 1
        /\ j # super => new[j].size = toks[j].size
    BY <1>1, <2>2
  <2>6. j \in Nat /\ n \in Nat /\ Len(new) = n + 1
    BY <1>1, <2>2
  <2> HIDE DEF n
  <2>7. PICK k \in Nat : k = toks[j].size
    BY <2>5
  <2>8. j + 2 * k <= n
    BY <2>4, <2>7
  <2>9. CASE j = super
    <3>1. new[j].size = k \/ new[j].size = k + 1
      BY <2>5, <2>7
    <3>2. QED
      BY <2>6, <2>8, <2>9, <3>1
  <2>10. CASE j # super
    <3>1. new[j].size = k
      BY <2>5, <2>7, <2>10
    <3>2. QED
      BY <2>6, <2>8, <2>10, <3>1
  <2>11. QED
    BY <2>9, <2>10
<1>5. EndBeforeNext(new, o)
  <2> SUFFICES ASSUME NEW i \in 1..Len(o), NEW j \in 4..(o[i] - 1),
                      IsObject(new, j)
               PROVE  j + 2 * new[j].size < o[i]
    BY DEF EndBeforeNext
  <2>1. o[i] \in 4..n
    BY DEF Shape, Ordered
  <2>2. j \in 1..n /\ j # super
    BY <1>1, <2>1
  <2>3. IsObject(toks, j)
    BY <1>1, <2>2 DEF IsObject
  <2>4. j + 2 * toks[j].size < o[i]
    BY <2>3 DEF Shape, EndBeforeNext
  <2>5. QED
    BY <1>1, <2>2, <2>4
<1>6. QED
  BY <1>2, <1>3, <1>4, <1>5 DEF Shape

LEMMA ValueAdded ==
  ASSUME NEW toks, NEW super, NEW token, NEW new, Added(toks, super, token, new),
         NEW o, NEW e, Shape(toks, o, e), super \in 1..Len(toks),
         toks[super].type = "STRING"
  PROVE  Shape(new, o, 0)
<1> DEFINE n == Len(toks)
<1>1. /\ new \in Seq(Tokens) /\ n \in Nat /\ Len(new) = n + 1
      /\ new[n + 1].type = token.type /\ new[n + 1].size = 0
      /\ \A j \in 1..n : /\ new[j].type = toks[j].type /\ toks[j].size \in Nat
                         /\ j # super => new[j].size = toks[j].size
                         /\ j = super => new[j].size = toks[j].size + 1
  BY AddedIs
<1>2. Ordered(new, o)
  BY <1>1, OrderedStays DEF Shape
<1>3. Listed(new, o)
  BY <1>1 DEF Shape, Listed
<1>4. ASSUME NEW j \in 1..n, IsObject(new, j)
      PROVE  IsObject(toks, j) /\ new[j].size = toks[j].size /\ toks[j].size \in Nat
  BY <1>1, <1>4 DEF IsObject
<1>5. TokensFollow(new, 0)
  <2> SUFFICES ASSUME NEW j \in 4..Len(new), IsObject(new, j)
               PROVE  j + 2 * new[j].size <= Len(new)
    BY DEF TokensFollow
  <2>1. CASE j = n + 1
    BY <1>1, <2>1
  <2>2. CASE j # n + 1
    <3>1. j \in 4..n /\ j \in 1..n
      BY <1>1, <2>2
    <3>2. IsObject(toks, j) /\ new[j].size = toks[j].size /\ toks[j].size \in Nat
      BY <1>4, <3>1
    <3>3. j + 2 * toks[j].size <= n + (IF j = e THEN 1 ELSE 0)
      BY <3>1, <3>2 DEF Shape, TokensFollow
    <3>4. QED
      BY <1>1, <3>1, <3>2, <3>3
  <2>3. QED
    BY <2>1, <2>2
<1>6. EndBeforeNext(new, o)
  <2> SUFFICES ASSUME NEW i \in 1..Len(o), NEW j \in 4..(o[i] - 1),
                      IsObject(new, j)
               PROVE  j + 2 * new[j].size < o[i]
    BY DEF EndBeforeNext
  <2>1. o[i] \in 4..n
    BY DEF Shape, Ordered
  <2>2. j \in 1..n
    BY <1>1, <2>1
  <2>3. IsObject(toks, j) /\ new[j].size = toks[j].size
    BY <1>4, <2>2
  <2>4. j + 2 * toks[j].size < o[i]
    BY <2>3 DEF Shape, EndBeforeNext
  <2>5. QED
    BY <2>3, <2>4
<1>7. QED
  BY <1>2, <1>3, <1>5, <1>6 DEF Shape

LEMMA AccessPointAdded ==
  ASSUME NEW toks, NEW token, NEW new, Added(toks, 3, token, new),
         NEW o, Shape(toks, o, 0)
  PROVE  Shape(new, Append(o, Len(toks) + 1), 0)
<1> DEFINE n == Len(toks)
           m == Len(o)
           o2 == Append(o, n + 1)
<1>1. /\ new \in Seq(Tokens) /\ n \in Nat /\ Len(new) = n + 1
      /\ new[n + 1].type = token.type /\ new[n + 1].size = 0
      /\ \A j \in 1..n : /\ new[j].type = toks[j].type /\ toks[j].size \in Nat
                         /\ j # 3 => new[j].size = toks[j].size
                         /\ j = 3 => new[j].size = toks[j].size + 1
  BY AddedIs
<1>2. /\ o \in Seq(Nat) /\ m \in Nat
      /\ \A i \in 1..m : o[i] \in 4..n
      /\ \A i \in 1..m, k \in 1..m : i < k => o[i] < o[k]
      /\ n >= 3 /\ toks[3].type = "ARRAY" /\ toks[3].size = m
  BY DEF Shape, Ordered, Listed
<1>3. /\ o2 \in Seq(Nat) /\ Len(o2) = m + 1 /\ o2[m + 1] = n + 1
      /\ \A i \in 1..m : o2[i] = o[i]
      /\ \A i \in 1..(m + 1) : i \in 1..m \/ i = m + 1
  <2>1. n + 1 \in Nat
    BY <1>1
  <2>2. \A i \in 1..(m + 1) : i \in 1..m \/ i = m + 1
    BY <1>2
  <2> DEFINE e == n + 1
  <2> HIDE DEF n, e
  <2>3. Append(o, e) \in Seq(Nat) /\ Len(Append(o, e)) = m + 1
    BY <1>2, <2>1 DEF e
  <2>4. Append(o, e)[m + 1] = e /\ \A i \in 1..m : Append(o, e)[i] = o[i]
    BY <1>2, <2>1 DEF e
  <2>5. QED
    BY <2>2, <2>3, <2>4 DEF e
<1> HIDE DEF o2
<1> HIDE DEF n, m
<1>4. Ordered(new, o2)
  <2>1. ASSUME NEW i \in 1..(m + 1)
        PROVE  o2[i] \in 4..(n + 1)
    <3>1. CASE i = m + 1
      BY <1>1, <1>2, <1>3, <3>1
    <3>2. CASE i \in 1..m
      <4>1. o2[i] = o[i] /\ o[i] \in 4..n
        BY <1>2, <1>3, <3>2
      <4>2. QED
        BY <1>1, <4>1
    <3>3. QED
      BY <1>3, <3>1, <3>2
  <2>2. ASSUME NEW i \in 1..(m + 1), NEW k \in 1..(m + 1), i < k
        PROVE  o2[i] < o2[k]
    <3>1. i \in 1..m
      BY <1>2, <2>2
    <3>2. o2[i] = o[i] /\ o[i] \in 4..n
      BY <1>2, <1>3, <3>1
    <3>3. CASE k = m + 1
      BY <1>1, <1>3, <3>2, <3>3
    <3>4. CASE k \in 1..m
      BY <1>2, <1>3, <2>2, <3>1, <3>4
    <3>5. QED
      BY <1>3, <3>3, <3>4
  <2>3. QED
    BY <1>1, <1>3, <2>1, <2>2 DEF Ordered
<1>5. Listed(new, o2)
  <2>1. 3 \in 1..n
    BY <1>1, <1>2
  <2>2. QED
    BY <1>1, <1>2, <1>3, <2>1 DEF Listed
<1>6. TokensFollow(new, 0)
  <2> SUFFICES ASSUME NEW j \in 4..Len(new), IsObject(new, j)
               PROVE  j + 2 * new[j].size <= Len(new)
    BY DEF TokensFollow
  <2>1. CASE j = n + 1
    BY <1>1, <2>1
  <2>2. CASE j # n + 1
    <3>1. j \in 4..n /\ j \in 1..n /\ j # 3
      BY <1>1, <2>2
    <3>2. IsObject(toks, j) /\ new[j].size = toks[j].size /\ toks[j].size \in Nat
      BY <1>1, <3>1 DEF IsObject
    <3>3. j + 2 * toks[j].size <= n + (IF j = 0 THEN 1 ELSE 0)
      BY <3>1, <3>2 DEF Shape, TokensFollow, n
    <3>4. QED
      BY <1>1, <3>1, <3>2, <3>3
  <2>3. QED
    BY <2>1, <2>2
<1>7. EndBeforeNext(new, o2)
  <2> SUFFICES ASSUME NEW i \in 1..Len(o2), NEW j \in 4..(o2[i] - 1),
                      IsObject(new, j)
               PROVE  j + 2 * new[j].size < o2[i]
    BY DEF EndBeforeNext
  <2>1. i \in 1..(m + 1) /\ o2[i] \in 4..(n + 1)
    BY <1>1, <1>3, <1>4 DEF Ordered
  <2>2. j \in 1..n /\ j \in 4..n /\ j # 3
    BY <1>1, <2>1
  <2>3. IsObject(toks, j) /\ new[j].size = toks[j].size /\ toks[j].size \in Nat
    BY <1>1, <2>2 DEF IsObject
  <2>4. CASE i = m + 1
    <3>1. j + 2 * toks[j].size <= n + (IF j = 0 THEN 1 ELSE 0)
      BY <2>2, <2>3 DEF Shape, TokensFollow, n
    <3>2. QED
      BY <1>1, <1>3, <2>2, <2>3, <2>4, <3>1
  <2>5. CASE i # m + 1
    <3>1. i \in 1..m /\ o2[i] = o[i]
      BY <1>3, <2>5
    <3>2. j + 2 * toks[j].size < o[i]
      BY <2>3, <3>1 DEF Shape, EndBeforeNext, m
    <3>3. QED
      BY <2>3, <3>1, <3>2
  <2>6. QED
    BY <2>4, <2>5
<1>8. QED
  BY <1>4, <1>5, <1>6, <1>7 DEF Shape, o2, n

LEMMA ClosedKeepsShape ==
  ASSUME NEW toks \in Seq(Tokens), NEW k \in 1..Len(toks), NEW end \in Nat \ {0},
         NEW new, new = WithEnd(toks, k, end),
         NEW o, NEW e, Shape(toks, o, e)
  PROVE  Shape(new, o, e)
<1>1. /\ new \in Seq(Tokens) /\ Len(new) = Len(toks)
      /\ \A j \in 1..Len(toks) : /\ new[j].type = toks[j].type
                                 /\ new[j].size = toks[j].size
  BY TokenClosed
<1>2. Ordered(new, o)
  BY <1>1 DEF Shape, Ordered
<1>3. Listed(new, o)
  BY <1>1 DEF Shape, Listed
<1>4. TokensFollow(new, e)
  <2>1. \A j \in 4..Len(toks) : j \in 1..Len(toks)
    OBVIOUS
  <2>2. QED
    BY <1>1, <2>1 DEF Shape, TokensFollow, IsObject
<1>5. EndBeforeNext(new, o)
  <2>1. \A i \in 1..Len(o) : \A j \in 4..(o[i] - 1) : j \in 1..Len(toks)
    BY DEF Shape, Ordered
  <2>2. QED
    BY <1>1, <2>1 DEF Shape, EndBeforeNext, IsObject
<1>6. QED
  BY <1>2, <1>3, <1>4, <1>5 DEF Shape

-----------------------------------------------------------------------------
(***************************************************************************)
(* What the tokens are at a place: x is the last access point, y the       *)
(* object in it that is open.                                              *)
(***************************************************************************)
OpenAt(at, x, y) ==
  IF at \in {"open", "end"} THEN {}
  ELSE IF at \in {"name", "named", "array", "close"} THEN {1}
  ELSE IF at \in {"list", "list_more"} THEN {1, 3}
  ELSE IF at \in InInner THEN {1, 3, x, y} ELSE {1, 3, x}

Expecting(at, x, y) ==
  IF at \in {"key", "value"} THEN x
  ELSE IF at \in {"inner_key", "inner_value"} THEN y ELSE 0

IsString(toks, j) == j \in 1..Len(toks) /\ toks[j].type = "STRING"

SuperAt(p, toks, super, x, y) ==
  /\ p.at = "open" => super = 0
  /\ p.at \in {"name", "named"} => super = 1
  /\ p.at = "array" => super = 2
  /\ p.at \in {"list", "list_more"} => super = 3
  /\ p.at = "ap" => super = x \/ (p.a > 0 /\ IsString(toks, super))
  /\ p.at \in {"ap_more", "key"} => super = x
  /\ p.at = "inner" => super = y \/ (p.i > 0 /\ IsString(toks, super))
  /\ p.at \in {"inner_more", "inner_key"} => super = y
  /\ p.at \in {"value", "inner_value"} => super = Len(toks)
  /\ p.at \in {"key", "value", "inner_key", "inner_value"} =>
       IsString(toks, Len(toks))

LastIn(o) == IF o = << >> THEN 0 ELSE o[Len(o)]

Built(p, toks, super, o, y) ==
  /\ toks \in Seq(Tokens)
  /\ Opened(toks) = OpenAt(p.at, LastIn(o), y)
  /\ SuperAt(p, toks, super, LastIn(o), y)
  /\ p.at = "open" => Len(toks) = 0
  /\ p.at = "name" => Len(toks) = 1
  /\ p.at \in {"named", "array"} => Len(toks) = 2
  /\ p.at \in InList => Shape(toks, o, Expecting(p.at, LastIn(o), y))
  /\ p.at \in InAp => o # << >>
  /\ p.at \in InInner => y \in (LastIn(o) + 1)..Len(toks)

(***************************************************************************)
(* The first attribute follows the bracket, the others a comma.            *)
(***************************************************************************)
FirstOrMore(p, q) ==
  /\ (p.at = "ap" /\ q.at = "key") => p.a = 0
  /\ (p.at = "inner" /\ q.at = "inner_key") => p.i = 0
  /\ q.at = "ap" => p.at \in {"list", "list_more", "inner"} \/ q.a > 0
  /\ q.at = "inner" => p.at = "value" \/ q.i > 0

LEMMA ReadsMoves ==
  ASSUME NEW d \in Docs, NEW p, NEW l, NEW q, Reads(d, p, l, q)
  PROVE  MovesSomehow(p, l, q) /\ FirstOrMore(p, q)
<1>1. MovesSomehow(p, l, q)
  BY TopMoves, ApMoves, ObjectMoves, Zenon DEF Reads
<1>2. FirstOrMore(p, q)
  <2>1. \A at, k, a, i : Place(at, k, a, i).at = at
    BY DEF Place
  <2>2. (p.at = "ap" /\ q.at = "key") => p.a = 0
    BY <2>1 DEF Reads, InTop, InAccessPoint, InObject, Start
  <2>3. (p.at = "inner" /\ q.at = "inner_key") => p.i = 0
    BY <2>1 DEF Reads, InTop, InAccessPoint, InObject, Start
  <2>4. q.at = "ap" => p.at \in {"list", "list_more", "inner", "value"}
    BY <1>1 DEF MovesSomehow, Moves
  <2>5. (p.at = "value" /\ q.at = "ap") => q.a > 0
    <3>1. (p.at = "value" /\ q.at = "ap") => q = Place("ap", p.k, p.a, 0)
      BY <2>1 DEF Reads, InTop, InAccessPoint, InObject, Start
    <3>2. p.at = "value" => p.a > 0
      BY DEF Reads, Exists
    <3>3. QED
      BY <3>1, <3>2 DEF Place
  <2>6. q.at = "inner" => p.at \in {"value", "inner_value"}
    BY <1>1 DEF MovesSomehow, Moves
  <2>7. (p.at = "inner_value" /\ q.at = "inner") => q.i > 0
    <3>1. (p.at = "inner_value" /\ q.at = "inner")
             => q = Place("inner", p.k, p.a, p.i)
      BY <2>1 DEF Reads, InTop, InAccessPoint, InObject, Start
    <3>2. p.at = "inner_value" => p.i > 0
      BY DEF Reads, Exists
    <3>3. QED
      BY <3>1, <3>2 DEF Place
  <2>8. QED
    BY <2>2, <2>3, <2>4, <2>5, <2>6, <2>7 DEF FirstOrMore
<1>3. QED
  BY <1>1, <1>2

(***************************************************************************)
(* The last access point, and the token to be closed next.                 *)
(***************************************************************************)
LEMMA LastInIs ==
  ASSUME NEW toks, NEW o, NEW e, Shape(toks, o, e), o # << >>, Len(toks) \in Nat
  PROVE  /\ LastIn(o) \in 4..Len(toks)
         /\ \A i \in 1..Len(o) : o[i] <= LastIn(o)
<1>1. /\ o \in Seq(Nat)
      /\ \A i \in 1..Len(o) : o[i] \in 4..Len(toks)
      /\ \A i \in 1..Len(o), k \in 1..Len(o) : i < k => o[i] < o[k]
  BY DEF Shape, Ordered
<1>2. Len(o) \in 1..Len(o) /\ Len(o) \in Nat
  BY <1>1
<1>3. LastIn(o) = o[Len(o)]
  BY DEF LastIn
<1>4. ASSUME NEW i \in 1..Len(o)
      PROVE  o[i] <= o[Len(o)]
  <2>1. o[i] \in 4..Len(toks)
    BY <1>1
  <2>2. CASE i = Len(o)
    BY <2>1, <2>2
  <2>3. CASE i # Len(o)
    <3>1. i < Len(o)
      BY <1>2, <2>3
    <3>2. o[i] < o[Len(o)] /\ o[Len(o)] \in 4..Len(toks)
      BY <1>1, <1>2, <3>1
    <3>3. QED
      BY <2>1, <3>2
  <2>4. QED
    BY <2>2, <2>3
<1>5. QED
  BY <1>1, <1>2, <1>3, <1>4

LEMMA LastOpenAt ==
  ASSUME NEW p, NEW toks, NEW super, NEW o, NEW y, Built(p, toks, super, o, y)
  PROVE  /\ p.at \in {"name", "named", "array", "close"} => LastOpen(toks) = 1
         /\ p.at \in {"list", "list_more"} => LastOpen(toks) = 3
         /\ p.at \in InAp \ InInner => LastOpen(toks) = LastIn(o)
         /\ p.at \in InInner => LastOpen(toks) = y
<1>1. toks \in Seq(Tokens) /\ Len(toks) \in Nat
      /\ Opened(toks) = OpenAt(p.at, LastIn(o), y)
  BY DEF Built
<1>2. ASSUME p.at \in {"name", "named", "array", "close"}
      PROVE  LastOpen(toks) = 1
  <2>1. Opened(toks) = {1}
    BY <1>1, <1>2 DEF OpenAt
  <2>2. 1 \in Opened(toks) /\ \A k \in Opened(toks) : k <= 1
    BY <1>1, <2>1
  <2>3. QED
    BY <1>1, <2>2, LastIsOpen
<1>3. ASSUME p.at \in {"list", "list_more"}
      PROVE  LastOpen(toks) = 3
  <2>1. Opened(toks) = {1, 3}
    BY <1>1, <1>3 DEF OpenAt
  <2>2. 3 \in Opened(toks) /\ \A k \in Opened(toks) : k <= 3
    BY <1>1, <2>1
  <2>3. QED
    BY <1>1, <2>2, LastIsOpen
<1>4. ASSUME p.at \in InAp
      PROVE  LastIn(o) \in 4..Len(toks)
  BY <1>1, <1>4, LastInIs DEF Built, InList
<1>5. ASSUME p.at \in InAp \ InInner
      PROVE  LastOpen(toks) = LastIn(o)
  <2>1. Opened(toks) = {1, 3, LastIn(o)}
    BY <1>1, <1>5 DEF OpenAt, InAp, InInner
  <2>2. LastIn(o) \in Opened(toks) /\ \A k \in Opened(toks) : k <= LastIn(o)
    BY <1>1, <1>4, <1>5, <2>1
  <2>3. QED
    BY <1>1, <2>2, LastIsOpen
<1>6. ASSUME p.at \in InInner
      PROVE  LastOpen(toks) = y
  <2>1. Opened(toks) = {1, 3, LastIn(o), y}
    BY <1>1, <1>6 DEF OpenAt, InInner
  <2>2. LastIn(o) \in 4..Len(toks) /\ y \in (LastIn(o) + 1)..Len(toks)
    BY <1>4, <1>6 DEF Built, InAp
  <2>3. y \in Opened(toks) /\ \A k \in Opened(toks) : k <= y
    BY <1>1, <2>1, <2>2
  <2>4. QED
    BY <1>1, <2>3, LastIsOpen
<1>7. QED
  BY <1>2, <1>3, <1>5, <1>6

(***************************************************************************)
(* The steps from place to place.  A bracket is opened.                    *)
(***************************************************************************)
ListAfter(q, o, n) ==
  IF q.at = "ap" THEN Append(o, n + 1) ELSE IF q.at = "list" THEN << >> ELSE o

LEMMA OpenedBuilt ==
  ASSUME NEW p, NEW l, NEW q, MovesSomehow(p, l, q), FirstOrMore(p, q),
         NEW toks, NEW super, NEW o, NEW y, Built(p, toks, super, o, y),
         NEW token, NEW new, Added(toks, super, token, new), token.end = 0,
         l.lex \in {"lbrace", "lbracket"}, token.type = TypeOfMark(l.lex)
  PROVE  \E y2 : Built(q, new, Len(toks) + 1, ListAfter(q, o, Len(toks)), y2)
<1> DEFINE n == Len(toks)
           x == LastIn(o)
<1>1. /\ toks \in Seq(Tokens) /\ n \in Nat
      /\ Opened(toks) = OpenAt(p.at, x, y)
      /\ SuperAt(p, toks, super, x, y)
  BY DEF Built
<1>2. /\ new \in Seq(Tokens) /\ Len(new) = n + 1
      /\ Opened(new) = Opened(toks) \cup {n + 1}
      /\ new[n + 1].type = token.type /\ new[n + 1].size = 0
      /\ \A j \in 1..n : new[j].type = toks[j].type
  BY TokenAdded, AddedIs
<1>3. CASE Moves(p, l, q, {"open"}, {"lbrace"}, "name")
  <2>1. p.at = "open" /\ q.at = "name"
    BY <1>3 DEF Moves
  <2>2. n = 0 /\ Opened(new) = {1}
    BY <1>1, <1>2, <2>1 DEF Built, OpenAt
  <2>3. Built(q, new, n + 1, o, y)
    BY <1>2, <2>1, <2>2
       DEF Built, OpenAt, SuperAt, InList, InAp, InInner
  <2>4. QED
    BY <2>1, <2>3 DEF ListAfter
<1>4. CASE Moves(p, l, q, {"array"}, {"lbracket"}, "list")
  <2>1. p.at = "array" /\ q.at = "list" /\ l.lex = "lbracket"
    BY <1>4 DEF Moves
  <2>2. n = 2 /\ Opened(toks) = {1} /\ token.type = "ARRAY"
    BY <1>1, <2>1 DEF Built, OpenAt, TypeOfMark
  <2>3. n = 2 /\ Opened(new) = {1, 3} /\ new[3].type = "ARRAY" /\ new[3].size = 0
    BY <1>2, <2>2
  <2>4. Shape(new, << >>, 0)
    <3>1. << >> \in Seq(Nat) /\ Len(<< >>) = 0 /\ 1..0 = {}
      OBVIOUS
    <3>2. 4..Len(new) = {} /\ Len(new) = 3
      BY <1>2, <2>3
    <3>3. Ordered(new, << >>)
      BY <3>1 DEF Ordered
    <3>4. Listed(new, << >>)
      BY <2>3, <3>1, <3>2 DEF Listed
    <3>5. TokensFollow(new, 0)
      BY <3>2 DEF TokensFollow
    <3>6. EndBeforeNext(new, << >>)
      BY <3>1 DEF EndBeforeNext
    <3>7. QED
      BY <3>3, <3>4, <3>5, <3>6 DEF Shape
  <2>5. Built(q, new, n + 1, << >>, y)
    BY <1>2, <2>1, <2>3, <2>4
       DEF Built, OpenAt, SuperAt, Expecting, InList, InAp, InInner
  <2>6. QED
    BY <2>1, <2>5 DEF ListAfter
<1>5. CASE Moves(p, l, q, {"list", "list_more"}, {"lbrace"}, "ap")
  <2>1. p.at \in {"list", "list_more"} /\ q.at = "ap"
    BY <1>5 DEF Moves
  <2>2. Shape(toks, o, 0) /\ super = 3 /\ Opened(new) = {1, 3, n + 1}
    BY <1>1, <1>2, <2>1
       DEF Built, OpenAt, SuperAt, Expecting, InList, InAp, InInner
  <2> DEFINE o2 == Append(o, n + 1)
  <2>3. Shape(new, o2, 0)
    BY <2>2, AccessPointAdded
  <2>4. o \in Seq(Nat)
    BY <2>2 DEF Shape, Ordered
  <2>5. Len(o2) = Len(o) + 1 /\ o2[Len(o) + 1] = n + 1 /\ Len(o) \in Nat
    BY <1>1, <2>4
  <2> HIDE DEF o2
  <2>6. o2 # << >> /\ LastIn(o2) = n + 1
    <3>1. o2 # << >>
      BY <2>5
    <3>2. QED
      BY <2>5, <3>1 DEF LastIn
  <2>7. Built(q, new, n + 1, o2, y)
    BY <1>2, <2>1, <2>2, <2>3, <2>6
       DEF Built, OpenAt, SuperAt, Expecting, InList, InAp, InInner
  <2>8. QED
    BY <2>1, <2>7 DEF ListAfter, o2
<1>6. CASE Moves(p, l, q, {"value"}, {"lbrace"}, "inner")
  <2>1. p.at = "value" /\ q.at = "inner"
    BY <1>6 DEF Moves
  <2>2. /\ Shape(toks, o, x) /\ super = n /\ IsString(toks, n) /\ o # << >>
        /\ Opened(new) = {1, 3, x, n + 1}
    BY <1>1, <1>2, <2>1
       DEF Built, OpenAt, SuperAt, Expecting, InList, InAp, InInner
  <2>3. Shape(new, o, 0)
    BY <2>2, ValueAdded DEF IsString
  <2>4. x \in 4..n
    BY <1>1, <2>2, LastInIs
  <2>5. n + 1 \in (x + 1)..(n + 1)
    BY <1>1, <2>4
  <2>6. Built(q, new, n + 1, o, n + 1)
    BY <1>2, <2>1, <2>2, <2>3, <2>5
       DEF Built, OpenAt, SuperAt, Expecting, InList, InAp, InInner
  <2>7. QED
    BY <2>1, <2>6 DEF ListAfter
<1>7. QED
  BY <1>3, <1>4, <1>5, <1>6 DEF MovesSomehow, Moves

(***************************************************************************)
(* A string or a primitive is put.                                         *)
(***************************************************************************)
LEMMA PutBuilt ==
  ASSUME NEW p, NEW l, NEW q, MovesSomehow(p, l, q), FirstOrMore(p, q),
         NEW toks, NEW super, NEW o, NEW y, Built(p, toks, super, o, y),
         NEW token, NEW new, Added(toks, super, token, new), token.end # 0,
         l.lex \in {"str", "prim"},
         token.type = IF l.lex = "str" THEN "STRING" ELSE "PRIMITIVE"
  PROVE  Built(q, new, super, o, y)
<1> DEFINE n == Len(toks)
           x == LastIn(o)
<1>1. /\ toks \in Seq(Tokens) /\ n \in Nat
      /\ Opened(toks) = OpenAt(p.at, x, y)
      /\ SuperAt(p, toks, super, x, y)
  BY DEF Built
<1>2. /\ new \in Seq(Tokens) /\ Len(new) = n + 1
      /\ Opened(new) = Opened(toks)
      /\ new[n + 1].type = token.type
      /\ \A j \in 1..n : new[j].type = toks[j].type
  BY TokenAdded, AddedIs
<1>3. CASE Moves(p, l, q, {"name"}, {"str"}, "named")
  <2>1. p.at = "name" /\ q.at = "named"
    BY <1>3 DEF Moves
  <2>2. n = 1 /\ Opened(new) = {1} /\ super = 1
    BY <1>1, <1>2, <2>1 DEF Built, OpenAt, SuperAt
  <2>3. QED
    BY <1>2, <2>1, <2>2
       DEF Built, OpenAt, SuperAt, InList, InAp, InInner
<1>4. CASE Moves(p, l, q, {"ap", "ap_more"}, {"str"}, "key")
  <2>1. p.at \in {"ap", "ap_more"} /\ q.at = "key" /\ l.lex = "str"
        /\ (p.at = "ap" => p.a = 0)
    BY <1>4 DEF Moves, FirstOrMore
  <2>2. Shape(toks, o, 0) /\ super = x /\ Opened(new) = {1, 3, x} /\ o # << >>
    BY <1>1, <1>2, <2>1
       DEF Built, OpenAt, SuperAt, Expecting, InList, InAp, InInner
  <2>3. x \in 4..n /\ \A i \in 1..Len(o) : o[i] <= x
    BY <1>1, <2>2, LastInIs
  <2>4. Shape(new, o, x)
    BY <2>1, <2>2, <2>3, KeyAdded
  <2>5. IsString(new, n + 1)
    BY <1>1, <1>2, <2>1 DEF IsString
  <2>6. QED
    BY <1>2, <2>1, <2>2, <2>4, <2>5
       DEF Built, OpenAt, SuperAt, Expecting, InList, InAp, InInner
<1>5. CASE Moves(p, l, q, {"value"}, {"str", "prim"}, "ap")
  <2>1. p.at = "value" /\ q.at = "ap" /\ q.a > 0
    BY <1>5 DEF Moves, FirstOrMore
  <2>2. /\ Shape(toks, o, x) /\ super = n /\ IsString(toks, n) /\ o # << >>
        /\ Opened(new) = {1, 3, x}
    BY <1>1, <1>2, <2>1
       DEF Built, OpenAt, SuperAt, Expecting, InList, InAp, InInner
  <2>3. Shape(new, o, 0)
    BY <2>2, ValueAdded DEF IsString
  <2>4. IsString(new, super)
    BY <1>1, <1>2, <2>2 DEF IsString
  <2>5. QED
    BY <1>2, <2>1, <2>2, <2>3, <2>4
       DEF Built, OpenAt, SuperAt, Expecting, InList, InAp, InInner
<1>6. CASE Moves(p, l, q, {"inner", "inner_more"}, {"str"}, "inner_key")
  <2>1. p.at \in {"inner", "inner_more"} /\ q.at = "inner_key" /\ l.lex = "str"
        /\ (p.at = "inner" => p.i = 0)
    BY <1>6 DEF Moves, FirstOrMore
  <2>2. /\ Shape(toks, o, 0) /\ super = y /\ Opened(new) = {1, 3, x, y}
        /\ o # << >> /\ y \in (x + 1)..n
    BY <1>1, <1>2, <2>1
       DEF Built, OpenAt, SuperAt, Expecting, InList, InAp, InInner
  <2>3. x \in 4..n /\ \A i \in 1..Len(o) : o[i] <= x
    BY <1>1, <2>2, LastInIs
  <2>4. y \in 4..n /\ y \in (x + 1)..(n + 1)
    BY <2>2, <2>3
  <2>5. ASSUME NEW i \in 1..Len(o)
        PROVE  o[i] <= y
    <3>1. o[i] <= x /\ o[i] \in Nat
      BY <2>2, <2>3 DEF Shape, Ordered
    <3>2. QED
      BY <2>2, <2>3, <3>1
  <2>6. Shape(new, o, y)
    BY <2>1, <2>2, <2>4, <2>5, KeyAdded
  <2>7. IsString(new, n + 1)
    BY <1>1, <1>2, <2>1 DEF IsString
  <2>8. QED
    BY <1>2, <2>1, <2>2, <2>4, <2>6, <2>7
       DEF Built, OpenAt, SuperAt, Expecting, InList, InAp, InInner
<1>7. CASE Moves(p, l, q, {"inner_value"}, {"str", "prim"}, "inner")
  <2>1. p.at = "inner_value" /\ q.at = "inner" /\ q.i > 0
    BY <1>7 DEF Moves, FirstOrMore
  <2>2. /\ Shape(toks, o, y) /\ super = n /\ IsString(toks, n) /\ o # << >>
        /\ Opened(new) = {1, 3, x, y} /\ y \in (x + 1)..n
    BY <1>1, <1>2, <2>1
       DEF Built, OpenAt, SuperAt, Expecting, InList, InAp, InInner
  <2>3. Shape(new, o, 0)
    BY <2>2, ValueAdded DEF IsString
  <2>4. IsString(new, super)
    BY <1>1, <1>2, <2>2 DEF IsString
  <2>5. x \in 4..n
    BY <1>1, <2>2, LastInIs
  <2>6. y \in (x + 1)..(n + 1)
    BY <2>2, <2>5
  <2>7. QED
    BY <1>2, <2>1, <2>2, <2>3, <2>4, <2>6
       DEF Built, OpenAt, SuperAt, Expecting, InList, InAp, InInner
<1>8. QED
  BY <1>3, <1>4, <1>5, <1>6, <1>7 DEF MovesSomehow, Moves

(***************************************************************************)
(* A bracket is closed.                                                    *)
(***************************************************************************)
LEMMA ClosedBuilt ==
  ASSUME NEW p, NEW l, NEW q, MovesSomehow(p, l, q),
         NEW toks, NEW super, NEW o, NEW y, Built(p, toks, super, o, y),
         NEW end \in Nat \ {0}, NEW new, new = WithEnd(toks, LastOpen(toks), end),
         l.lex \in {"rbrace", "rbracket"}
  PROVE  Built(q, new, LastOpen(new), o, y)
<1> DEFINE n == Len(toks)
           x == LastIn(o)
           last == LastOpen(toks)
<1>1. /\ toks \in Seq(Tokens) /\ n \in Nat
      /\ Opened(toks) = OpenAt(p.at, x, y)
  BY DEF Built
<1>2. ASSUME last # 0
      PROVE  /\ last \in 1..n /\ new \in Seq(Tokens) /\ Len(new) = n
             /\ Opened(new) = Opened(toks) \ {last}
             /\ \A e : Shape(toks, o, e) => Shape(new, o, e)
  <2>1. last \in 1..n
    BY <1>1, <1>2, LastOpenIs
  <2>2. QED
    BY <1>1, <2>1, TokenClosed, ClosedKeepsShape
<1>3. CASE Moves(p, l, q, {"list"}, {"rbracket"}, "close")
  <2>1. p.at = "list" /\ q.at = "close"
    BY <1>3 DEF Moves
  <2>2. Opened(toks) = {1, 3} /\ last = 3 /\ Shape(toks, o, 0)
    BY <1>1, <2>1, LastOpenAt DEF Built, OpenAt, Expecting, InList, InAp, InInner
  <2>3. Opened(new) = {1} /\ new \in Seq(Tokens)
    BY <1>2, <2>2
  <2>4. QED
    BY <1>2, <2>1, <2>2, <2>3
       DEF Built, OpenAt, SuperAt, Expecting, InList, InAp, InInner
<1>4. CASE Moves(p, l, q, {"close"}, {"rbrace"}, "end")
  <2>1. p.at = "close" /\ q.at = "end"
    BY <1>4 DEF Moves
  <2>2. Opened(toks) = {1} /\ last = 1 /\ Shape(toks, o, 0)
    BY <1>1, <2>1, LastOpenAt DEF Built, OpenAt, Expecting, InList, InAp, InInner
  <2>3. Opened(new) = {}
    BY <1>2, <2>2
  <2>4. QED
    BY <1>2, <2>1, <2>2, <2>3
       DEF Built, OpenAt, SuperAt, Expecting, InList, InAp, InInner
<1>5. CASE Moves(p, l, q, {"ap"}, {"rbrace"}, "list")
  <2>1. p.at = "ap" /\ q.at = "list"
    BY <1>5 DEF Moves
  <2>2. Opened(toks) = {1, 3, x} /\ last = x /\ Shape(toks, o, 0) /\ o # << >>
    BY <1>1, <2>1, LastOpenAt DEF Built, OpenAt, Expecting, InList, InAp, InInner
  <2>3. x \in 4..n
    BY <1>1, <2>2, LastInIs
  <2>4. Opened(new) = {1, 3} /\ new \in Seq(Tokens)
    BY <1>2, <2>2, <2>3
  <2>5. 3 \in Opened(new) /\ \A k \in Opened(new) : k <= 3
    BY <2>4
  <2>6. LastOpen(new) = 3
    BY <2>4, <2>5, LastIsOpen
  <2>7. QED
    BY <1>2, <2>1, <2>2, <2>3, <2>4, <2>6
       DEF Built, OpenAt, SuperAt, Expecting, InList, InAp, InInner
<1>6. CASE Moves(p, l, q, {"inner"}, {"rbrace"}, "ap")
  <2>1. p.at = "inner" /\ q.at = "ap"
    BY <1>6 DEF Moves
  <2>2. /\ Opened(toks) = {1, 3, x, y} /\ last = y /\ Shape(toks, o, 0)
        /\ o # << >> /\ y \in (x + 1)..n
    BY <1>1, <2>1, LastOpenAt DEF Built, OpenAt, Expecting, InList, InAp, InInner
  <2>3. x \in 4..n /\ y \in Nat /\ y > x /\ y # 0
    BY <1>1, <2>2, LastInIs
  <2>4. Opened(new) = {1, 3, x} /\ new \in Seq(Tokens)
    BY <1>2, <2>2, <2>3
  <2>5. x \in Opened(new) /\ \A k \in Opened(new) : k <= x
    BY <2>3, <2>4
  <2>6. LastOpen(new) = x
    BY <2>4, <2>5, LastIsOpen
  <2>7. QED
    BY <1>2, <2>1, <2>2, <2>3, <2>4, <2>6
       DEF Built, OpenAt, SuperAt, Expecting, InList, InAp, InInner
<1>7. QED
  BY <1>3, <1>4, <1>5, <1>6 DEF MovesSomehow, Moves

(***************************************************************************)
(* A colon or a comma is passed.                                           *)
(***************************************************************************)
LEMMA ColonBuilt ==
  ASSUME NEW p, NEW l, NEW q, MovesSomehow(p, l, q),
         NEW toks, NEW super, NEW o, NEW y, Built(p, toks, super, o, y),
         l.lex = "colon"
  PROVE  Built(q, toks, Len(toks), o, y)
<1>1. CASE Moves(p, l, q, {"named"}, {"colon"}, "array")
  <2>1. p.at = "named" /\ q.at = "array"
    BY <1>1 DEF Moves
  <2>2. QED
    BY <2>1 DEF Built, OpenAt, SuperAt, Expecting, InList, InAp, InInner
<1>2. CASE Moves(p, l, q, {"key"}, {"colon"}, "value")
  <2>1. p.at = "key" /\ q.at = "value"
    BY <1>2 DEF Moves
  <2>2. QED
    BY <2>1 DEF Built, OpenAt, SuperAt, Expecting, InList, InAp, InInner
<1>3. CASE Moves(p, l, q, {"inner_key"}, {"colon"}, "inner_value")
  <2>1. p.at = "inner_key" /\ q.at = "inner_value"
    BY <1>3 DEF Moves
  <2>2. QED
    BY <2>1 DEF Built, OpenAt, SuperAt, Expecting, InList, InAp, InInner
<1>4. QED
  BY <1>1, <1>2, <1>3 DEF MovesSomehow, Moves

LEMMA CommaBuilt ==
  ASSUME NEW p, NEW l, NEW q, MovesSomehow(p, l, q),
         NEW toks, NEW super, NEW o, NEW y, Built(p, toks, super, o, y),
         l.lex = "comma", NEW next,
         next = IF /\ super # 0
                   /\ toks[super].type \notin {"ARRAY", "OBJECT"}
                   /\ LastOpen(toks) # 0
                  THEN LastOpen(toks) ELSE super
  PROVE  Built(q, toks, next, o, y)
<1> DEFINE x == LastIn(o)
<1>0. toks \in Seq(Tokens) /\ Len(toks) \in Nat
  BY DEF Built
<1>1. CASE Moves(p, l, q, {"list"}, {"comma"}, "list_more")
  <2>1. p.at = "list" /\ q.at = "list_more"
    BY <1>1 DEF Moves
  <2>2. LastOpen(toks) = 3
    BY <2>1, LastOpenAt
  <2>3. super = 3 /\ LastOpen(toks) = 3
    BY <2>1, <2>2 DEF Built, SuperAt
  <2>4. next = 3
    BY <2>3
  <2>5. QED
    BY <2>1, <2>4 DEF Built, OpenAt, SuperAt, Expecting, InList, InAp, InInner
<1>2. CASE Moves(p, l, q, {"ap"}, {"comma"}, "ap_more")
  <2>1. p.at = "ap" /\ q.at = "ap_more"
    BY <1>2 DEF Moves
  <2>2. LastOpen(toks) = x /\ o # << >> /\ Shape(toks, o, 0)
    BY <2>1, LastOpenAt DEF Built, Expecting, InList, InAp, InInner
  <2>3. super = x \/ (super \in 1..Len(toks) /\ toks[super].type = "STRING")
    BY <2>1 DEF Built, SuperAt, IsString
  <2>4. x \in 4..Len(toks)
    BY <1>0, <2>2, LastInIs
  <2>5. next = x
    BY <2>2, <2>3, <2>4
  <2>6. QED
    BY <2>1, <2>5 DEF Built, OpenAt, SuperAt, Expecting, InList, InAp, InInner
<1>3. CASE Moves(p, l, q, {"inner"}, {"comma"}, "inner_more")
  <2>1. p.at = "inner" /\ q.at = "inner_more"
    BY <1>3 DEF Moves
  <2>2. /\ LastOpen(toks) = y /\ o # << >> /\ Shape(toks, o, 0)
        /\ y \in (x + 1)..Len(toks)
    BY <2>1, LastOpenAt DEF Built, Expecting, InList, InAp, InInner
  <2>3. super = y \/ (super \in 1..Len(toks) /\ toks[super].type = "STRING")
    BY <2>1 DEF Built, SuperAt, IsString
  <2>4. x \in 4..Len(toks)
    BY <1>0, <2>2, LastInIs
  <2>5. y # 0
    BY <2>2, <2>4
  <2>6. next = y
    BY <2>2, <2>3, <2>5
  <2>7. QED
    BY <2>1, <2>6 DEF Built, OpenAt, SuperAt, Expecting, InList, InAp, InInner
<1>4. QED
  BY <1>1, <1>2, <1>3 DEF MovesSomehow, Moves

-----------------------------------------------------------------------------
(***************************************************************************)
(* Where the walk stands: before the access point that comes next, or      *)
(* within what an object up to it has behind it.                           *)
(***************************************************************************)
NextIn(o) == IF ap_n < Len(o) THEN o[ap_n + 1] ELSE Len(tokens) + 1

InObjectAt(j) ==
  /\ IsObject(tokens, j) /\ number_of_attributes = tokens[j].size
  /\ attribute \in 0..number_of_attributes
  /\ current_token \in j..(j + 2 * attribute)

Walks(o) ==
  /\ pc \in {"start", "jsmn_parse", "check"} => ap_n = 0
  /\ pc = "next" => /\ ap_n \in 0..Len(o) /\ current_token \in Nat
                    /\ current_token >= 3 /\ current_token < NextIn(o)
  /\ pc = "attributes" => /\ ap_n \in 0..(Len(o) - 1)
                          /\ \E j \in 4..o[ap_n + 1] : InObjectAt(j)

Structured ==
  /\ pc \in {"check", "next", "attributes"} => pos = Len(text) + 1
  /\ pc = "start" => tokens = << >> /\ toksuper = 0 /\ pos = 1
  /\ Whole => \E f : /\ IsRun(f, doc, text, Start, End(doc))
                     /\ pc # "returned" =>
                          \E o, y : /\ Built(f[pos], tokens, toksuper, o, y)
                                    /\ Walks(o)

LEMMA StructuredStarts == Init => Structured
<1> SUFFICES ASSUME Init PROVE Structured
  OBVIOUS
<1>1. /\ doc \in Docs /\ pc = "start" /\ pos = 1 /\ tokens = << >>
      /\ toksuper = 0 /\ ap_n = 0
  BY DEF Init
<1>2. ASSUME Whole
      PROVE  \E f : /\ IsRun(f, doc, text, Start, End(doc))
                    /\ \E o, y : Built(f[pos], tokens, toksuper, o, y) /\ Walks(o)
  <2>1. PICK f : IsRun(f, doc, text, Start, End(doc))
    BY <1>1, <1>2, TextLeads DEF Leads, Whole
  <2>2. f[pos] = Start
    BY <1>1, <2>1 DEF IsRun
  <2>3. Start.at = "open"
    BY DEF Start, Place
  <2>4. << >> \in Seq(Tokens) /\ Len(<< >>) = 0 /\ Opened(<< >>) = {}
    BY DEF Opened
  <2>5. Built(f[pos], tokens, toksuper, << >>, 0)
    BY <1>1, <2>2, <2>3, <2>4
       DEF Built, OpenAt, SuperAt, InList, InAp, InInner
  <2>6. Walks(<< >>)
    BY <1>1 DEF Walks
  <2>7. QED
    BY <2>1, <2>5, <2>6
<1>3. QED
  BY <1>1, <1>2 DEF Structured

(***************************************************************************)
(* The steps over a lexeme.                                                *)
(***************************************************************************)
LEMMA LexemeBuilt ==
  ASSUME Parsing, NEW f, IsRun(f, doc, text, Start, End(doc)),
         NEW o, NEW y, Built(f[pos], tokens, toksuper, o, y),
         OpeningBracket \/ ClosingBracket \/ StringOrPrimitive \/ Colon \/ Comma
  PROVE  \/ Fails
         \/ /\ Goes
            /\ \E o2, y2 :
                 /\ Built(f[pos'], tokens', toksuper', o2, y2)
                 /\ o2 = IF text[pos].lex \in {"lbrace", "lbracket"}
                           THEN ListAfter(f[pos'], o, Len(tokens)) ELSE o
<1> DEFINE p == f[pos]
           l == text[pos]
           q == f[pos + 1]
<1>1. ASSUME pos \in 1..Len(text)
      PROVE  MovesSomehow(p, l, q) /\ FirstOrMore(p, q)
  <2>1. Reads(doc, f[pos], text[pos], f[pos + 1])
    BY <1>1 DEF IsRun
  <2>2. doc \in Docs
    BY DEF Parsing
  <2>3. QED
    BY <2>1, <2>2, ReadsMoves
<1>2. Built(p, tokens, toksuper, o, y)
  OBVIOUS
<1>3. (Goes => f[pos'] = q) /\ l = text[pos]
  BY DEF Goes
<1> HIDE DEF p, l, q
<1>4. CASE OpeningBracket
  <2>1. /\ pos \in 1..Len(text) /\ l.lex \in {"lbrace", "lbracket"}
        /\ \/ Fails
           \/ Goes /\ \E token : /\ Adds(token, Len(tokens) + 1)
                                 /\ token.end = 0
                                 /\ token.type = TypeOfMark(l.lex)
    BY <1>4, Opens DEF l
  <2>2. ASSUME Goes, NEW token, Adds(token, Len(tokens) + 1), token.end = 0,
               token.type = TypeOfMark(l.lex)
        PROVE  \E y2 : Built(q, tokens', toksuper', ListAfter(q, o, Len(tokens)), y2)
    <3>1. Added(tokens, toksuper, token, tokens') /\ toksuper' = Len(tokens) + 1
      BY <2>2 DEF Parsing, Adds, Added
    <3>2. MovesSomehow(p, l, q) /\ FirstOrMore(p, q)
      BY <1>1, <2>1
    <3>3. \E y2 : Built(q, tokens', Len(tokens) + 1,
                        ListAfter(q, o, Len(tokens)), y2)
      BY <1>2, <2>1, <2>2, <3>1, <3>2, OpenedBuilt
    <3>4. QED
      BY <3>1, <3>3
  <2>3. QED
    BY <1>3, <2>1, <2>2
<1>5. CASE ClosingBracket
  <2>1. /\ \/ Fails
           \/ Goes /\ tokens' = WithEnd(tokens, LastOpen(tokens), pos + 1)
                   /\ toksuper' = LastOpen(tokens')
        /\ pos \in 1..Len(text) /\ l.lex \in {"rbrace", "rbracket"}
    BY <1>5, Closes DEF l
  <2>2. ASSUME Goes, tokens' = WithEnd(tokens, LastOpen(tokens), pos + 1),
               toksuper' = LastOpen(tokens')
        PROVE  Built(q, tokens', toksuper', o, y)
    <3>1. pos + 1 \in Nat \ {0}
      BY <2>1
    <3>2. MovesSomehow(p, l, q)
      BY <1>1, <2>1
    <3>3. Built(q, tokens', LastOpen(tokens'), o, y)
      BY <1>2, <2>1, <2>2, <3>1, <3>2, ClosedBuilt
    <3>4. QED
      BY <2>2, <3>3
  <2>3. QED
    BY <1>3, <2>1, <2>2
<1>6. CASE StringOrPrimitive
  <2>1. /\ pos \in 1..Len(text) /\ l.lex \in {"str", "prim"}
        /\ \/ Fails
           \/ Goes /\ \E token : /\ Adds(token, toksuper) /\ token.end # 0
                                 /\ token.type = IF l.lex = "str"
                                                   THEN "STRING" ELSE "PRIMITIVE"
    BY <1>6, Puts DEF l
  <2>2. ASSUME Goes, NEW token, Adds(token, toksuper), token.end # 0,
               token.type = IF l.lex = "str" THEN "STRING" ELSE "PRIMITIVE"
        PROVE  Built(q, tokens', toksuper', o, y)
    <3>1. Added(tokens, toksuper, token, tokens') /\ toksuper' = toksuper
      BY <2>2 DEF Parsing, Adds, Added
    <3>2. MovesSomehow(p, l, q) /\ FirstOrMore(p, q)
      BY <1>1, <2>1
    <3>3. Built(q, tokens', toksuper, o, y)
      BY <1>2, <2>1, <2>2, <3>1, <3>2, PutBuilt
    <3>4. QED
      BY <3>1, <3>3
  <2>3. QED
    BY <1>3, <2>1, <2>2
<1>7. CASE Colon
  <2>1. Goes /\ l.lex = "colon" /\ tokens' = tokens /\ toksuper' = Len(tokens)
        /\ pos \in 1..Len(text)
    <3>1. Colon \/ Comma
      BY <1>7
    <3>2. Goes /\ pos \in 1..Len(text)
      BY <3>1, Passes DEF Goes
    <3>3. QED
      BY <1>7, <3>2 DEF Colon, AtLexeme, l
  <2>2. MovesSomehow(p, l, q)
    BY <1>1, <2>1
  <2>3. Built(q, tokens, Len(tokens), o, y)
    BY <1>2, <2>1, <2>2, ColonBuilt
  <2>4. QED
    BY <1>3, <2>1, <2>3
<1>8. CASE Comma
  <2>1. Goes /\ l.lex = "comma" /\ tokens' = tokens /\ pos \in 1..Len(text)
    <3>1. Colon \/ Comma
      BY <1>8
    <3>2. Goes /\ pos \in 1..Len(text)
      BY <3>1, Passes DEF Goes
    <3>3. QED
      BY <1>8, <3>2 DEF Comma, AtLexeme, l
  <2>2. toksuper' = IF /\ toksuper # 0
                       /\ tokens[toksuper].type \notin {"ARRAY", "OBJECT"}
                       /\ LastOpen(tokens) # 0
                      THEN LastOpen(tokens) ELSE toksuper
    BY <1>8 DEF Comma
  <2>3. MovesSomehow(p, l, q)
    BY <1>1, <2>1
  <2>4. Built(q, tokens, toksuper', o, y)
    BY <1>2, <2>1, <2>2, <2>3, CommaBuilt
  <2>5. QED
    BY <1>3, <2>1, <2>4
<1>9. QED
  BY <1>4, <1>5, <1>6, <1>7, <1>8

(***************************************************************************)
(* The steps of the walk.                                                  *)
(***************************************************************************)
Finished(o) ==
  /\ tokens \in Seq(Tokens) /\ Len(tokens) \in Nat /\ Shape(tokens, o, 0)

LEMMA FinishedIs ==
  ASSUME NEW p, p.at = "end", NEW o, NEW y, Built(p, tokens, toksuper, o, y)
  PROVE  Finished(o)
BY DEF Built, Expecting, InList, Finished

LEMMA ObjectIs ==
  ASSUME NEW o, Finished(o), NEW j \in 4..Len(tokens), InObjectAt(j)
  PROVE  /\ attribute \in Nat /\ number_of_attributes \in Nat
         /\ attribute <= number_of_attributes
         /\ current_token \in Nat /\ current_token <= j + 2 * attribute
         /\ j + 2 * number_of_attributes <= Len(tokens)
         /\ \A i \in 1..Len(o) :
              j < o[i] => j + 2 * number_of_attributes < o[i]
<1>1. /\ IsObject(tokens, j) /\ number_of_attributes = tokens[j].size
      /\ attribute \in 0..number_of_attributes
      /\ current_token \in j..(j + 2 * attribute)
  BY DEF InObjectAt
<1>2. tokens[j].size \in Nat
  <2>1. tokens[j] \in Tokens
    BY DEF Finished
  <2>2. QED
    BY <2>1 DEF Tokens
<1>3. j + 2 * tokens[j].size <= Len(tokens)
  <2>1. j + 2 * tokens[j].size <= Len(tokens) + (IF j = 0 THEN 1 ELSE 0)
    BY <1>1 DEF Finished, Shape, TokensFollow
  <2>2. QED
    BY <2>1 DEF Finished
<1>4. ASSUME NEW i \in 1..Len(o), j < o[i]
      PROVE  j + 2 * tokens[j].size < o[i]
  <2>1. o[i] \in Nat
    BY DEF Finished, Shape, Ordered
  <2>2. j \in 4..(o[i] - 1)
    BY <1>4, <2>1
  <2>3. QED
    BY <1>1, <2>2 DEF Finished, Shape, EndBeforeNext
<1>5. QED
  BY <1>1, <1>2, <1>3, <1>4

LEMMA ListIs ==
  ASSUME NEW o, Finished(o)
  PROVE  /\ o \in Seq(Nat) /\ Len(o) \in Nat
         /\ \A i \in 1..Len(o) : o[i] \in 4..Len(tokens)
         /\ \A i \in 1..Len(o), k \in 1..Len(o) : i < k => o[i] < o[k]
         /\ Len(tokens) >= 3 /\ tokens[3].size = Len(o)
BY DEF Finished, Shape, Ordered, Listed

LEMMA WalkStays ==
  ASSUME NEW o, Finished(o), Walks(o), UNCHANGED <<input, jsmn>>,
         CheckTop \/ NextAccessPoint \/ NextAttribute \/ AddAccessPoint \/ ReturnMap
  PROVE  pc' \in {"next", "attributes", "returned"} /\ Walks(o)'
<1> DEFINE n == Len(tokens)
<1>0. /\ o \in Seq(Nat) /\ Len(o) \in Nat /\ n \in Nat
      /\ \A i \in 1..Len(o) : o[i] \in 4..n
      /\ \A i \in 1..Len(o), k \in 1..Len(o) : i < k => o[i] < o[k]
      /\ n >= 3 /\ tokens[3].size = Len(o) /\ tokens' = tokens
  BY ListIs DEF Finished, jsmn
<1>1. CASE pc' = "returned"
  BY <1>1 DEF Walks
<1>2. CASE CheckTop /\ pc' # "returned"
  <2>1. pc' = "next" /\ current_token' = 3 /\ ap_n' = ap_n /\ pc = "check"
    BY <1>2 DEF CheckTop, Return
  <2>2. ap_n = 0
    BY <2>1 DEF Walks
  <2>3. 3 < NextIn(o)'
    <3>1. CASE Len(o) = 0
      BY <1>0, <2>1, <2>2, <3>1 DEF NextIn
    <3>2. CASE Len(o) # 0
      <4>1. 0 < Len(o) /\ 0 + 1 \in 1..Len(o)
        BY <1>0, <3>2
      <4>2. o[0 + 1] \in 4..n
        BY <1>0, <4>1
      <4>3. QED
        BY <1>0, <2>1, <2>2, <4>1, <4>2 DEF NextIn
    <3>3. QED
      BY <3>1, <3>2
  <2>4. QED
    BY <1>0, <2>1, <2>2, <2>3 DEF Walks
<1>3. CASE NextAccessPoint /\ pc' # "returned"
  <2>1. /\ pc = "next" /\ ap_n < Len(o) /\ IsObject(tokens, current_token + 1)
        /\ current_token' = current_token + 1 /\ attribute' = 0 /\ ap_n' = ap_n
        /\ number_of_attributes' = tokens[current_token + 1].size
        /\ pc' = "attributes"
    BY <1>0, <1>3 DEF NextAccessPoint, Return, IsObject
  <2>2. ap_n \in 0..Len(o) /\ current_token \in Nat
        /\ current_token >= 3 /\ current_token < o[ap_n + 1]
    BY <2>1 DEF Walks, NextIn
  <2>3. ap_n \in 0..(Len(o) - 1) /\ ap_n + 1 \in 1..Len(o)
    BY <1>0, <2>1, <2>2
  <2>4. o[ap_n + 1] \in 4..n
    BY <1>0, <2>3
  <2>5. PICK j \in Nat : j = current_token + 1
    BY <2>2
  <2>6. j \in 4..o[ap_n + 1] /\ j \in 1..n
    BY <1>0, <2>2, <2>4, <2>5
  <2>7. tokens[j].size \in Nat
    <3>1. tokens[j] \in Tokens
      BY <2>6 DEF Finished
    <3>2. QED
      BY <3>1 DEF Tokens
  <2>8. InObjectAt(j)'
    BY <1>0, <2>1, <2>2, <2>7, <2>5 DEF InObjectAt, IsObject
  <2>9. QED
    BY <1>0, <2>1, <2>3, <2>6, <2>8 DEF Walks
<1>4. CASE NextAttribute /\ pc' # "returned"
  <2>1. /\ pc = "attributes" /\ attribute < number_of_attributes
        /\ current_token' \in {current_token + 1, current_token + 2}
        /\ attribute' = attribute + 1 /\ ap_n' = ap_n /\ pc' = pc
        /\ number_of_attributes' = number_of_attributes
    BY <1>4 DEF NextAttribute, MoreAttributes
  <2>2. ap_n \in 0..(Len(o) - 1) /\ ap_n + 1 \in 1..Len(o)
    <3>1. ap_n \in 0..(Len(o) - 1)
      BY <2>1, Zenon DEF Walks
    <3>2. Len(o) \in Nat
      BY <1>0
    <3>3. QED
      BY <3>1, <3>2
  <2>3. PICK j \in 4..o[ap_n + 1] : InObjectAt(j)
    BY <2>1 DEF Walks
  <2>4. j \in 4..n /\ o[ap_n + 1] \in 4..n
    BY <1>0, <2>2
  <2>5. /\ attribute \in Nat /\ number_of_attributes \in Nat
        /\ current_token \in Nat /\ current_token <= j + 2 * attribute
    BY <2>3, <2>4, ObjectIs
  <2>6. current_token \in j..(j + 2 * attribute)
    BY <2>3 DEF InObjectAt
  <2>7. /\ attribute' \in 0..number_of_attributes
        /\ current_token' \in j..(j + 2 * attribute')
    BY <2>1, <2>4, <2>5, <2>6
  <2>8. InObjectAt(j)'
    BY <1>0, <2>1, <2>3, <2>7 DEF InObjectAt, IsObject
  <2>9. QED
    BY <1>0, <2>1, <2>2, <2>8 DEF Walks
<1>5. CASE AddAccessPoint
  <2>1. /\ pc = "attributes" /\ ~(attribute < number_of_attributes)
        /\ current_token' = current_token /\ ap_n' = ap_n + 1 /\ pc' = "next"
    BY <1>5 DEF AddAccessPoint, MoreAttributes
  <2>2. ap_n \in 0..(Len(o) - 1) /\ ap_n + 1 \in 1..Len(o)
    <3>1. ap_n \in 0..(Len(o) - 1)
      BY <2>1, Zenon DEF Walks
    <3>2. Len(o) \in Nat
      BY <1>0
    <3>3. QED
      BY <3>1, <3>2
  <2>3. PICK j \in 4..o[ap_n + 1] : InObjectAt(j)
    BY <2>1 DEF Walks
  <2>4. j \in 4..n /\ o[ap_n + 1] \in 4..n /\ j <= o[ap_n + 1]
    BY <1>0, <2>2
  <2>5. /\ attribute \in Nat /\ number_of_attributes \in Nat
        /\ attribute <= number_of_attributes
        /\ current_token \in Nat /\ current_token <= j + 2 * attribute
        /\ j + 2 * number_of_attributes <= n
        /\ \A i \in 1..Len(o) : j < o[i] => j + 2 * number_of_attributes < o[i]
    BY <2>3, <2>4, ObjectIs
  <2>6. attribute = number_of_attributes /\ current_token >= 4
    BY <2>1, <2>3, <2>4, <2>5 DEF InObjectAt
  <2>7. current_token < NextIn(o)'
    <3>1. CASE ap_n + 1 < Len(o)
      <4>1. (ap_n + 1) + 1 \in 1..Len(o)
        BY <1>0, <2>2, <3>1
      <4>2. o[ap_n + 1] < o[(ap_n + 1) + 1] /\ o[(ap_n + 1) + 1] \in 4..n
        BY <1>0, <2>2, <4>1
      <4>3. j < o[(ap_n + 1) + 1]
        BY <2>4, <4>2
      <4>4. j + 2 * number_of_attributes < o[(ap_n + 1) + 1]
        BY <2>5, <4>1, <4>3
      <4>5. NextIn(o)' = o[(ap_n + 1) + 1]
        BY <2>1, <3>1 DEF NextIn
      <4>6. QED
        BY <2>4, <2>5, <2>6, <4>2, <4>4, <4>5
    <3>2. CASE ~(ap_n + 1 < Len(o))
      <4>1. NextIn(o)' = n + 1
        BY <1>0, <2>1, <3>2 DEF NextIn
      <4>2. QED
        BY <1>0, <2>4, <2>5, <2>6, <4>1
    <3>3. QED
      BY <3>1, <3>2
  <2>8. QED
    BY <1>0, <2>1, <2>2, <2>5, <2>6, <2>7 DEF Walks
<1>6. CASE ReturnMap
  BY <1>1, <1>6 DEF ReturnMap, Return
<1>7. QED
  <2>1. CASE pc' # "returned"
    BY <1>2, <1>3, <1>4, <1>5, <1>6, <2>1
  <2>2. QED
    BY <1>1, <2>1

LEMMA StructuredStays ==
  ASSUME Parsing, Structured, OnlyWhole, [Next]_vars
  PROVE  Structured'
<1>1. CASE UNCHANGED vars
  <2>1. UNCHANGED <<input, jsmn, walk, pc, result>>
    BY <1>1 DEF vars
  <2>2. ASSUME NEW o
        PROVE  Walks(o)' <=> Walks(o)
    BY <2>1 DEF Walks, walk, jsmn, NextIn, InObjectAt, IsObject
  <2>3. QED
    BY <2>1, <2>2 DEF Structured, Whole, input, jsmn
<1>2. CASE OpeningBracket \/ ClosingBracket \/ StringOrPrimitive \/ Colon \/ Comma
  <2>1. UNCHANGED <<input, walk>> /\ pc = "jsmn_parse" /\ (Fails \/ Goes)
    <3>1. CASE Colon \/ Comma
      BY <3>1, Passes
    <3>2. QED
      BY <1>2, <3>1, Opens, Closes, Puts
  <2>2. CASE Fails
    BY <2>1, <2>2 DEF Fails, Structured, Whole, input
  <2>3. CASE ~Fails
    <3>1. Goes
      BY <2>1, <2>3
    <3>2. ASSUME Whole
          PROVE  \E f : /\ IsRun(f, doc, text, Start, End(doc))
                        /\ \E o, y : /\ Built(f[pos'], tokens', toksuper', o, y)
                                     /\ Walks(o)'
      <4>1. PICK f : /\ IsRun(f, doc, text, Start, End(doc))
                     /\ \E o, y : Built(f[pos], tokens, toksuper, o, y)
        BY <2>1, <3>2 DEF Structured
      <4>2. PICK o, y : Built(f[pos], tokens, toksuper, o, y)
        BY <4>1
      <4>3. \E o2, y2 : Built(f[pos'], tokens', toksuper', o2, y2)
        BY <1>2, <2>3, <4>1, <4>2, LexemeBuilt
      <4>4. ap_n = 0
        BY <2>1, <3>2 DEF Structured, Walks
      <4>5. \A o2 : Walks(o2)'
        BY <2>1, <3>1, <4>4 DEF Walks, Goes, walk
      <4>6. QED
        BY <4>1, <4>3, <4>5
    <3>3. pc' = "jsmn_parse"
      BY <2>1, <3>1 DEF Goes
    <3>4. QED
      BY <2>1, <3>2, <3>3 DEF Structured, Whole, input
  <2>4. QED
    BY <2>2, <2>3
<1>3. CASE CheckBuffer \/ BrokenString \/ EndOfText
  <2>1. /\ UNCHANGED <<input, jsmn, walk>> /\ pc \in {"start", "jsmn_parse"}
        /\ pc' \in {"jsmn_parse", "check", "returned"}
        /\ pc' = "check" => pos = Len(text) + 1
    <3>1. pos > Len(text) => pos = Len(text) + 1
      BY DEF Parsing, Texts
    <3>2. QED
      BY <1>3, <3>1 DEF CheckBuffer, BrokenString, EndOfText, AtLexeme, Return
  <2>2. ASSUME NEW o, Walks(o)
        PROVE  Walks(o)'
    BY <2>1, <2>2 DEF Walks, walk
  <2>3. QED
    BY <2>1, <2>2 DEF Structured, Whole, input, jsmn
<1>4. CASE CheckTop \/ NextAccessPoint \/ NextAttribute \/ AddAccessPoint \/ ReturnMap
  <2>1. UNCHANGED <<input, jsmn>> /\ pc \in {"check", "next", "attributes"}
    BY <1>4 DEF CheckTop, NextAccessPoint, NextAttribute, AddAccessPoint, ReturnMap
  <2>2. Whole /\ pos = Len(text) + 1
    BY <2>1 DEF OnlyWhole, Structured
  <2>3. PICK f : /\ IsRun(f, doc, text, Start, End(doc))
                 /\ \E o, y : Built(f[pos], tokens, toksuper, o, y) /\ Walks(o)
    BY <2>1, <2>2 DEF Structured
  <2>4. PICK o, y : Built(f[pos], tokens, toksuper, o, y) /\ Walks(o)
    BY <2>3
  <2>5. f[pos].at = "end"
    BY <2>2, <2>3 DEF IsRun, End, Place
  <2>6. Finished(o)
    BY <2>4, <2>5, FinishedIs
  <2>7. pc' \in {"next", "attributes", "returned"} /\ Walks(o)'
    BY <1>4, <2>1, <2>4, <2>6, WalkStays
  <2>8. Built(f[pos], tokens, toksuper, o, y)' /\ pos' = pos
    BY <2>1, <2>4 DEF jsmn
  <2>9. QED
    BY <2>1, <2>2, <2>3, <2>7, <2>8 DEF Structured, Whole, input
<1>5. QED
  BY <1>1, <1>2, <1>3, <1>4 DEF Next

(***************************************************************************)
(* What the walk reads.                                                    *)
(***************************************************************************)
LEMMA StructuredReads ==
  ASSUME Parsing, Structured, OnlyWhole
  PROVE  ReadsFilledTokens
<1>1. ASSUME pc \in {"next", "attributes"}
      PROVE  \E o : Finished(o) /\ Walks(o)
  <2>1. Whole /\ pos = Len(text) + 1
    BY <1>1 DEF OnlyWhole, Structured
  <2>2. PICK f : /\ IsRun(f, doc, text, Start, End(doc))
                 /\ \E o, y : Built(f[pos], tokens, toksuper, o, y) /\ Walks(o)
    BY <1>1, <2>1 DEF Structured
  <2>3. f[pos].at = "end"
    BY <2>1, <2>2 DEF IsRun, End, Place
  <2>4. QED
    BY <2>2, <2>3, FinishedIs
<1>2. ASSUME pc = "next", ap_n < tokens[3].size
      PROVE  current_token + 1 <= Len(tokens)
  <2>1. PICK o : Finished(o) /\ Walks(o)
    BY <1>1, <1>2
  <2>2. /\ Len(o) \in Nat /\ tokens[3].size = Len(o)
        /\ \A i \in 1..Len(o) : o[i] \in 4..Len(tokens)
    BY <2>1, ListIs
  <2>3. /\ ap_n \in 0..Len(o) /\ current_token \in Nat
        /\ current_token < o[ap_n + 1]
    BY <1>2, <2>1, <2>2 DEF Walks, NextIn
  <2>4. ap_n + 1 \in 1..Len(o)
    BY <1>2, <2>2, <2>3
  <2>5. o[ap_n + 1] \in 4..Len(tokens) /\ Len(tokens) \in Nat
    BY <2>1, <2>2, <2>4 DEF Finished
  <2>6. QED
    BY <2>3, <2>5
<1>3. ASSUME pc = "attributes", MoreAttributes
      PROVE  current_token + 2 <= Len(tokens) /\ current_token + 1 <= Len(tokens)
  <2>1. PICK o : Finished(o) /\ Walks(o)
    BY <1>1, <1>3
  <2>2. /\ Len(o) \in Nat /\ Len(tokens) \in Nat
        /\ \A i \in 1..Len(o) : o[i] \in 4..Len(tokens)
    BY <2>1, ListIs DEF Finished
  <2>3. ap_n \in 0..(Len(o) - 1) /\ ap_n + 1 \in 1..Len(o)
    BY <1>3, <2>1, <2>2 DEF Walks
  <2>4. PICK j \in 4..o[ap_n + 1] : InObjectAt(j)
    BY <1>3, <2>1 DEF Walks
  <2>5. j \in 4..Len(tokens)
    BY <2>2, <2>3
  <2>6. /\ attribute \in Nat /\ number_of_attributes \in Nat
        /\ current_token \in Nat /\ current_token <= j + 2 * attribute
        /\ j + 2 * number_of_attributes <= Len(tokens)
    BY <2>1, <2>4, <2>5, ObjectIs
  <2>7. attribute + 1 <= number_of_attributes
    BY <1>3, <2>6 DEF MoreAttributes
  <2>8. QED
    BY <2>2, <2>5, <2>6, <2>7
<1>4. QED
  BY <1>2, <1>3 DEF ReadsFilledTokens

(***************************************************************************)
(* The walk reads no token that jsmn has not filled (parse_access_point),  *)
(* for every document, every size of the array, and whatever attributes    *)
(* the code does not know.                                                 *)
(***************************************************************************)
THEOREM FilledTokens == Spec => []ReadsFilledTokens
<1> DEFINE Inv == Parsing /\ Opening /\ OnlyWhole /\ Structured
<1>1. Init => Inv
  BY ParsingStarts, OpeningStarts, StructuredStarts
<1>2. Inv /\ [Next]_vars => Inv'
  BY ParsingStays, OpeningStays, StructuredStays
<1>3. Inv => ReadsFilledTokens
  BY StructuredReads
<1>4. QED
  BY <1>1, <1>2, <1>3, PTL DEF Spec

-----------------------------------------------------------------------------
(***************************************************************************)
(* What follows the key "ssid": a name.  It takes the place in the         *)
(* document to know the last token to be a key.                            *)
(***************************************************************************)
AtKeys == {"key", "value", "inner_key", "inner_value"}

AttributeAt(d, p) ==
  IF p.at \in {"key", "value"} THEN d[p.k][p.a]
                               ELSE d[p.k][p.a].value.attributes[p.i]

KeyIsLast(d, p, toks) ==
  p.at \in AtKeys =>
    Len(toks) > 0 /\ toks[Len(toks)].value = Name(AttributeAt(d, p).key)

NameFollows(toks, j) ==
  (toks[j].type = "STRING" /\ toks[j].value = Name("ssid"))
    => toks[j + 1].value \in Names

SsidFollowed(toks) == \A j \in 1..(Len(toks) - 1) : NameFollows(toks, j)

LEMMA NameIs ==
  /\ \A n \in DOMAIN Cut : Name(n) \in Names
  /\ \A m, n : Name(m) = Name(n) => m = n
BY DEF Name, Names

(***************************************************************************)
(* What the strings and primitives of a document are.                      *)
(***************************************************************************)
StringRead(d, p, l, q) ==
  \/ q.at = "named" /\ l.value \in Names
  \/ q.at \in {"key", "inner_key"} /\ l.value \in Names
     /\ l.value = Name(AttributeAt(d, q).key)
  \/ /\ p.at \in {"value", "inner_value"} /\ q.at \in {"ap", "inner"}
     /\ l.value = AttributeAt(d, p).value
     /\ AttributeAt(d, p).key = "ssid" => l.value \in Names

LEMMA SsidValue ==
  ASSUME NEW a, a.value \in Names \cup Numbers, SsidIsName(a), a.key = "ssid"
  PROVE  a.value \in Names
<1>1. a.value.kind = "name"
  BY DEF SsidIsName
<1>2. ASSUME NEW v \in Numbers
      PROVE  v.kind = "number"
  BY DEF Numbers
<1>3. QED
  BY <1>1, <1>2

LEMMA ApStringRead ==
  ASSUME NEW d \in Docs, NEW p, NEW l, NEW q, Exists(d, p), Exists(d, q),
         InAccessPoint(d, p, l, q), l.lex \in {"str", "prim"}
  PROVE  StringRead(d, p, l, q)
<1>1. \A at, k, a, i : /\ Place(at, k, a, i).at = at /\ Place(at, k, a, i).k = k
                       /\ Place(at, k, a, i).a = a
  BY DEF Place
<1>2. \/ /\ l = Str(d[p.k][p.a + 1].key) /\ q = Place("key", p.k, p.a + 1, 0)
      \/ /\ p.at = "value" /\ d[p.k][p.a].value.kind # "object"
         /\ l = Plain(d[p.k][p.a].value) /\ q = Place("ap", p.k, p.a, 0)
  BY LexOf, Zenon DEF InAccessPoint
<1>3. CASE l = Str(d[p.k][p.a + 1].key) /\ q = Place("key", p.k, p.a + 1, 0)
  <2>1. q.at = "key" /\ q.k = p.k /\ q.a = p.a + 1
    BY <1>1, <1>3
  <2>2. d[q.k][q.a] \in Attributes
    BY <2>1, ValueIs
  <2>3. AttributeAt(d, q) = d[q.k][q.a] /\ d[q.k][q.a].key \in DOMAIN Cut
    BY <2>1, <2>2, AttributeIs DEF AttributeAt
  <2>4. l.value = Name(d[q.k][q.a].key)
    BY <1>3, <2>1, LexOf
  <2>5. QED
    BY <2>1, <2>3, <2>4, NameIs DEF StringRead
<1>4. CASE /\ p.at = "value" /\ d[p.k][p.a].value.kind # "object"
           /\ l = Plain(d[p.k][p.a].value) /\ q = Place("ap", p.k, p.a, 0)
  <2> DEFINE att == d[p.k][p.a]
  <2>1. /\ p.k \in 1..Len(d) /\ p.a \in 1..Len(d[p.k])
        /\ att.value \in Names \cup Numbers
    BY <1>4, ValueIs
  <2>2. p.k \in DOMAIN d /\ p.a \in DOMAIN d[p.k]
    BY <2>1, DocIs
  <2>3. SsidIsName(att)
    BY <2>2, DocsAssumption DEF WellTyped
  <2>4. AttributeAt(d, p) = att /\ q.at = "ap"
    BY <1>1, <1>4 DEF AttributeAt
  <2> HIDE DEF att
  <2>5. l.value = att.value
    BY <1>4, <2>1, LexOf DEF att
  <2>6. att.key = "ssid" => att.value \in Names
    BY <2>1, <2>3, SsidValue
  <2>7. QED
    BY <1>4, <2>4, <2>5, <2>6 DEF StringRead
<1>5. QED
  BY <1>2, <1>3, <1>4

LEMMA ObjectStringRead ==
  ASSUME NEW d \in Docs, NEW p, NEW l, NEW q, Exists(d, p), Exists(d, q),
         InObject(d, p, l, q), l.lex \in {"str", "prim"}
  PROVE  StringRead(d, p, l, q)
<1> DEFINE inner == d[p.k][p.a].value.attributes
<1>2. \/ /\ l = Str(inner[p.i + 1].key)
         /\ q = Place("inner_key", p.k, p.a, p.i + 1)
      \/ /\ p.at = "inner_value" /\ l = Plain(inner[p.i].value)
         /\ q = Place("inner", p.k, p.a, p.i)
  BY LexOf, Zenon DEF InObject
<1>3. CASE /\ l = Str(inner[p.i + 1].key)
           /\ q = Place("inner_key", p.k, p.a, p.i + 1)
  <2>1. q = Place("inner_key", p.k, p.a, p.i + 1)
    BY <1>3
  <2>2. q.at = "inner_key" /\ q.k = p.k /\ q.a = p.a /\ q.i = p.i + 1
    BY <2>1 DEF Place
  <2>3. d[q.k][q.a].value.attributes[q.i].key \in DOMAIN Cut
    BY <2>2, InnerValueIs
  <2>4. AttributeAt(d, q) = inner[q.i]
    BY <2>2 DEF AttributeAt
  <2>5. l.value = Name(inner[q.i].key)
    BY <1>3, <2>2, LexOf
  <2>6. inner[q.i].key \in DOMAIN Cut
    BY <2>2, <2>3
  <2> HIDE DEF inner
  <2>7. QED
    BY <2>2, <2>4, <2>5, <2>6, NameIs DEF StringRead
<1>4. CASE /\ p.at = "inner_value" /\ l = Plain(inner[p.i].value)
           /\ q = Place("inner", p.k, p.a, p.i)
  <2>1. /\ d[p.k][p.a].value.kind = "object" /\ p.i \in 1..Len(inner)
        /\ inner[p.i].value \in Names \cup Numbers
    BY <1>4, InnerValueIs
  <2>2. /\ p.k \in 1..Len(d) /\ p.a \in 1..Len(d[p.k])
        /\ d[p.k][p.a] \in Attributes
    BY <1>4, ValueIs DEF InInner
  <2>3. p.k \in DOMAIN d /\ p.a \in DOMAIN d[p.k] /\ p.i \in DOMAIN inner
    <3>1. DOMAIN inner = 1..Len(inner)
      BY <2>1, <2>2, AttributeIs
    <3>2. QED
      BY <2>1, <2>2, <3>1, DocIs
  <2>4. SsidIsName(inner[p.i])
    BY <2>1, <2>3, DocsAssumption DEF WellTyped
  <2>5. q = Place("inner", p.k, p.a, p.i) /\ p.at = "inner_value"
    BY <1>4
  <2>6. AttributeAt(d, p) = inner[p.i] /\ q.at = "inner"
    BY <2>5 DEF AttributeAt, Place
  <2>7. l.value = inner[p.i].value
    BY <1>4, <2>1, LexOf
  <2>8. inner[p.i].key = "ssid" => inner[p.i].value \in Names
    BY <2>1, <2>4, SsidValue
  <2> HIDE DEF inner
  <2>9. QED
    BY <1>4, <2>6, <2>7, <2>8 DEF StringRead
<1>5. QED
  BY <1>2, <1>3, <1>4

LEMMA StringsRead ==
  ASSUME NEW d \in Docs, NEW p, NEW l, NEW q, Reads(d, p, l, q),
         l.lex \in {"str", "prim"}
  PROVE  StringRead(d, p, l, q)
<1>1. CASE InTop(d, p, l, q)
  <2>1. l = Str("access_points") /\ q = Place("named", 0, 0, 0)
    BY <1>1, LexOf, Zenon DEF InTop
  <2>2. l.value = Name("access_points") /\ q.at = "named"
    BY <2>1, LexOf DEF Place
  <2>3. QED
    BY <2>2, NameIs, CutAssumption DEF StringRead
<1>2. QED
  BY <1>1, ApStringRead, ObjectStringRead DEF Reads

(***************************************************************************)
(* A token more keeps what follows an SSID a name.                         *)
(***************************************************************************)
LEMMA FollowedAdded ==
  ASSUME NEW toks, NEW super, NEW token, NEW new, Added(toks, super, token, new),
         SsidFollowed(toks),
         token.value \in Names \/ Len(toks) = 0
           \/ toks[Len(toks)].value # Name("ssid")
  PROVE  /\ SsidFollowed(new) /\ Len(new) > 0
         /\ new[Len(new)].value = token.value
<1> DEFINE n == Len(toks)
<1>1. /\ n \in Nat /\ Len(new) = n + 1 /\ new[n + 1] = token
      /\ \A j \in 1..n : new[j].type = toks[j].type /\ new[j].value = toks[j].value
  <2>1. toks \in Seq(Tokens)
    BY DEF Added
  <2>2. QED
    BY <2>1, TokenAdded
<1>2. ASSUME NEW j \in 1..(Len(new) - 1)
      PROVE  NameFollows(new, j)
  <2>1. j \in 1..n
    BY <1>1
  <2>2. CASE j = n
    <3>1. new[j + 1].value = token.value /\ n # 0
      BY <1>1, <2>1, <2>2
    <3>2. new[j].value = toks[j].value
      BY <1>1, <2>1
    <3>3. QED
      BY <2>2, <3>1, <3>2 DEF NameFollows
  <2>3. CASE j # n
    <3>1. j \in 1..(n - 1) /\ j + 1 \in 1..n
      BY <1>1, <2>1, <2>3
    <3>2. NameFollows(toks, j)
      BY <3>1 DEF SsidFollowed
    <3>3. QED
      BY <1>1, <2>1, <3>1, <3>2 DEF NameFollows
  <2>4. QED
    BY <2>2, <2>3
<1>3. QED
  BY <1>1, <1>2 DEF SsidFollowed

LEMMA FollowedClosed ==
  ASSUME NEW toks \in Seq(Tokens), NEW k \in 1..Len(toks), NEW end \in Nat \ {0},
         NEW new, new = WithEnd(toks, k, end), SsidFollowed(toks)
  PROVE  SsidFollowed(new)
<1>1. /\ Len(new) = Len(toks) /\ Len(toks) \in Nat
      /\ \A j \in 1..Len(toks) :
           new[j].type = toks[j].type /\ new[j].value = toks[j].value
  BY TokenClosed
<1>2. ASSUME NEW j \in 1..(Len(new) - 1)
      PROVE  NameFollows(new, j)
  <2>1. j \in 1..Len(toks) /\ j + 1 \in 1..Len(toks)
    BY <1>1
  <2>2. NameFollows(toks, j)
    BY <1>1 DEF SsidFollowed
  <2>3. QED
    BY <1>1, <2>1, <2>2 DEF NameFollows
<1>3. QED
  BY <1>2 DEF SsidFollowed

Followed ==
  Whole => /\ SsidFollowed(tokens)
           /\ \E f : /\ IsRun(f, doc, text, Start, End(doc))
                     /\ pc \in {"start", "jsmn_parse"} =>
                          KeyIsLast(doc, f[pos], tokens)

LEMMA FollowedStarts == Init => Followed
<1> SUFFICES ASSUME Init, Whole
             PROVE  /\ SsidFollowed(tokens)
                    /\ \E f : /\ IsRun(f, doc, text, Start, End(doc))
                              /\ KeyIsLast(doc, f[pos], tokens)
  BY DEF Followed
<1>1. doc \in Docs /\ pos = 1 /\ tokens = << >>
  BY DEF Init
<1>2. PICK f : IsRun(f, doc, text, Start, End(doc))
  BY <1>1, TextLeads DEF Leads, Whole
<1>3. f[pos] = Start /\ Start.at = "open"
  BY <1>1, <1>2 DEF IsRun, Start, Place
<1>4. KeyIsLast(doc, f[pos], tokens)
  BY <1>3 DEF KeyIsLast, AtKeys
<1>5. SsidFollowed(<< >>)
  <2>1. Len(<< >>) = 0 /\ 1..(0 - 1) = {}
    OBVIOUS
  <2>2. QED
    BY <2>1 DEF SsidFollowed
<1>6. QED
  BY <1>1, <1>2, <1>4, <1>5

LEMMA LexemeFollowed ==
  ASSUME Parsing, NEW f, IsRun(f, doc, text, Start, End(doc)),
         SsidFollowed(tokens), KeyIsLast(doc, f[pos], tokens),
         OpeningBracket \/ ClosingBracket \/ StringOrPrimitive \/ Colon \/ Comma,
         Goes
  PROVE  SsidFollowed(tokens') /\ KeyIsLast(doc, f[pos'], tokens')
<1> DEFINE p == f[pos]
           l == text[pos]
           q == f[pos + 1]
<1>1. Reads(doc, p, l, q) /\ f[pos'] = q /\ doc \in Docs
  BY DEF IsRun, Goes, Parsing
<1>2. KeyIsLast(doc, p, tokens) /\ l = text[pos]
  OBVIOUS
<1>3. Goes => ~Fails
  BY DEF Goes, Fails, Parsing, Texts, jsmn
<1> HIDE DEF p, l, q
<1>4. MovesSomehow(p, l, q)
  BY <1>1, ReadsMoves
<1>5. CASE OpeningBracket
  <2>1. PICK token : /\ Adds(token, Len(tokens) + 1)
                     /\ token.value = Name(NoName)
    BY <1>3, <1>5, Opens
  <2>2. Added(tokens, toksuper, token, tokens')
    BY <2>1 DEF Parsing, Adds, Added
  <2>3. token.value \in Names
    BY <2>1, NameIs, CutAssumption
  <2>4. SsidFollowed(tokens')
    BY <2>2, <2>3, FollowedAdded
  <2>5. l.lex \in {"lbrace", "lbracket"}
    BY <1>2, <1>5, Opens
  <2>6. q.at \notin AtKeys
    BY <1>4, <2>5 DEF MovesSomehow, Moves, AtKeys
  <2>7. QED
    BY <1>1, <2>4, <2>6 DEF KeyIsLast
<1>6. CASE ClosingBracket
  <2>1. LastOpen(tokens) # 0 /\ tokens' = WithEnd(tokens, LastOpen(tokens), pos + 1)
    BY <1>3, <1>6, Closes
  <2>2. tokens \in Seq(Tokens) /\ pos + 1 \in Nat \ {0}
    BY DEF Parsing, Texts
  <2>3. LastOpen(tokens) \in 1..Len(tokens)
    BY <2>1, <2>2, LastOpenIs
  <2>4. SsidFollowed(tokens')
    BY <2>1, <2>2, <2>3, FollowedClosed
  <2>5. l.lex \in {"rbrace", "rbracket"}
    BY <1>2, <1>6, Closes
  <2>6. q.at \notin AtKeys
    BY <1>4, <2>5 DEF MovesSomehow, Moves, AtKeys
  <2>7. QED
    BY <1>1, <2>4, <2>6 DEF KeyIsLast
<1>7. CASE StringOrPrimitive
  <2>1. PICK token : Adds(token, toksuper) /\ token.value = l.value
    BY <1>2, <1>3, <1>7, Puts
  <2>2. Added(tokens, toksuper, token, tokens')
    BY <2>1 DEF Parsing, Adds, Added
  <2>3. l.lex \in {"str", "prim"}
    BY <1>2, <1>7, Puts
  <2>4. StringRead(doc, p, l, q)
    BY <1>1, <2>3, StringsRead
  <2>5. \/ token.value \in Names
        \/ /\ p.at \in {"value", "inner_value"}
           /\ AttributeAt(doc, p).key # "ssid"
    BY <2>1, <2>4 DEF StringRead
  <2>6. token.value \in Names \/ tokens[Len(tokens)].value # Name("ssid")
    <3>1. p.at \in {"value", "inner_value"} =>
            tokens[Len(tokens)].value = Name(AttributeAt(doc, p).key)
      BY <1>2 DEF KeyIsLast, AtKeys
    <3>2. QED
      BY <2>5, <3>1, NameIs
  <2>7. /\ SsidFollowed(tokens') /\ Len(tokens') > 0
        /\ tokens'[Len(tokens')].value = l.value
    BY <2>1, <2>2, <2>6, FollowedAdded
  <2>8. q.at \in AtKeys => l.value = Name(AttributeAt(doc, q).key)
    <3>1. q.at \in AtKeys => q.at \in {"key", "inner_key"}
      BY <1>4, <2>3 DEF MovesSomehow, Moves, AtKeys
    <3>2. QED
      BY <2>4, <3>1 DEF StringRead
  <2>9. QED
    BY <1>1, <2>7, <2>8 DEF KeyIsLast
<1>8. CASE Colon \/ Comma
  <2>1. tokens' = tokens /\ l.lex \in {"colon", "comma"}
    BY <1>2, <1>8, Passes
  <2>2. q.at \in AtKeys => p.at \in AtKeys /\ AttributeAt(doc, q) = AttributeAt(doc, p)
    <3>1. q.at \in AtKeys =>
            \/ p.at = "key" /\ q.at = "value"
            \/ p.at = "inner_key" /\ q.at = "inner_value"
      BY <1>4, <2>1 DEF MovesSomehow, Moves, AtKeys
    <3>2. (p.at = "key" /\ q.at = "value") => q = Place("value", p.k, p.a, 0)
      BY <1>1, AtOf DEF Reads, InTop, InAccessPoint, InObject, Start
    <3>3. (p.at = "inner_key" /\ q.at = "inner_value")
             => q = Place("inner_value", p.k, p.a, p.i)
      BY <1>1, AtOf DEF Reads, InTop, InAccessPoint, InObject, Start
    <3>4. \A at, k, a, i : /\ Place(at, k, a, i).k = k /\ Place(at, k, a, i).a = a
                           /\ Place(at, k, a, i).i = i
      BY DEF Place
    <3>5. QED
      BY <3>1, <3>2, <3>3, <3>4 DEF AttributeAt, AtKeys
  <2>3. QED
    BY <1>1, <1>2, <2>1, <2>2 DEF KeyIsLast
<1>9. QED
  BY <1>5, <1>6, <1>7, <1>8

LEMMA FollowedStays ==
  ASSUME Parsing, Followed, [Next]_vars
  PROVE  Followed'
<1>1. CASE OpeningBracket \/ ClosingBracket \/ StringOrPrimitive \/ Colon \/ Comma
  <2>1. UNCHANGED input /\ pc = "jsmn_parse" /\ (Fails \/ Goes)
    <3>1. CASE Colon \/ Comma
      BY <3>1, Passes
    <3>2. QED
      BY <1>1, <3>1, Opens, Closes, Puts
  <2>2. CASE Fails
    BY <2>1, <2>2 DEF Fails, Followed, Whole, input, jsmn
  <2>3. CASE Goes
    <3>1. ASSUME Whole
          PROVE  /\ SsidFollowed(tokens')
                 /\ \E f : /\ IsRun(f, doc, text, Start, End(doc))
                           /\ KeyIsLast(doc, f[pos'], tokens')
      <4>1. PICK f : /\ IsRun(f, doc, text, Start, End(doc))
                     /\ KeyIsLast(doc, f[pos], tokens)
        BY <2>1, <3>1 DEF Followed
      <4>2. SsidFollowed(tokens)
        BY <3>1 DEF Followed
      <4>3. SsidFollowed(tokens') /\ KeyIsLast(doc, f[pos'], tokens')
        BY <1>1, <2>3, <4>1, <4>2, LexemeFollowed
      <4>4. QED
        BY <4>1, <4>3
    <3>2. QED
      BY <2>1, <3>1 DEF Followed, Whole, input
  <2>4. QED
    BY <2>1, <2>2, <2>3
<1>2. ASSUME UNCHANGED <<input, jsmn>>, pc \in {"start", "jsmn_parse"}
                                          \/ pc' \notin {"start", "jsmn_parse"}
      PROVE  Followed'
  BY <1>2 DEF Followed, Whole, input, jsmn
<1>3. CASE CheckBuffer \/ BrokenString \/ EndOfText
  BY <1>2, <1>3 DEF CheckBuffer, BrokenString, EndOfText, AtLexeme
<1>4. CASE CheckTop \/ NextAccessPoint \/ NextAttribute \/ AddAccessPoint \/ ReturnMap
  BY <1>2, <1>4 DEF CheckTop, NextAccessPoint, NextAttribute, AddAccessPoint,
                    ReturnMap, Return
<1>5. CASE UNCHANGED vars
  BY <1>2, <1>5 DEF vars
<1>6. QED
  BY <1>1, <1>3, <1>4, <1>5 DEF Next

-----------------------------------------------------------------------------
(***************************************************************************)
(* The types of the walk's variables.                                      *)
(***************************************************************************)
WalkTyped ==
  /\ current_token \in 0..Len(tokens) /\ ap_n \in Nat /\ attribute \in Nat
  /\ ap \in AccessPoint /\ map \in AccessPointMap
  /\ result \in AccessPointMap \cup {NULL}

LEMMA WalkTypedStarts == Init => WalkTyped
<1> SUFFICES ASSUME Init PROVE WalkTyped
  OBVIOUS
<1>1. NoAp \in AccessPoint
  <2>1. 0 \in Unsigned
    BY WidthAssumption
  <2>2. QED
    BY <2>1, CutAssumption DEF NoAp, AccessPoint
<1>2. Len(<< >>) = 0
  OBVIOUS
<1>3. QED
  BY <1>1, <1>2, EmptyMap DEF Init, WalkTyped, create_access_point_map

(***************************************************************************)
(* What is read of a value is of its type: an SSID cut to its array, a     *)
(* number to its width.                                                    *)
(***************************************************************************)
LEMMA SsidRead ==
  ASSUME NEW token, token.value \in Names
  PROVE  SsidFrom(token) \in Ssid
<1>1. token.value.name \in DOMAIN Cut
  BY DEF Names
<1>2. QED
  BY <1>1, CutAssumption DEF SsidFrom

LEMMA NumberRead ==
  ASSUME NEW token \in Tokens
  PROVE  StrtolFrom(token) \in Unsigned
<1>1. token.value \in Names \cup Numbers
  BY DEF Tokens
<1>2. ASSUME token.value.kind = "number"
      PROVE  token.value.number \in Int
  <2>1. ASSUME NEW v \in Names
        PROVE  v.kind = "name"
    BY DEF Names
  <2>2. ASSUME NEW v \in Numbers
        PROVE  v.number \in Int
    BY DEF Numbers
  <2>3. QED
    BY <1>1, <1>2, <2>1, <2>2
<1> DEFINE m == 2^Width
           number == token.value.number
<1>3. m \in Nat \ {0} /\ Unsigned = 0..(m - 1)
  BY WidthAssumption
<1>4. StrtolFrom(token)
        = IF token.value.kind = "number" THEN strtol(number) % m ELSE 0
  BY DEF StrtolFrom
<1>5. token.value.kind = "number" => strtol(number) \in Int
  BY <1>2, LongAssumption DEF strtol, LONG_MIN
<1> HIDE DEF m, number
<1>6. strtol(number) \in Int => strtol(number) % m \in 0..(m - 1)
  BY <1>3
<1>7. 0 \in 0..(m - 1)
  BY <1>3
<1>8. QED
  BY <1>3, <1>4, <1>5, <1>6, <1>7

(***************************************************************************)
(* What strtol makes of a number, cut to an unsigned int, is what the      *)
(* number says.                                                            *)
(***************************************************************************)
LEMMA QuotientAndRest ==
  ASSUME NEW n \in Int, NEW m \in Nat \ {0}
  PROVE  /\ n = m * (n \div m) + (n % m)
         /\ n \div m \in Int /\ n % m \in 0..(m - 1)
  OBVIOUS

LEMMA SmallMultiple ==
  ASSUME NEW m \in Nat \ {0}, NEW q \in Int, -m < m * q, m * q < m
  PROVE  q = 0
<1>1. ~(q >= 1)
  <2> SUFFICES ASSUME q >= 1 PROVE FALSE
    OBVIOUS
  <2>1. m * q >= m * 1
    OBVIOUS
  <2>2. m * q \in Int /\ m * 1 = m
    OBVIOUS
  <2>3. QED
    BY <2>1, <2>2
<1>2. ~(q <= -1)
  <2> SUFFICES ASSUME q <= -1 PROVE FALSE
    OBVIOUS
  <2>1. m * (-q) >= m * 1
    OBVIOUS
  <2>2. m * (-q) = -(m * q) /\ m * q \in Int /\ m * 1 = m
    OBVIOUS
  <2>3. QED
    BY <2>1, <2>2
<1>3. QED
  BY <1>1, <1>2

LEMMA RestIs ==
  ASSUME NEW m \in Nat \ {0}, NEW n \in Int, NEW q \in Int, NEW r \in 0..(m - 1),
         n = m * q + r
  PROVE  n % m = r
<1> DEFINE p == n \div m
           s == n % m
<1>1. n = m * p + s /\ p \in Int /\ s \in 0..(m - 1)
  BY QuotientAndRest
<1> HIDE DEF p, s
<1>2. m * (p - q) = m * p - m * q /\ m * p \in Int /\ m * q \in Int
  BY <1>1
<1>3. m * (p - q) = r - s
  BY <1>1, <1>2
<1>4. p - q = 0
  BY <1>1, <1>3, SmallMultiple
<1>5. m * (p - q) = 0
  BY <1>4
<1>6. QED
  BY <1>1, <1>3, <1>5 DEF s

LEMMA ZeroRest == 0 % 2^Width = 0 /\ strtol(0) = 0
<1> DEFINE m == 2^Width
<1>1. m \in Nat \ {0}
  BY WidthAssumption
<1> HIDE DEF m
<1>2. 0 = m * 0 + 0 /\ 0 \in 0..(m - 1)
  BY <1>1
<1>3. 0 % m = 0
  BY <1>1, <1>2, RestIs
<1>4. strtol(0) = 0
  BY LongAssumption DEF strtol, LONG_MIN
<1>5. QED
  BY <1>3, <1>4 DEF m

LEMMA StrtolSays ==
  ASSUME NEW n \in Int
  PROVE  strtol(n) % 2^Width = UnsignedSaid(n)
<1> DEFINE m == 2^Width
           q == (LONG_MAX + 1) \div m
<1>1. m \in Nat \ {0} /\ Unsigned = 0..(m - 1)
  BY WidthAssumption
<1>2. LONG_MAX \in Nat /\ (LONG_MAX + 1) % m = 0
  BY LongAssumption
<1>3. strtol(n) = IF n > LONG_MAX THEN LONG_MAX
                  ELSE IF n < LONG_MIN THEN LONG_MIN ELSE n
  BY DEF strtol
<1>4. UnsignedSaid(n) = IF n > LONG_MAX THEN m - 1
                        ELSE IF n < LONG_MIN THEN 0
                        ELSE CHOOSE u \in Unsigned : (u - n) % m = 0
  BY DEF UnsignedSaid
<1> HIDE DEF m
<1>5. LONG_MAX + 1 = m * q /\ q \in Int
  BY <1>1, <1>2, QuotientAndRest
<1> HIDE DEF q
<1>6. CASE n > LONG_MAX
  <2> DEFINE d == q - 1
             r == m - 1
  <2>1. LONG_MAX = m * d + r
    <3>1. m * (q - 1) = m * q - m
      BY <1>1, <1>5
    <3>2. QED
      BY <1>1, <1>2, <1>5, <3>1
  <2>2. r \in 0..(m - 1) /\ d \in Int
    BY <1>1, <1>5
  <2> HIDE DEF d, r
  <2>3. LONG_MAX % m = r
    BY <1>1, <1>2, <2>1, <2>2, RestIs
  <2>4. QED
    BY <1>3, <1>4, <1>6, <2>3 DEF m, r
<1>7. CASE ~(n > LONG_MAX) /\ n < LONG_MIN
  <2>1. LONG_MIN = m * (-q) + 0
    <3>1. m * (-q) = -(m * q)
      BY <1>1, <1>5
    <3>2. QED
      BY <1>1, <1>2, <1>5, <3>1 DEF LONG_MIN
  <2>2. 0 \in 0..(m - 1) /\ -q \in Int /\ LONG_MIN \in Int
    BY <1>1, <1>2, <1>5 DEF LONG_MIN
  <2>3. LONG_MIN % m = 0
    BY <1>1, <2>1, <2>2, RestIs
  <2>4. QED
    BY <1>3, <1>4, <1>7, <2>3 DEF m
<1>8. CASE ~(n > LONG_MAX) /\ ~(n < LONG_MIN)
  <2> DEFINE r == n % m
             p == n \div m
  <2>1. n = m * p + r /\ p \in Int /\ r \in 0..(m - 1)
    BY <1>1, QuotientAndRest
  <2> HIDE DEF r, p
  <2>2. (r - n) % m = 0
    <3>1. r - n = m * (-p) + 0
      <4>1. m * (-p) = -(m * p) /\ m * p \in Int
        BY <1>1, <2>1
      <4>2. QED
        BY <1>1, <2>1, <4>1
    <3>2. r - n \in Int /\ -p \in Int /\ 0 \in 0..(m - 1)
      BY <1>1, <2>1
    <3>3. QED
      BY <1>1, <3>1, <3>2, RestIs
  <2>3. ASSUME NEW u \in Unsigned, (u - n) % m = 0
        PROVE  u = r
    <3> DEFINE k == (u - n) \div m
    <3>1. u \in 0..(m - 1) /\ u - n \in Int
      BY <1>1, <2>3
    <3>2. u - n = m * k /\ k \in Int
      BY <1>1, <2>3, <3>1, QuotientAndRest
    <3> HIDE DEF k
    <3>3. m * (k + p) = m * k + m * p /\ m * k \in Int /\ m * p \in Int
      BY <1>1, <2>1, <3>2
    <3>4. m * (k + p) = u - r
      BY <2>1, <3>1, <3>2, <3>3
    <3>5. k + p = 0
      BY <1>1, <2>1, <3>1, <3>2, <3>4, SmallMultiple
    <3>6. m * (k + p) = 0
      BY <1>1, <3>5
    <3>7. QED
      BY <1>1, <2>1, <3>1, <3>4, <3>6
  <2>4. (CHOOSE u \in Unsigned : (u - n) % m = 0) = r
    BY <1>1, <2>1, <2>2, <2>3
  <2>5. QED
    BY <1>3, <1>4, <1>8, <2>4 DEF m, r
<1>9. QED
  BY <1>6, <1>7, <1>8

LEMMA AttributeTyped ==
  ASSUME Parsing, Whole, ReadsFilledTokens, Followed, WalkTyped, NextAttribute
  PROVE  current_token' \in 0..Len(tokens) /\ ap' \in AccessPoint
<1> DEFINE key == tokens[current_token + 1]
           value == tokens[current_token + 2]
<1>1. /\ tokens \in Seq(Tokens) /\ Len(tokens) \in Nat
      /\ current_token \in 0..Len(tokens) /\ current_token + 1 <= Len(tokens)
      /\ IsKnownKey(key) => current_token + 2 <= Len(tokens)
  BY DEF Parsing, WalkTyped, ReadsFilledTokens, NextAttribute
<1>2. ap \in AccessPoint /\ SsidFollowed(tokens)
  BY DEF WalkTyped, Followed
<1>3. \/ /\ json_token_eq_str(key, "ssid")
         /\ ap' = [ap EXCEPT !.ssid = SsidFrom(value)]
         /\ current_token' = current_token + 2
      \/ /\ json_token_eq_str(key, "snr")
         /\ ap' = [ap EXCEPT !.SNR = StrtolFrom(value)]
         /\ current_token' = current_token + 2
      \/ /\ json_token_eq_str(key, "channel")
         /\ ap' = [ap EXCEPT !.channel = StrtolFrom(value)]
         /\ current_token' = current_token + 2
      \/ current_token' = current_token + 1 /\ ap' = ap
  BY DEF NextAttribute
<1>4. IsKnownKey(key) => value \in Tokens
  BY <1>1
<1>5. json_token_eq_str(key, "ssid") => value.value \in Names
  <2> SUFFICES ASSUME json_token_eq_str(key, "ssid") PROVE value.value \in Names
    OBVIOUS
  <2>1. IsKnownKey(key)
    BY DEF IsKnownKey, KnownKeys
  <2>2. current_token + 1 \in 1..(Len(tokens) - 1)
    BY <1>1, <2>1
  <2>3. NameFollows(tokens, current_token + 1)
    BY <1>2, <2>2 DEF SsidFollowed
  <2>4. tokens[(current_token + 1) + 1] = value
    <3>1. (current_token + 1) + 1 = current_token + 2
      BY <1>1
    <3>2. QED
      BY <3>1
  <2>5. QED
    BY <2>3, <2>4 DEF NameFollows, json_token_eq_str
<1>6. /\ json_token_eq_str(key, "ssid") => IsKnownKey(key)
      /\ json_token_eq_str(key, "snr") => IsKnownKey(key)
      /\ json_token_eq_str(key, "channel") => IsKnownKey(key)
  BY DEF IsKnownKey, KnownKeys
<1> HIDE DEF key, value
<1>7. current_token' \in 0..Len(tokens)
  BY <1>1, <1>3, <1>6
<1>8. ap' \in AccessPoint
  <2>1. CASE json_token_eq_str(key, "ssid") /\ ap' = [ap EXCEPT !.ssid = SsidFrom(value)]
    <3>1. SsidFrom(value) \in Ssid
      BY <1>5, <2>1, SsidRead
    <3>2. QED
      BY <1>2, <2>1, <3>1 DEF AccessPoint
  <2>2. CASE IsKnownKey(key) /\ ap' = [ap EXCEPT !.SNR = StrtolFrom(value)]
    <3>1. StrtolFrom(value) \in Unsigned
      BY <1>4, <2>2, NumberRead
    <3>2. QED
      BY <1>2, <2>2, <3>1 DEF AccessPoint
  <2>3. CASE IsKnownKey(key) /\ ap' = [ap EXCEPT !.channel = StrtolFrom(value)]
    <3>1. StrtolFrom(value) \in Unsigned
      BY <1>4, <2>3, NumberRead
    <3>2. QED
      BY <1>2, <2>3, <3>1 DEF AccessPoint
  <2>4. QED
    BY <1>2, <1>3, <1>6, <2>1, <2>2, <2>3
<1>9. QED
  BY <1>7, <1>8

LEMMA WalkTypedStays ==
  ASSUME Parsing, OnlyWhole, ReadsFilledTokens, Followed, WalkTyped, [Next]_vars
  PROVE  WalkTyped'
<1>0. tokens \in Seq(Tokens) /\ Len(tokens) \in Nat
  BY DEF Parsing
<1>1. CASE OpeningBracket \/ ClosingBracket \/ StringOrPrimitive \/ Colon \/ Comma
  <2>1. UNCHANGED walk /\ (Fails \/ Goes)
    <3>1. CASE Colon \/ Comma
      BY <3>1, Passes
    <3>2. QED
      BY <1>1, <3>1, Opens, Closes, Puts
  <2>2. CASE Fails
    BY <2>1, <2>2 DEF Fails, WalkTyped, walk, jsmn
  <2>3. CASE ~Fails
    <3>1. result' = result
      BY <2>1, <2>3 DEF Goes
    <3>2. Len(tokens') \in Nat /\ Len(tokens') >= Len(tokens)
      <4>1. ASSUME NEW token, NEW super, Adds(token, super)
            PROVE  Len(tokens') = Len(tokens) + 1
        <5>1. Added(tokens, toksuper, token, tokens')
          BY <4>1 DEF Parsing, Adds, Added
        <5>2. QED
          BY <5>1, TokenAdded
      <4>2. CASE OpeningBracket \/ StringOrPrimitive
        <5>1. \E token, super : Adds(token, super)
          BY <2>3, <4>2, Opens, Puts
        <5>2. QED
          BY <1>0, <4>1, <5>1
      <4>3. CASE ClosingBracket
        <5>1. /\ LastOpen(tokens) # 0
              /\ tokens' = WithEnd(tokens, LastOpen(tokens), pos + 1)
          BY <2>3, <4>3, Closes
        <5>2. LastOpen(tokens) \in 1..Len(tokens) /\ pos + 1 \in Nat \ {0}
          BY <1>0, <5>1, LastOpenIs DEF Parsing, Texts
        <5>3. QED
          BY <1>0, <5>1, <5>2, TokenClosed
      <4>4. CASE Colon \/ Comma
        BY <1>0, <4>4, Passes
      <4>5. QED
        BY <1>1, <4>2, <4>3, <4>4
    <3>3. QED
      BY <1>0, <2>1, <3>1, <3>2 DEF WalkTyped, walk
  <2>4. QED
    BY <2>2, <2>3
<1>2. CASE CheckBuffer \/ BrokenString \/ EndOfText
  BY <1>2 DEF CheckBuffer, BrokenString, EndOfText, Return, WalkTyped, walk, jsmn
<1>3. CASE CheckTop
  <2>1. ~(Len(tokens) < 3) => 3 \in 0..Len(tokens)
    BY <1>0
  <2>2. QED
    BY <1>3, <2>1 DEF CheckTop, Return, WalkTyped, jsmn
<1>4. CASE NextAccessPoint
  <2>1. current_token + 1 \in 0..Len(tokens)
    BY <1>0, <1>4 DEF NextAccessPoint, ReadsFilledTokens, WalkTyped
  <2>2. NoAp \in AccessPoint
    <3>1. 0 \in Unsigned
      BY WidthAssumption
    <3>2. QED
      BY <3>1, CutAssumption DEF NoAp, AccessPoint
  <2>3. QED
    BY <1>4, <2>1, <2>2 DEF NextAccessPoint, Return, WalkTyped, jsmn
<1>5. CASE NextAttribute
  <2>1. Whole
    BY <1>5 DEF NextAttribute, OnlyWhole
  <2>2. current_token' \in 0..Len(tokens) /\ ap' \in AccessPoint
    BY <1>5, <2>1, AttributeTyped
  <2>3. QED
    BY <1>5, <2>2 DEF NextAttribute, WalkTyped, jsmn
<1>6. CASE AddAccessPoint
  <2>1. add_to_map(map, ap) \in AccessPointMap
    BY AddToMap DEF WalkTyped
  <2>2. QED
    BY <1>6, <2>1 DEF AddAccessPoint, WalkTyped, jsmn
<1>7. CASE ReturnMap
  BY <1>7 DEF ReturnMap, Return, WalkTyped, walk, jsmn
<1>8. CASE UNCHANGED vars
  BY <1>8 DEF vars, WalkTyped, walk, jsmn
<1>9. QED
  BY <1>1, <1>2, <1>3, <1>4, <1>5, <1>6, <1>7, <1>8 DEF Next

(***************************************************************************)
(* The types of the parser's variables, among them the map's distinct      *)
(* keys, SSIDs that fit their array and numbers that fit an unsigned int,  *)
(* for every document (parse_json_from_buffer).                            *)
(***************************************************************************)
THEOREM ParserTypes == Spec => []TypeOK
<1> DEFINE Inv == /\ Parsing /\ Opening /\ OnlyWhole /\ Structured
                  /\ Followed /\ WalkTyped
<1>1. Init => Inv
  BY ParsingStarts, OpeningStarts, StructuredStarts, FollowedStarts,
     WalkTypedStarts
<1>2. Inv /\ [Next]_vars => Inv'
  BY ParsingStays, OpeningStays, StructuredStays, StructuredReads, FollowedStays,
     WalkTypedStays
<1>3. Inv => TypeOK
  BY DEF Parsing, Phases, WalkTyped, TypeOK
<1>4. QED
  BY <1>1, <1>2, <1>3, PTL DEF Spec

-----------------------------------------------------------------------------
(***************************************************************************)
(* The tokens of a document whose attributes are all known: those of its   *)
(* access point i begin at o[i], then come key and value in turn.          *)
(***************************************************************************)
Known(d) == d \in Docs /\ OnlyKnown(d)

ApPairs(x, toks, j, keys, values) ==
  /\ IsObject(toks, j)
  /\ \A a \in 1..keys : json_token_eq_str(toks[j + 2 * a - 1], x[a].key)
  /\ \A a \in 1..values : toks[j + 2 * a].value = x[a].value

ApTokens(x, toks, j, keys, values) ==
  ApPairs(x, toks, j, keys, values) /\ toks[j].size = keys

EndOf(d, o, i) == IF i = 0 THEN 3 ELSE o[i] + 2 * Len(d[i])

ListTokens(d, k, toks, o) ==
  \A i \in 1..k : /\ o[i] = EndOf(d, o, i - 1) + 1
                  /\ ApTokens(d[i], toks, o[i], Len(d[i]), Len(d[i]))

ValuesAt(p) == IF p.at \in {"key", "value"} THEN p.a - 1 ELSE p.a

ApContent(d, p, toks, o) ==
  /\ ListTokens(d, p.k - 1, toks, o)
  /\ o[p.k] = EndOf(d, o, p.k - 1) + 1
  /\ ApTokens(d[p.k], toks, o[p.k], p.a, ValuesAt(p))
  /\ Len(toks) = o[p.k] + p.a + ValuesAt(p)

ListContent(d, p, toks, o) ==
  ListTokens(d, p.k, toks, o) /\ Len(toks) = EndOf(d, o, p.k)

TopContent(at, toks) ==
  /\ at # "open" => toks[1].type = "OBJECT"
  /\ at \notin {"open", "name"} =>
       json_token_eq_str(toks[2], "access_points")

Content(d, p, toks, o) ==
  /\ p.at \notin InInner
  /\ TopContent(p.at, toks)
  /\ p.at \in InList => Len(o) = p.k
  /\ p.at \in InAp => ApContent(d, p, toks, o)
  /\ p.at \in InList \ InAp => ListContent(d, p, toks, o)

LEMMA KnownValue ==
  ASSUME NEW d, Known(d), NEW k \in 1..Len(d), NEW a \in 1..Len(d[k])
  PROVE  /\ d[k][a] \in Attributes /\ d[k][a].key \in KnownKeys
         /\ d[k][a].value.kind # "object"
         /\ d[k][a].value \in Names \cup Numbers
         /\ d[k][a].key = "ssid" => d[k][a].value \in Names
         /\ d[k][a].key # "ssid" => d[k][a].value \in Numbers
<1> DEFINE att == d[k][a]
<1>1. d \in Docs /\ k \in DOMAIN d /\ a \in DOMAIN d[k] /\ att \in Attributes
  BY DocIs DEF Known
<1>2. att.key \in KnownKeys
  BY <1>1 DEF Known, OnlyKnown
<1>3. /\ SsidIsName(att)
      /\ att.key \in {"snr", "channel"} => att.value.kind = "number"
  BY <1>1, DocsAssumption DEF WellTyped
<1> HIDE DEF att
<1>4. att.key = "ssid" => att.value.kind = "name"
  BY <1>3 DEF SsidIsName
<1>5. att.value.kind \in {"name", "number"}
  BY <1>2, <1>3, <1>4 DEF KnownKeys
<1>6. att.value \in Names \cup Numbers
  BY <1>1, <1>5, AttributeIs
<1>7. /\ \A v \in Names : v.kind = "name"
      /\ \A v \in Numbers : v.kind = "number"
  BY DEF Names, Numbers
<1>8. QED
  BY <1>1, <1>2, <1>3, <1>4, <1>5, <1>6, <1>7 DEF att, KnownKeys

(***************************************************************************)
(* The steps from place to place in such a document.                       *)
(***************************************************************************)
OpensAt(p, l, q) ==
  /\ l.lex \in {"lbrace", "lbracket"}
  /\ \/ p.at = "open" /\ l.lex = "lbrace" /\ q.at = "name"
     \/ p.at = "array" /\ l.lex = "lbracket" /\ q.at = "list" /\ q.k = 0
     \/ /\ p.at \in {"list", "list_more"} /\ l.lex = "lbrace"
        /\ q.at = "ap" /\ q.k = p.k + 1 /\ q.a = 0

PutsAt(d, p, l, q) ==
  /\ l.lex \in {"str", "prim"}
  /\ \/ p.at = "name" /\ l = Str("access_points") /\ q.at = "named"
     \/ /\ p.at = "ap_more" \/ (p.at = "ap" /\ p.a = 0)
        /\ l = Str(d[p.k][p.a + 1].key)
        /\ q.at = "key" /\ q.k = p.k /\ q.a = p.a + 1
     \/ /\ p.at = "value" /\ l.value = d[p.k][p.a].value
        /\ q.at = "ap" /\ q.k = p.k /\ q.a = p.a

StandsAt(d, p, l, q) ==
  /\ l.lex \in {"colon", "comma", "rbrace", "rbracket"}
  /\ \/ p.at = "named" /\ l.lex = "colon" /\ q.at = "array"
     \/ p.at = "key" /\ q.at = "value" /\ q.a = p.a /\ q.k = p.k
     \/ p.at = "ap" /\ q.at = "ap_more" /\ q.a = p.a /\ q.k = p.k
     \/ p.at = "ap" /\ p.a = Len(d[p.k]) /\ q.at = "list" /\ q.k = p.k
     \/ /\ p.at \in {"list", "list_more", "close", "end"} /\ q.k = p.k
        /\ q.at \in {"list", "list_more", "close", "end"}

KnownMoves(d, p, l, q) ==
  /\ q.at \notin InInner
  /\ OpensAt(p, l, q) \/ PutsAt(d, p, l, q) \/ StandsAt(d, p, l, q)

LEMMA KnownReads ==
  ASSUME NEW d, Known(d), NEW p, NEW l, NEW q, Reads(d, p, l, q),
         p.at \notin InInner
  PROVE  KnownMoves(d, p, l, q)
<1>1. \A at, k, a, i : /\ Place(at, k, a, i).at = at /\ Place(at, k, a, i).k = k
                       /\ Place(at, k, a, i).a = a
  BY DEF Place
<1>2. Exists(d, p) /\ d \in Docs
  BY DEF Reads, Known
<1>3. CASE InTop(d, p, l, q)
  <2>1. OpensAt(p, l, q) \/ PutsAt(d, p, l, q) \/ StandsAt(d, p, l, q)
    BY <1>1, <1>3, LexOf DEF InTop, OpensAt, PutsAt, StandsAt, Start
  <2>2. q.at \notin InInner
    BY <1>1, <1>3 DEF InTop, InInner
  <2>3. QED
    BY <2>1, <2>2 DEF KnownMoves
<1>4. CASE InAccessPoint(d, p, l, q)
  <2>1. q.at \notin InInner
    BY <1>1, <1>4 DEF InAccessPoint, InInner
  <2>2. CASE p.at # "value"
    <3>1. PutsAt(d, p, l, q) \/ StandsAt(d, p, l, q)
      BY <1>1, <1>4, <2>2, LexOf DEF InAccessPoint, PutsAt, StandsAt
    <3>2. QED
      BY <2>1, <3>1 DEF KnownMoves
  <2>3. CASE p.at = "value"
    <3>1. d[p.k][p.a].value \in Names \cup Numbers
      <4>1. p.k \in 1..Len(d) /\ p.a \in 1..Len(d[p.k])
        BY <1>2, <2>3, ValueIs
      <4>2. QED
        BY <4>1, KnownValue
    <3>2. l = Plain(d[p.k][p.a].value) /\ q = Place("ap", p.k, p.a, 0)
      BY <1>4, <2>3 DEF InAccessPoint
    <3>3. l.lex \in {"str", "prim"} /\ l.value = d[p.k][p.a].value
      BY <3>1, <3>2, LexOf
    <3>4. PutsAt(d, p, l, q)
      BY <1>1, <2>3, <3>2, <3>3 DEF PutsAt
    <3>5. QED
      BY <2>1, <3>4 DEF KnownMoves
  <2>4. QED
    BY <2>2, <2>3
<1>5. CASE InObject(d, p, l, q)
  <2>1. p.at = "value" /\ d[p.k][p.a].value.kind = "object"
    BY <1>5 DEF InObject, InInner
  <2>2. p.k \in 1..Len(d) /\ p.a \in 1..Len(d[p.k])
    BY <1>2, <2>1, ValueIs
  <2>3. QED
    BY <2>1, <2>2, KnownValue
<1>6. QED
  BY <1>3, <1>4, <1>5 DEF Reads

(***************************************************************************)
(* What is there stays when a token is added or closed.                    *)
(***************************************************************************)
Keeps(toks, new, super) ==
  /\ Len(toks) \in Nat
  /\ \A j \in 1..Len(toks) :
       /\ new[j].type = toks[j].type /\ new[j].value = toks[j].value
       /\ j # super => new[j].size = toks[j].size

ApInside(x, toks, j, keys, values) ==
  /\ j \in Nat \ {0} /\ keys \in Nat /\ values \in Nat
  /\ values <= keys /\ keys <= values + 1 /\ j + keys + values <= Len(toks)
  /\ ApTokens(x, toks, j, keys, values)

LEMMA ApKept ==
  ASSUME NEW x, NEW toks, NEW new, NEW super, Keeps(toks, new, super),
         NEW j, NEW keys, NEW values, ApInside(x, toks, j, keys, values)
  PROVE  /\ ApPairs(x, new, j, keys, values)
         /\ j # super => ApTokens(x, new, j, keys, values)
<1> DEFINE n == Len(toks)
<1>1. /\ n \in Nat
      /\ \A i \in 1..n :
           /\ new[i].type = toks[i].type /\ new[i].value = toks[i].value
           /\ i # super => new[i].size = toks[i].size
  BY DEF Keeps
<1>2. /\ j \in Nat \ {0} /\ keys \in Nat /\ values \in Nat
      /\ values <= keys /\ keys <= values + 1 /\ j + keys + values <= n
      /\ ApTokens(x, toks, j, keys, values) /\ j \in 1..n
  BY <1>1 DEF ApInside
<1>3. ASSUME NEW a \in 1..keys
      PROVE  json_token_eq_str(new[j + 2 * a - 1], x[a].key)
  <2>1. PICK i \in Nat : i = j + 2 * a - 1
    BY <1>2
  <2>2. i \in 1..n
    BY <1>1, <1>2, <2>1
  <2>3. json_token_eq_str(toks[i], x[a].key)
    BY <1>2, <2>1 DEF ApTokens, ApPairs
  <2>4. QED
    BY <1>1, <2>1, <2>2, <2>3 DEF json_token_eq_str
<1>4. ASSUME NEW a \in 1..values
      PROVE  new[j + 2 * a].value = x[a].value
  <2>1. PICK i \in Nat : i = j + 2 * a
    BY <1>2
  <2>2. i \in 1..n
    BY <1>1, <1>2, <2>1
  <2>3. toks[i].value = x[a].value
    BY <1>2, <2>1 DEF ApTokens, ApPairs
  <2>4. QED
    BY <1>1, <2>1, <2>2, <2>3
<1>5. IsObject(new, j) /\ (j # super => new[j].size = keys)
  BY <1>1, <1>2 DEF IsObject, ApTokens, ApPairs
<1>6. QED
  BY <1>3, <1>4, <1>5 DEF ApTokens, ApPairs

ListInside(d, k, toks, o) ==
  /\ d \in Docs /\ k \in 0..Len(d) /\ k <= Len(o) /\ Ordered(toks, o)
  /\ EndOf(d, o, k) <= Len(toks) /\ ListTokens(d, k, toks, o)

LEMMA ListKept ==
  ASSUME NEW d, NEW k, NEW toks, NEW o, ListInside(d, k, toks, o),
         NEW new, NEW super, Keeps(toks, new, super),
         NEW o2, \A i \in 1..k : o2[i] = o[i] /\ o[i] # super
  PROVE  ListTokens(d, k, new, o2) /\ EndOf(d, o2, k) = EndOf(d, o, k)
<1>0. /\ d \in Docs /\ k \in 0..Len(d) /\ k <= Len(o) /\ Ordered(toks, o)
      /\ EndOf(d, o, k) <= Len(toks) /\ ListTokens(d, k, toks, o)
  BY DEF ListInside
<1>1. Len(toks) \in Nat /\ Len(o) \in Nat /\ Len(d) \in Nat /\ k \in Nat
  BY <1>0, DocIs DEF Keeps, Ordered
<1>2. ASSUME NEW i \in 1..k
      PROVE  /\ o[i] \in Nat \ {0} /\ Len(d[i]) \in Nat
             /\ o[i] + Len(d[i]) + Len(d[i]) <= Len(toks)
  <2>1. i \in 1..Len(o) /\ i \in 1..Len(d)
    BY <1>0, <1>1
  <2>2. o[i] \in 4..Len(toks) /\ Len(d[i]) \in Nat
    BY <1>0, <2>1, DocIs DEF Ordered
  <2>3. EndOf(d, o, i) = o[i] + 2 * Len(d[i])
    BY <2>1, <2>2 DEF EndOf
  <2>4. EndOf(d, o, i) <= Len(toks)
    <3>1. CASE i = k
      BY <1>0, <3>1
    <3>2. CASE i # k
      <4>1. PICK m \in Nat : m = i + 1
        BY <1>1
      <4>2. m \in 1..k /\ m \in 1..Len(o) /\ m - 1 = i
        BY <1>0, <1>1, <3>2, <4>1
      <4>3. o[m] = EndOf(d, o, i) + 1
        BY <1>0, <4>2 DEF ListTokens
      <4>4. o[m] \in 4..Len(toks)
        BY <1>0, <4>2 DEF Ordered
      <4>5. EndOf(d, o, i) \in Int
        BY <2>2, <2>3
      <4>6. QED
        BY <1>1, <4>3, <4>4, <4>5
    <3>3. QED
      BY <3>1, <3>2
  <2>5. QED
    BY <2>2, <2>3, <2>4
<1>3. \A i \in 0..k : EndOf(d, o2, i) = EndOf(d, o, i)
  BY <1>1 DEF EndOf
<1>4. ASSUME NEW i \in 1..k
      PROVE  /\ o2[i] = EndOf(d, o2, i - 1) + 1
             /\ ApTokens(d[i], new, o2[i], Len(d[i]), Len(d[i]))
  <2>1. /\ o[i] = EndOf(d, o, i - 1) + 1 /\ o2[i] = o[i] /\ o[i] # super
        /\ ApTokens(d[i], toks, o[i], Len(d[i]), Len(d[i]))
    BY <1>0 DEF ListTokens
  <2>2. i - 1 \in 0..k
    BY <1>1
  <2>3. ApTokens(d[i], new, o[i], Len(d[i]), Len(d[i]))
    <3> DEFINE x == d[i]
               j == o[i]
               m == Len(d[i])
    <3>1. /\ j \in Nat \ {0} /\ m \in Nat /\ j + m + m <= Len(toks)
      BY <1>2
    <3>2. m <= m /\ m <= m + 1
      BY <3>1
    <3>3. j # super /\ ApTokens(x, toks, j, m, m)
      BY <2>1
    <3>4. ApInside(x, toks, j, m, m)
      BY <3>1, <3>2, <3>3 DEF ApInside
    <3> HIDE DEF x, j, m
    <3>5. ApTokens(x, new, j, m, m)
      BY <3>3, <3>4, ApKept
    <3>6. QED
      BY <3>5 DEF x, j, m
  <2>4. QED
    BY <1>3, <2>1, <2>2, <2>3
<1>5. k \in 0..k
  BY <1>1
<1>6. QED
  BY <1>3, <1>4, <1>5 DEF ListTokens

LEMMA AddedKeeps ==
  ASSUME NEW toks, NEW super, NEW token, NEW new, Added(toks, super, token, new)
  PROVE  Keeps(toks, new, super)
<1>1. Len(toks) \in Nat
  BY DEF Added
<1>2. QED
  BY <1>1, TokenAdded DEF Keeps

(***************************************************************************)
(* Where the tokens of a place are.                                        *)
(***************************************************************************)
LEMMA KnownPlace ==
  ASSUME NEW d, Known(d), NEW p, Exists(d, p)
  PROVE  /\ d \in Docs /\ Len(d) \in Nat /\ p.at \in Ats
         /\ p.k \in 0..Len(d) /\ p.a \in Nat
         /\ p.at \in InAp => /\ p.k \in 1..Len(d) /\ Len(d[p.k]) \in Nat
                             /\ p.a \in 0..Len(d[p.k]) /\ ValuesAt(p) \in 0..p.a
                             /\ p.a <= ValuesAt(p) + 1
<1>1. d \in Docs /\ p \in Places /\ p.k <= Len(d)
  BY DEF Known, Exists
<1>2. /\ Len(d) \in Nat /\ p.at \in Ats /\ p.k \in Nat /\ p.a \in Nat
  BY <1>1, DocIs DEF Places
<1>3. ASSUME p.at \in InAp
      PROVE  /\ p.k \in 1..Len(d) /\ p.a <= Len(d[p.k])
             /\ p.at \in {"key", "value"} => p.a > 0
  BY <1>1, <1>2, <1>3 DEF Exists
<1>4. ASSUME p.at \in InAp
      PROVE  Len(d[p.k]) \in Nat
  BY <1>1, <1>3, <1>4, DocIs
<1>5. QED
  BY <1>1, <1>2, <1>3, <1>4 DEF ValuesAt

LEMMA TopIs ==
  ASSUME NEW p, p.at \in Ats, NEW toks, NEW super, NEW o, NEW y,
         Built(p, toks, super, o, y)
  PROVE  /\ Len(toks) \in Nat
         /\ p.at = "open" => Len(toks) = 0
         /\ p.at = "name" => Len(toks) = 1
         /\ p.at \in {"named", "array"} => Len(toks) = 2
         /\ p.at \in InList => Len(toks) >= 3 /\ Ordered(toks, o)
<1>1. Len(toks) \in Nat
  BY DEF Built
<1>2. QED
  BY <1>1 DEF Built, Shape, Listed

LEMMA TopKept ==
  ASSUME NEW p, p.at \in Ats, NEW toks, NEW super, NEW o, NEW y,
         Built(p, toks, super, o, y), TopContent(p.at, toks),
         NEW new, NEW other, Keeps(toks, new, other)
  PROVE  TopContent(p.at, new)
<1>1. /\ Len(toks) \in Nat
      /\ p.at # "open" => Len(toks) >= 1
      /\ p.at \notin {"open", "name"} => Len(toks) >= 2
  BY TopIs DEF Ats
<1>2. p.at # "open" => 1 \in 1..Len(toks)
  BY <1>1
<1>3. p.at \notin {"open", "name"} => 2 \in 1..Len(toks)
  BY <1>1
<1>4. QED
  BY <1>2, <1>3 DEF Keeps, TopContent, json_token_eq_str

LEMMA ContentIs ==
  ASSUME NEW d, Known(d), NEW p, Exists(d, p), p.at \in InList,
         NEW toks, NEW super, NEW o, NEW y, Built(p, toks, super, o, y),
         Content(d, p, toks, o)
  PROVE  /\ Len(o) = p.k
         /\ \A i \in 1..Len(o) : o[i] \in 4..Len(toks)
         /\ p.at \in InAp =>
              /\ ListTokens(d, p.k - 1, toks, o)
              /\ EndOf(d, o, p.k - 1) <= Len(toks)
              /\ o[p.k] = EndOf(d, o, p.k - 1) + 1
              /\ LastIn(o) = o[p.k]
              /\ \A i \in 1..(p.k - 1) : o[i] < o[p.k]
              /\ ApInside(d[p.k], toks, o[p.k], p.a, ValuesAt(p))
              /\ Len(toks) = o[p.k] + p.a + ValuesAt(p)
         /\ p.at \notin InAp =>
              ListTokens(d, p.k, toks, o) /\ EndOf(d, o, p.k) = Len(toks)
<1>1. /\ Len(toks) \in Nat /\ Ordered(toks, o) /\ p.at \in Ats
      /\ Len(o) = p.k
  BY TopIs, KnownPlace DEF Content
<1>2. \A i \in 1..Len(o) : o[i] \in 4..Len(toks)
  BY <1>1 DEF Ordered
<1>3. CASE p.at \in InAp
  <2>1. /\ p.k \in 1..Len(d) /\ Len(d) \in Nat /\ Len(d[p.k]) \in Nat
        /\ p.a \in 0..Len(d[p.k]) /\ ValuesAt(p) \in 0..p.a
        /\ p.a <= ValuesAt(p) + 1
    BY <1>3, KnownPlace
  <2>2. /\ ListTokens(d, p.k - 1, toks, o)
        /\ o[p.k] = EndOf(d, o, p.k - 1) + 1
        /\ ApTokens(d[p.k], toks, o[p.k], p.a, ValuesAt(p))
        /\ Len(toks) = o[p.k] + p.a + ValuesAt(p)
    BY <1>3 DEF Content, ApContent
  <2>3. p.k \in 1..Len(o) /\ p.k \in Nat \ {0}
    BY <1>1, <2>1
  <2>4. o[p.k] \in 4..Len(toks)
    BY <1>2, <2>3
  <2>5. \A i \in 1..(p.k - 1) : i \in 1..Len(o) /\ i < p.k
    BY <1>1, <2>3
  <2>6. \A i \in 1..(p.k - 1) : o[i] < o[p.k]
    BY <1>1, <2>3, <2>5 DEF Ordered
  <2>7. LastIn(o) = o[p.k]
    BY <1>1, <2>3 DEF LastIn
  <2>8. p.k - 1 = 0 \/ p.k - 1 \in 1..(p.k - 1)
    BY <2>3
  <2>9. EndOf(d, o, p.k - 1) \in Int
    <3>1. CASE p.k - 1 = 0
      BY <3>1 DEF EndOf
    <3>2. CASE p.k - 1 \in 1..(p.k - 1)
      <4>1. p.k - 1 \in 1..Len(o) /\ p.k - 1 \in 1..Len(d)
        BY <2>1, <2>5, <3>2
      <4>2. o[p.k - 1] \in Nat /\ Len(d[p.k - 1]) \in Nat
        BY <1>2, <4>1, KnownPlace, DocIs DEF Known
      <4>3. QED
        BY <4>2 DEF EndOf
    <3>3. QED
      BY <2>8, <3>1, <3>2
  <2>10. EndOf(d, o, p.k - 1) <= Len(toks)
    BY <1>1, <2>2, <2>4, <2>9
  <2>11. ApInside(d[p.k], toks, o[p.k], p.a, ValuesAt(p))
    BY <2>1, <2>2, <2>4 DEF ApInside
  <2>12. QED
    BY <1>1, <1>2, <1>3, <2>2, <2>6, <2>7, <2>10, <2>11
<1>4. CASE p.at \notin InAp
  BY <1>1, <1>2, <1>4 DEF Content, ListContent
<1>5. QED
  BY <1>3, <1>4

(***************************************************************************)
(* The steps that open an object or the array.                             *)
(***************************************************************************)
LEMMA OpenedContent ==
  ASSUME NEW d, Known(d), NEW p, Exists(d, p), NEW l, NEW q, Exists(d, q),
         q.at \notin InInner, OpensAt(p, l, q),
         NEW toks, NEW super, NEW o, NEW y, Built(p, toks, super, o, y),
         Content(d, p, toks, o),
         NEW token, NEW new, Added(toks, super, token, new),
         token.type = TypeOfMark(l.lex)
  PROVE  Content(d, q, new, ListAfter(q, o, Len(toks)))
<1> DEFINE n == Len(toks)
           o2 == ListAfter(q, o, n)
<1>1. /\ n \in Nat /\ Len(new) = n + 1 /\ new[n + 1] = token
      /\ token.size = 0 /\ p.at \in Ats /\ p.at \notin InInner
      /\ TopContent(p.at, toks)
  BY TokenAdded, KnownPlace DEF Added, Content
<1>2. Keeps(toks, new, super)
  BY AddedKeeps
<1>3. TopContent(p.at, new)
  BY <1>1, <1>2, TopKept
<1>4. CASE p.at = "open" /\ l.lex = "lbrace" /\ q.at = "name"
  <2>1. n = 0 /\ token.type = "OBJECT"
    BY <1>1, <1>4, TopIs DEF TypeOfMark
  <2>2. new[1].type = "OBJECT"
    BY <1>1, <2>1
  <2>3. TopContent(q.at, new) /\ q.at \notin InList
    BY <1>4, <2>2 DEF TopContent, InList, InAp, InInner
  <2>4. q.at \notin InAp
    BY <2>3 DEF InList
  <2>5. QED
    BY <2>3, <2>4 DEF Content
<1>5. CASE p.at = "array" /\ q.at = "list" /\ q.k = 0
  <2>1. n = 2 /\ o2 = << >>
    BY <1>1, <1>5, TopIs DEF ListAfter
  <2>2. TopContent(q.at, new)
    BY <1>3, <1>5 DEF TopContent
  <2>3. ListContent(d, q, new, o2)
    <3>1. Len(new) = 3 /\ EndOf(d, o2, 0) = 3
      BY <1>1, <2>1 DEF EndOf
    <3>2. ListTokens(d, 0, new, o2)
      BY DEF ListTokens
    <3>3. QED
      BY <1>5, <3>1, <3>2 DEF ListContent
  <2>4. q.at \in InList \ InAp
    BY <1>5 DEF InList, InAp, InInner
  <2>5. Len(o2) = q.k
    BY <1>5, <2>1
  <2>6. QED
    BY <2>2, <2>3, <2>4, <2>5 DEF Content
<1>6. CASE /\ p.at \in {"list", "list_more"} /\ l.lex = "lbrace"
           /\ q.at = "ap" /\ q.k = p.k + 1 /\ q.a = 0
  <2>1. p.at \in InList \ InAp /\ q.at \in InAp /\ q.at \in InList
    BY <1>6 DEF InList, InAp, InInner
  <2>2. /\ Len(o) = p.k /\ \A i \in 1..Len(o) : o[i] \in 4..n
        /\ ListTokens(d, p.k, toks, o) /\ EndOf(d, o, p.k) = n
    BY <2>1, ContentIs
  <2>3. /\ n >= 3 /\ Ordered(toks, o) /\ super = 3 /\ o \in Seq(Nat)
    <3>1. n >= 3 /\ Ordered(toks, o)
      BY <1>1, <2>1, TopIs
    <3>2. super = 3
      BY <1>6 DEF Built, SuperAt
    <3>3. QED
      BY <3>1, <3>2 DEF Ordered
  <2>4. o2 = Append(o, n + 1)
    BY <1>6 DEF ListAfter
  <2>5. /\ p.k \in 0..Len(d) /\ q.k \in 1..Len(d) /\ p.k \in Nat /\ q.k - 1 = p.k
    BY <1>6, <2>1, KnownPlace
  <2>6. Len(o2) = q.k /\ o2[q.k] = n + 1 /\ \A i \in 1..p.k : o2[i] = o[i]
    BY <1>6, <2>2, <2>3, <2>4, <2>5
  <2>7. \A i \in 1..p.k : o2[i] = o[i] /\ o[i] # super
    BY <2>2, <2>3, <2>6
  <2>8. ListTokens(d, p.k, new, o2) /\ EndOf(d, o2, p.k) = n
    <3> DEFINE k == p.k
    <3>1. /\ d \in Docs /\ k \in 0..Len(d) /\ k <= Len(o)
          /\ EndOf(d, o, k) <= n /\ EndOf(d, o, k) = n
      BY <1>1, <2>2, <2>5, KnownPlace
    <3>2. /\ ListTokens(d, k, toks, o) /\ Ordered(toks, o)
          /\ \A i \in 1..k : o2[i] = o[i] /\ o[i] # super
      BY <2>2, <2>3, <2>7
    <3>3. ListInside(d, k, toks, o)
      BY <3>1, <3>2 DEF ListInside
    <3> HIDE DEF k, o2
    <3>4. ListTokens(d, k, new, o2) /\ EndOf(d, o2, k) = EndOf(d, o, k)
      BY <1>2, <3>2, <3>3, ListKept
    <3>5. QED
      BY <3>1, <3>4 DEF k
  <2>9. ValuesAt(q) = 0
    BY <1>6 DEF ValuesAt
  <2>10. ApTokens(d[q.k], new, o2[q.k], 0, 0)
    <3>1. IsObject(new, n + 1) /\ new[n + 1].size = 0
      BY <1>1, <1>6 DEF IsObject, TypeOfMark
    <3>2. QED
      BY <2>6, <3>1 DEF ApTokens, ApPairs
  <2>11. Len(new) = o2[q.k] + 0 + 0
    BY <1>1, <2>6
  <2>12. ApContent(d, q, new, o2)
    BY <1>6, <2>5, <2>6, <2>8, <2>9, <2>10, <2>11 DEF ApContent
  <2>13. TopContent(q.at, new)
    BY <1>3, <1>6 DEF TopContent
  <2>14. QED
    BY <2>1, <2>6, <2>12, <2>13 DEF Content
<1>7. QED
  BY <1>4, <1>5, <1>6 DEF OpensAt

(***************************************************************************)
(* Those over a string or a number.                                        *)
(***************************************************************************)
LEMMA PutContent ==
  ASSUME NEW d, Known(d), NEW p, Exists(d, p), NEW l, NEW q, Exists(d, q),
         q.at \notin InInner, PutsAt(d, p, l, q),
         NEW toks, NEW super, NEW o, NEW y, Built(p, toks, super, o, y),
         Content(d, p, toks, o),
         NEW token, NEW new, Added(toks, super, token, new),
         token.type = IF l.lex = "str" THEN "STRING" ELSE "PRIMITIVE",
         token.value = l.value
  PROVE  Content(d, q, new, o)
<1> DEFINE n == Len(toks)
<1>1. /\ n \in Nat /\ Len(new) = n + 1 /\ new[n + 1] = token
      /\ token.size = 0 /\ p.at \in Ats /\ p.at \notin InInner
      /\ TopContent(p.at, toks)
  BY TokenAdded, KnownPlace DEF Added, Content
<1>2. Keeps(toks, new, super)
  BY AddedKeeps
<1>3. TopContent(p.at, new)
  BY <1>1, <1>2, TopKept
<1>4. ASSUME NEW s, l = Str(s)
      PROVE  json_token_eq_str(new[n + 1], s)
  BY <1>1, <1>4, LexOf DEF json_token_eq_str
<1>5. CASE p.at = "name" /\ l = Str("access_points") /\ q.at = "named"
  <2>1. n = 1
    BY <1>1, <1>5, TopIs
  <2>2. json_token_eq_str(new[1 + 1], "access_points")
    BY <1>4, <1>5, <2>1
  <2>3. TopContent(q.at, new)
    BY <1>3, <1>5, <2>2 DEF TopContent
  <2>4. q.at \notin InList /\ q.at \notin InAp
    BY <1>5 DEF InList, InAp, InInner
  <2>5. QED
    BY <2>3, <2>4 DEF Content
<1>6. ASSUME p.at \in InAp, q.at \in InAp, q.k = p.k,
             ApTokens(d[p.k], new, o[p.k], q.a, ValuesAt(q)),
             n + 1 = o[p.k] + q.a + ValuesAt(q),
             super \notin {o[i] : i \in 1..(p.k - 1)}
      PROVE  Content(d, q, new, o)
  <2>1. p.at \in InList /\ q.at \in InList
    BY <1>6 DEF InList
  <2>2. /\ Len(o) = p.k
        /\ ListTokens(d, p.k - 1, toks, o) /\ EndOf(d, o, p.k - 1) <= n
        /\ o[p.k] = EndOf(d, o, p.k - 1) + 1
    BY <1>6, <2>1, ContentIs
  <2>3. Ordered(toks, o)
    BY <1>1, <2>1, TopIs
  <2>4. p.k \in 1..Len(d) /\ d \in Docs /\ Len(d) \in Nat
    BY <1>6, KnownPlace
  <2>5. PICK k \in Nat : k = p.k - 1
    BY <2>4
  <2>6. k \in 0..Len(d) /\ k <= Len(o)
    BY <2>2, <2>4, <2>5
  <2>7. \A i \in 1..k : o[i] = o[i] /\ o[i] # super
    BY <1>6, <2>5
  <2>8. ListTokens(d, k, new, o)
    <3>1. ListInside(d, k, toks, o)
      BY <2>2, <2>3, <2>4, <2>5, <2>6 DEF ListInside
    <3>2. QED
      BY <1>2, <2>7, <3>1, ListKept
  <2>9. ApContent(d, q, new, o)
    BY <1>1, <1>6, <2>2, <2>5, <2>8 DEF ApContent
  <2>10. TopContent(q.at, new)
    BY <1>3, <1>6 DEF TopContent, InAp, InInner
  <2>11. QED
    BY <1>6, <2>1, <2>2, <2>9, <2>10 DEF Content
<1>7. CASE /\ p.at = "ap_more" \/ (p.at = "ap" /\ p.a = 0)
           /\ l = Str(d[p.k][p.a + 1].key)
           /\ q.at = "key" /\ q.k = p.k /\ q.a = p.a + 1
  <2>1. p.at \in InAp /\ q.at \in InAp /\ p.at \in InList
    BY <1>7 DEF InList, InAp, InInner
  <2>2. /\ Len(o) = p.k /\ LastIn(o) = o[p.k]
        /\ \A i \in 1..Len(o) : o[i] \in 4..n
        /\ \A i \in 1..(p.k - 1) : o[i] < o[p.k]
        /\ ApInside(d[p.k], toks, o[p.k], p.a, ValuesAt(p))
        /\ n = o[p.k] + p.a + ValuesAt(p)
    BY <2>1, ContentIs
  <2>3. ValuesAt(p) = p.a /\ ValuesAt(q) = p.a
    <3>1. p.a \in Nat
      BY KnownPlace
    <3>2. QED
      BY <1>7, <3>1 DEF ValuesAt
  <2>4. super = o[p.k]
    <3>1. p.at = "ap" => ~(p.a > 0)
      BY <1>7, KnownPlace
    <3>2. QED
      BY <1>7, <2>2, <3>1 DEF Built, SuperAt
  <2>5. super \notin {o[i] : i \in 1..(p.k - 1)}
    <3>1. p.k \in 1..Len(o) /\ p.k \in Nat
      BY <2>1, <2>2, KnownPlace
    <3>2. \A i \in 1..(p.k - 1) : i \in 1..Len(o)
      BY <2>2, <3>1
    <3>3. \A i \in 1..(p.k - 1) : o[i] # o[p.k]
      BY <2>2, <3>1, <3>2
    <3>4. QED
      BY <2>4, <3>3
  <2>6. ApTokens(d[p.k], new, o[p.k], p.a + 1, p.a)
    <3> DEFINE x == d[p.k]
               j == o[p.k]
               m == p.a
    <3>1. ApInside(x, toks, j, m, m) /\ n = j + m + m /\ super = j
      BY <2>2, <2>3, <2>4
    <3>2. json_token_eq_str(new[n + 1], x[m + 1].key)
      BY <1>4, <1>7
    <3> HIDE DEF x, j, m
    <3>3. ApPairs(x, new, j, m, m)
      BY <1>2, <3>1, ApKept
    <3>4. /\ j \in Nat \ {0} /\ m \in Nat /\ toks[j].size = m /\ j \in 1..n
      BY <1>1, <3>1 DEF ApInside, ApTokens
    <3>5. new[j].size = m + 1
      <4>1. \A i \in 1..n : i = super => new[i].size = toks[i].size + 1
        BY AddedIs
      <4>2. QED
        BY <3>1, <3>4, <4>1
    <3>6. ASSUME NEW a \in 1..(m + 1)
          PROVE  json_token_eq_str(new[j + 2 * a - 1], x[a].key)
      <4>1. CASE a \in 1..m
        BY <3>3, <4>1 DEF ApPairs
      <4>2. CASE a = m + 1
        <5>1. j + 2 * a - 1 = n + 1
          BY <3>1, <3>4, <4>2
        <5>2. QED
          BY <3>2, <4>2, <5>1
      <4>3. QED
        BY <3>4, <4>1, <4>2
    <3>7. ApTokens(x, new, j, m + 1, m)
      BY <3>3, <3>5, <3>6 DEF ApTokens, ApPairs
    <3>8. QED
      BY <3>7 DEF x, j, m
  <2>7. n + 1 = o[p.k] + q.a + ValuesAt(q)
    <3>1. p.a \in Nat /\ p.k \in 1..Len(o)
      BY <2>1, <2>2, KnownPlace
    <3>2. PICK j \in Nat : j = o[p.k]
      BY <2>2, <3>1
    <3>3. PICK m \in Nat : m = p.a
      BY <3>1
    <3>4. n = j + m + m
      BY <2>2, <2>3, <3>2, <3>3
    <3>5. n + 1 = j + (m + 1) + m
      BY <3>4
    <3>6. QED
      BY <1>7, <2>3, <3>2, <3>3, <3>5
  <2>8. QED
    BY <1>6, <1>7, <2>1, <2>3, <2>5, <2>6, <2>7
<1>8. CASE /\ p.at = "value" /\ l.value = d[p.k][p.a].value
           /\ q.at = "ap" /\ q.k = p.k /\ q.a = p.a
  <2>1. p.at \in InAp /\ q.at \in InAp /\ p.at \in InList
    BY <1>8 DEF InList, InAp, InInner
  <2>2. /\ Len(o) = p.k
        /\ \A i \in 1..Len(o) : o[i] \in 4..n
        /\ \A i \in 1..(p.k - 1) : o[i] < o[p.k]
        /\ ApInside(d[p.k], toks, o[p.k], p.a, ValuesAt(p))
        /\ n = o[p.k] + p.a + ValuesAt(p)
    BY <2>1, ContentIs
  <2>3. ValuesAt(p) = p.a - 1 /\ ValuesAt(q) = p.a /\ p.a \in Nat /\ p.a > 0
    <3>1. p.a \in Nat /\ ValuesAt(p) \in 0..p.a
      BY <2>1, KnownPlace
    <3>2. QED
      BY <1>8, <3>1 DEF ValuesAt
  <2>4. super = n
    BY <1>8 DEF Built, SuperAt
  <2>5. o[p.k] \in Nat /\ o[p.k] < n /\ p.k \in 1..Len(o)
    <3>1. p.k \in 1..Len(o) /\ o[p.k] \in Nat
      BY <2>1, <2>2, KnownPlace
    <3>2. QED
      BY <2>2, <2>3, <3>1
  <2>6. super \notin {o[i] : i \in 1..(p.k - 1)}
    <3>1. \A i \in 1..(p.k - 1) : i \in 1..Len(o)
      BY <2>2, <2>5
    <3>2. \A i \in 1..(p.k - 1) : o[i] # n
      BY <1>1, <2>2, <2>5, <3>1
    <3>3. QED
      BY <2>4, <3>2
  <2>7. ApTokens(d[p.k], new, o[p.k], p.a, p.a)
    <3> DEFINE x == d[p.k]
               j == o[p.k]
    <3>1. PICK m \in Nat : m = p.a - 1
      BY <2>3
    <3>2. /\ ApInside(x, toks, j, m + 1, m) /\ n = j + (m + 1) + m
          /\ super # j /\ j \in Nat /\ p.a = m + 1
      BY <2>2, <2>3, <2>4, <2>5, <3>1
    <3>3. new[n + 1].value = x[m + 1].value
      BY <1>1, <1>8, <3>2
    <3> HIDE DEF x, j
    <3>4. ApTokens(x, new, j, m + 1, m)
      BY <1>2, <3>2, ApKept
    <3>5. ASSUME NEW a \in 1..(m + 1)
          PROVE  new[j + 2 * a].value = x[a].value
      <4>1. CASE a \in 1..m
        BY <3>4, <4>1 DEF ApTokens, ApPairs
      <4>2. CASE a = m + 1
        <5>1. j + 2 * a = n + 1
          BY <3>2, <4>2
        <5>2. QED
          BY <3>3, <4>2, <5>1
      <4>3. QED
        BY <4>1, <4>2
    <3>6. ApTokens(x, new, j, m + 1, m + 1)
      BY <3>4, <3>5 DEF ApTokens, ApPairs
    <3>7. QED
      BY <3>2, <3>6 DEF x, j
  <2>8. n + 1 = o[p.k] + q.a + ValuesAt(q)
    <3>1. PICK j \in Nat : j = o[p.k]
      BY <2>5
    <3>2. PICK m \in Nat : m = p.a - 1
      BY <2>3
    <3>3. p.a = m + 1
      BY <2>3, <3>2
    <3>4. n = j + (m + 1) + m
      BY <2>2, <2>3, <3>1, <3>2, <3>3
    <3>5. n + 1 = j + (m + 1) + (m + 1)
      BY <3>4
    <3>6. QED
      BY <1>8, <2>3, <3>1, <3>3, <3>5
  <2>9. QED
    BY <1>6, <1>8, <2>1, <2>3, <2>6, <2>7, <2>8
<1>9. QED
  BY <1>5, <1>7, <1>8 DEF PutsAt

(***************************************************************************)
(* Those that add no token.                                                *)
(***************************************************************************)
LEMMA StoodContent ==
  ASSUME NEW d, Known(d), NEW p, Exists(d, p), NEW l, NEW q, Exists(d, q),
         q.at \notin InInner, StandsAt(d, p, l, q),
         NEW toks, NEW super, NEW o, NEW y, Built(p, toks, super, o, y),
         Content(d, p, toks, o),
         NEW new, Keeps(toks, new, 0), Len(new) = Len(toks)
  PROVE  Content(d, q, new, o)
<1> DEFINE n == Len(toks)
<1>1. /\ n \in Nat /\ p.at \in Ats /\ p.at \notin InInner
      /\ TopContent(p.at, toks) /\ d \in Docs
  BY KnownPlace DEF Keeps, Content
<1>2. TopContent(p.at, new)
  BY <1>1, TopKept
<1>3. TopContent(q.at, new)
  BY <1>2 DEF TopContent, StandsAt
<1>4. CASE p.at = "named" /\ q.at = "array"
  BY <1>3, <1>4 DEF Content, InList, InAp, InInner
<1>5. ASSUME p.at \in InAp
      PROVE  /\ ListTokens(d, p.k - 1, new, o)
             /\ o[p.k] = EndOf(d, o, p.k - 1) + 1
             /\ ApTokens(d[p.k], new, o[p.k], p.a, ValuesAt(p))
             /\ n = o[p.k] + p.a + ValuesAt(p) /\ Len(o) = p.k
             /\ o[p.k] \in Nat
  <2>1. p.at \in InList
    BY <1>5 DEF InList
  <2>2. /\ ListTokens(d, p.k - 1, toks, o) /\ EndOf(d, o, p.k - 1) <= n
        /\ o[p.k] = EndOf(d, o, p.k - 1) + 1 /\ Len(o) = p.k
        /\ \A i \in 1..Len(o) : o[i] \in 4..Len(toks)
        /\ ApInside(d[p.k], toks, o[p.k], p.a, ValuesAt(p))
        /\ n = o[p.k] + p.a + ValuesAt(p)
    BY <1>5, <2>1, ContentIs
  <2>3. Ordered(toks, o)
    BY <1>1, <2>1, TopIs
  <2>4. p.k \in 1..Len(d) /\ Len(d) \in Nat
    BY <1>5, KnownPlace
  <2>5. PICK k \in Nat : k = p.k - 1
    BY <2>4
  <2>6. k \in 0..Len(d) /\ k <= Len(o) /\ \A i \in 1..k : i \in 1..Len(o)
    BY <2>2, <2>4, <2>5
  <2>7. \A i \in 1..k : o[i] = o[i] /\ o[i] # 0
    BY <2>2, <2>6
  <2>8. ListTokens(d, k, new, o)
    <3>1. ListInside(d, k, toks, o)
      BY <1>1, <2>2, <2>3, <2>5, <2>6 DEF ListInside
    <3>2. QED
      BY <2>7, <3>1, ListKept
  <2>9. o[p.k] # 0 /\ o[p.k] \in Nat
    BY <2>2, <2>4
  <2>10. ApTokens(d[p.k], new, o[p.k], p.a, ValuesAt(p))
    BY <2>2, <2>9, ApKept
  <2>11. QED
    BY <2>2, <2>5, <2>8, <2>9, <2>10
<1>6. CASE /\ \/ p.at = "key" /\ q.at = "value"
              \/ p.at = "ap" /\ q.at = "ap_more"
           /\ q.a = p.a /\ q.k = p.k
  <2>1. /\ p.at \in InAp /\ q.at \in InAp /\ q.at \in InList
        /\ ValuesAt(q) = ValuesAt(p)
    BY <1>6 DEF InList, InAp, InInner, ValuesAt
  <2>2. ApContent(d, q, new, o) /\ Len(o) = q.k
    BY <1>5, <1>6, <2>1 DEF ApContent
  <2>3. QED
    BY <1>3, <2>1, <2>2 DEF Content
<1>7. CASE p.at = "ap" /\ p.a = Len(d[p.k]) /\ q.at = "list" /\ q.k = p.k
  <2>1. p.at \in InAp /\ q.at \in InList \ InAp /\ ValuesAt(p) = p.a
    BY <1>7 DEF InList, InAp, InInner, ValuesAt
  <2>2. p.k \in 1..Len(d) /\ p.a \in Nat
    BY <2>1, KnownPlace
  <2>3. /\ ListTokens(d, p.k - 1, new, o)
        /\ o[p.k] = EndOf(d, o, p.k - 1) + 1
        /\ ApTokens(d[p.k], new, o[p.k], p.a, p.a)
        /\ n = o[p.k] + p.a + p.a /\ Len(o) = p.k /\ o[p.k] \in Nat
    BY <1>5, <2>1
  <2>4. ListTokens(d, p.k, new, o)
    <3>1. ASSUME NEW i \in 1..p.k
          PROVE  /\ o[i] = EndOf(d, o, i - 1) + 1
                 /\ ApTokens(d[i], new, o[i], Len(d[i]), Len(d[i]))
      <4>1. CASE i = p.k
        BY <1>7, <2>3, <4>1
      <4>2. CASE i # p.k
        <5>1. i \in 1..(p.k - 1)
          BY <2>2, <4>2
        <5>2. QED
          BY <2>3, <5>1 DEF ListTokens
      <4>3. QED
        BY <4>1, <4>2
    <3>2. QED
      BY <3>1 DEF ListTokens
  <2>5. EndOf(d, o, p.k) = n
    <3>1. p.k # 0
      BY <2>2
    <3>2. PICK m \in Nat : m = p.a
      BY <2>2
    <3>3. EndOf(d, o, p.k) = o[p.k] + 2 * m
      BY <1>7, <3>1, <3>2 DEF EndOf
    <3>4. QED
      BY <2>3, <3>2, <3>3
  <2>6. ListContent(d, q, new, o)
    BY <1>7, <2>4, <2>5 DEF ListContent
  <2>7. QED
    BY <1>3, <1>7, <2>1, <2>3, <2>6 DEF Content
<1>8. CASE /\ p.at \in {"list", "list_more", "close", "end"} /\ q.k = p.k
           /\ q.at \in {"list", "list_more", "close", "end"}
  <2>1. p.at \in InList \ InAp /\ q.at \in InList \ InAp
    BY <1>8 DEF InList, InAp, InInner
  <2>2. /\ Len(o) = p.k /\ \A i \in 1..Len(o) : o[i] \in 4..n
        /\ ListTokens(d, p.k, toks, o) /\ EndOf(d, o, p.k) = n
    BY <2>1, ContentIs
  <2>3. Ordered(toks, o)
    BY <1>1, <2>1, TopIs
  <2>4. p.k \in 0..Len(d) /\ p.k <= Len(o) /\ EndOf(d, o, p.k) <= n
    BY <1>1, <2>2, KnownPlace
  <2>5. \A i \in 1..p.k : o[i] = o[i] /\ o[i] # 0
    BY <2>2
  <2>6. ListTokens(d, p.k, new, o)
    <3> DEFINE k == p.k
    <3>1. /\ k \in 0..Len(d) /\ k <= Len(o) /\ EndOf(d, o, k) <= n
          /\ ListTokens(d, k, toks, o) /\ \A i \in 1..k : o[i] = o[i] /\ o[i] # 0
      BY <2>2, <2>4, <2>5
    <3>2. ListInside(d, k, toks, o)
      BY <1>1, <2>3, <3>1 DEF ListInside
    <3> HIDE DEF k
    <3>3. ListTokens(d, k, new, o)
      BY <3>1, <3>2, ListKept
    <3>4. QED
      BY <3>3 DEF k
  <2>7. ListContent(d, q, new, o)
    BY <1>8, <2>2, <2>6 DEF ListContent
  <2>8. QED
    BY <1>3, <1>8, <2>1, <2>2, <2>7 DEF Content
<1>9. QED
  BY <1>4, <1>6, <1>7, <1>8 DEF StandsAt

(***************************************************************************)
(* A bracket that closes one finds what it closes.                         *)
(***************************************************************************)
LEMMA KnownCloses ==
  ASSUME NEW d, Known(d), NEW p, NEW l, NEW q, Reads(d, p, l, q),
         NEW toks, NEW super, NEW o, NEW y, Built(p, toks, super, o, y),
         Content(d, p, toks, o), l.lex \in {"rbrace", "rbracket"}
  PROVE  /\ LastOpen(toks) # 0
         /\ toks[LastOpen(toks)].type = TypeOfMark(l.lex)
<1>1. Exists(d, p) /\ d \in Docs /\ p.at \notin InInner
  BY DEF Reads, Known, Content
<1>2. MovesSomehow(p, l, q)
  BY <1>1, ReadsMoves
<1>3. \/ p.at \in {"close", "ap"} /\ l.lex = "rbrace"
      \/ p.at = "list" /\ l.lex = "rbracket"
  BY <1>1, <1>2 DEF MovesSomehow, Moves, InInner
<1>4. CASE p.at = "close" /\ l.lex = "rbrace"
  <2>1. LastOpen(toks) = 1
    BY <1>4, LastOpenAt
  <2>2. QED
    BY <1>4, <2>1 DEF Content, TopContent, TypeOfMark
<1>5. CASE p.at = "ap" /\ l.lex = "rbrace"
  <2>1. p.at \in InAp \ InInner /\ p.at \in InList
    BY <1>5 DEF InList, InAp, InInner
  <2>2. LastOpen(toks) = LastIn(o)
    BY <2>1, LastOpenAt
  <2>3. /\ LastIn(o) = o[p.k]
        /\ ApInside(d[p.k], toks, o[p.k], p.a, ValuesAt(p))
    BY <1>1, <2>1, ContentIs
  <2>4. o[p.k] # 0 /\ toks[o[p.k]].type = "OBJECT"
    BY <2>3 DEF ApInside, ApTokens, ApPairs, IsObject
  <2>5. QED
    BY <1>5, <2>2, <2>3, <2>4 DEF TypeOfMark
<1>6. CASE p.at = "list" /\ l.lex = "rbracket"
  <2>1. LastOpen(toks) = 3
    BY <1>6, LastOpenAt
  <2>2. toks[3].type = "ARRAY"
    BY <1>6 DEF Built, InList, Shape, Listed
  <2>3. QED
    BY <1>6, <2>1, <2>2 DEF TypeOfMark
<1>7. QED
  BY <1>3, <1>4, <1>5, <1>6

(***************************************************************************)
(* The steps over a lexeme: they fail only when the array of tokens is     *)
(* full.                                                                   *)
(***************************************************************************)
TokenLexes == {"lbrace", "lbracket", "str", "prim"}

IsFull == /\ Len(tokens) >= EXPECTED_TOKENS
          /\ pos \in 1..Len(text) /\ text[pos].lex \in TokenLexes

LEMMA FailsAtTheEnd ==
  ASSUME Parsing, OpeningBracket \/ StringOrPrimitive, Fails
  PROVE  IsFull
<1>1. pos \in Nat /\ pos' = pos
  BY DEF Parsing, Fails, jsmn
<1>2. ~(pos' = pos + 1)
  BY <1>1
<1>3. Len(tokens) >= EXPECTED_TOKENS
  BY <1>2 DEF OpeningBracket, StringOrPrimitive, AddToken
<1>4. pos \in 1..Len(text) /\ text[pos].lex \in TokenLexes
  BY Opens, Puts DEF TokenLexes
<1>5. QED
  BY <1>3, <1>4 DEF IsFull

LEMMA LexemeContent ==
  ASSUME Parsing, Known(doc), NEW f, IsRun(f, doc, text, Start, End(doc)),
         NEW o, NEW y, Built(f[pos], tokens, toksuper, o, y),
         Content(doc, f[pos], tokens, o),
         OpeningBracket \/ ClosingBracket \/ StringOrPrimitive \/ Colon \/ Comma
  PROVE  \/ Fails /\ IsFull
         \/ /\ Goes
            /\ \E o2, y2 : /\ Built(f[pos'], tokens', toksuper', o2, y2)
                           /\ Content(doc, f[pos'], tokens', o2)
<1> DEFINE p == f[pos]
           l == text[pos]
           q == f[pos + 1]
<1>1. pos \in 1..Len(text)
  BY Opens, Closes, Puts, Passes DEF Goes
<1>2. Reads(doc, p, l, q)
  BY <1>1 DEF IsRun
<1>3. Exists(doc, p) /\ Exists(doc, q)
  BY <1>2 DEF Reads
<1>4. p.at \notin InInner
  BY DEF Content
<1>5. KnownMoves(doc, p, l, q)
  BY <1>2, <1>4, KnownReads
<1>6. /\ q.at \notin InInner
      /\ l.lex \in {"lbrace", "lbracket"} => OpensAt(p, l, q)
      /\ l.lex \in {"str", "prim"} => PutsAt(doc, p, l, q)
      /\ l.lex \in {"colon", "comma", "rbrace", "rbracket"} =>
           StandsAt(doc, p, l, q)
  BY <1>5 DEF KnownMoves, OpensAt, PutsAt, StandsAt
<1>7. Fails => pos' = pos
  BY DEF Fails, jsmn
<1>8. ~(Fails /\ Goes)
  <2>1. pos \in Nat
    BY <1>1
  <2>2. QED
    BY <1>7, <2>1 DEF Goes
<1>9. Goes => f[pos'] = q
  BY DEF Goes
<1>10. \/ Fails
       \/ /\ Goes
          /\ \E o2, y2 :
               /\ Built(f[pos'], tokens', toksuper', o2, y2)
               /\ o2 = IF text[pos].lex \in {"lbrace", "lbracket"}
                         THEN ListAfter(f[pos'], o, Len(tokens)) ELSE o
  BY LexemeBuilt
<1>11. /\ Built(p, tokens, toksuper, o, y) /\ Content(doc, p, tokens, o)
       /\ l = text[pos]
  OBVIOUS
<1> HIDE DEF p, l, q
<1>12. ASSUME Goes,
              Content(doc, q, tokens',
                      IF l.lex \in {"lbrace", "lbracket"}
                        THEN ListAfter(q, o, Len(tokens)) ELSE o)
       PROVE  \E o2, y2 : /\ Built(f[pos'], tokens', toksuper', o2, y2)
                          /\ Content(doc, f[pos'], tokens', o2)
  BY <1>8, <1>9, <1>10, <1>11, <1>12
<1>13. CASE OpeningBracket
  <2>1. /\ l.lex \in {"lbrace", "lbracket"}
        /\ \/ Fails
           \/ Goes /\ \E token : /\ Adds(token, Len(tokens) + 1)
                                 /\ token.end = 0
                                 /\ token.type = TypeOfMark(l.lex)
    BY <1>11, <1>13, Opens
  <2>2. ASSUME Goes, NEW token, Adds(token, Len(tokens) + 1),
               token.type = TypeOfMark(l.lex)
        PROVE  Content(doc, q, tokens', ListAfter(q, o, Len(tokens)))
    <3>1. Added(tokens, toksuper, token, tokens')
      BY <2>2 DEF Parsing, Adds, Added
    <3>2. QED
      BY <1>3, <1>6, <1>11, <2>1, <2>2, <3>1, OpenedContent
  <2>3. Fails => IsFull
    BY <1>13, FailsAtTheEnd
  <2>4. QED
    BY <1>12, <2>1, <2>2, <2>3
<1>14. CASE StringOrPrimitive
  <2>1. /\ l.lex \in {"str", "prim"}
        /\ \/ Fails
           \/ Goes /\ \E token : /\ Adds(token, toksuper)
                                 /\ token.type = IF l.lex = "str"
                                                   THEN "STRING" ELSE "PRIMITIVE"
                                 /\ token.value = l.value
    BY <1>11, <1>14, Puts
  <2>2. ASSUME Goes, NEW token, Adds(token, toksuper), token.value = l.value,
               token.type = IF l.lex = "str" THEN "STRING" ELSE "PRIMITIVE"
        PROVE  Content(doc, q, tokens', o)
    <3>1. Added(tokens, toksuper, token, tokens')
      BY <2>2 DEF Parsing, Adds, Added
    <3>2. QED
      BY <1>3, <1>6, <1>11, <2>1, <2>2, <3>1, PutContent
  <2>3. Fails => IsFull
    BY <1>14, FailsAtTheEnd
  <2>4. l.lex \notin {"lbrace", "lbracket"}
    BY <2>1
  <2>5. QED
    BY <1>12, <2>1, <2>2, <2>3, <2>4
<1>15. CASE ClosingBracket
  <2>1. /\ l.lex \in {"rbrace", "rbracket"}
        /\ \/ Fails
           \/ Goes /\ tokens' = WithEnd(tokens, LastOpen(tokens), pos + 1)
    BY <1>11, <1>15, Closes
  <2>2. /\ LastOpen(tokens) # 0
        /\ tokens[LastOpen(tokens)].type = TypeOfMark(l.lex)
    BY <1>2, <1>11, <2>1, KnownCloses
  <2>3. ~Fails
    <3>1. pos' = pos + 1
      BY <1>11, <1>15, <2>2 DEF ClosingBracket
    <3>2. QED
      BY <1>1, <1>7, <3>1
  <2>4. Keeps(tokens, tokens', 0) /\ Len(tokens') = Len(tokens)
    <3>1. /\ tokens \in Seq(Tokens) /\ LastOpen(tokens) \in 1..Len(tokens)
          /\ Len(tokens) \in Nat /\ pos + 1 \in Nat \ {0}
      BY <1>1, <2>2, LastOpenIs DEF Parsing
    <3>2. QED
      BY <2>1, <2>3, <3>1, TokenClosed DEF Keeps
  <2>5. Content(doc, q, tokens', o)
    BY <1>3, <1>6, <1>11, <2>1, <2>4, StoodContent
  <2>6. l.lex \notin {"lbrace", "lbracket"}
    BY <2>1
  <2>7. QED
    BY <1>12, <2>1, <2>3, <2>5, <2>6
<1>16. CASE Colon \/ Comma
  <2>1. Goes /\ l.lex \in {"colon", "comma"} /\ tokens' = tokens
    BY <1>11, <1>16, Passes
  <2>2. Keeps(tokens, tokens', 0) /\ Len(tokens') = Len(tokens)
    BY <2>1 DEF Keeps, Parsing
  <2>3. Content(doc, q, tokens', o)
    BY <1>3, <1>6, <1>11, <2>1, <2>2, StoodContent
  <2>4. l.lex \notin {"lbrace", "lbracket"}
    BY <2>1
  <2>5. QED
    BY <1>12, <2>1, <2>3, <2>4
<1>17. QED
  BY <1>13, <1>14, <1>15, <1>16

(***************************************************************************)
(* As many tokens as lexemes that make one have been read.                 *)
(***************************************************************************)
TokensTo(n) == {k \in 1..n : text[k].lex \in TokenLexes}

Tally == pos \in Nat /\ Len(tokens) = Cardinality(TokensTo(pos - 1))

LEMMA TokensToAre ==
  ASSUME NEW n \in Nat
  PROVE  /\ IsFiniteSet(TokensTo(n)) /\ Cardinality(TokensTo(n)) \in Nat
         /\ Cardinality(TokensTo(n + 1))
              = Cardinality(TokensTo(n))
                  + IF text[n + 1].lex \in TokenLexes THEN 1 ELSE 0
         /\ \A m \in Nat : n <= m =>
              Cardinality(TokensTo(n)) <= Cardinality(TokensTo(m))
<1>1. \A m \in Nat : IsFiniteSet(TokensTo(m))
  <2>1. ASSUME NEW m \in Nat
        PROVE  IsFiniteSet(TokensTo(m))
    <3>1. IsFiniteSet(1..m) /\ TokensTo(m) \subseteq 1..m
      BY FS_Interval DEF TokensTo
    <3>2. QED
      BY <3>1, FS_Subset
  <2>2. QED
    BY <2>1
<1>2. \A m \in Nat : Cardinality(TokensTo(m)) \in Nat
  BY <1>1, FS_CardinalityType
<1>3. Cardinality(TokensTo(n + 1))
        = Cardinality(TokensTo(n)) + IF text[n + 1].lex \in TokenLexes THEN 1 ELSE 0
  <2>1. CASE text[n + 1].lex \in TokenLexes
    <3>1. TokensTo(n + 1) = TokensTo(n) \cup {n + 1} /\ n + 1 \notin TokensTo(n)
      BY <2>1 DEF TokensTo
    <3>2. QED
      BY <1>1, <2>1, <3>1, FS_AddElement
  <2>2. CASE text[n + 1].lex \notin TokenLexes
    <3>1. TokensTo(n + 1) = TokensTo(n)
      BY <2>2 DEF TokensTo
    <3>2. QED
      BY <1>2, <2>2, <3>1
  <2>3. QED
    BY <2>1, <2>2
<1>4. ASSUME NEW m \in Nat, n <= m
      PROVE  Cardinality(TokensTo(n)) <= Cardinality(TokensTo(m))
  <2>1. TokensTo(n) \subseteq TokensTo(m)
    BY <1>4 DEF TokensTo
  <2>2. QED
    BY <1>1, <2>1, FS_Subset
<1>5. QED
  BY <1>1, <1>2, <1>3, <1>4

LEMMA TallyStarts == Init => Tally
<1> SUFFICES ASSUME Init PROVE Tally
  OBVIOUS
<1>1. pos = 1 /\ tokens = << >>
  BY DEF Init
<1>2. TokensTo(0) = {}
  BY DEF TokensTo
<1>3. pos - 1 = 0 /\ Len(tokens) = 0
  BY <1>1
<1>4. QED
  BY <1>1, <1>2, <1>3, FS_EmptySet DEF Tally

LEMMA TallyStays ==
  ASSUME Parsing, Tally, [Next]_vars
  PROVE  Tally'
<1>1. ASSUME UNCHANGED <<text, pos, tokens>>
      PROVE  Tally'
  BY <1>1 DEF Tally, TokensTo
<1>2. ASSUME Goes, UNCHANGED input,
             Len(tokens') = Len(tokens)
                              + IF text[pos].lex \in TokenLexes THEN 1 ELSE 0
      PROVE  Tally'
  <2>1. PICK n \in Nat : n = pos - 1
    BY <1>2 DEF Goes
  <2>2. pos = n + 1 /\ pos' = n + 2 /\ pos' - 1 = n + 1 /\ text' = text
    BY <1>2, <2>1 DEF Goes, input
  <2>3. Len(tokens') = Cardinality(TokensTo(n + 1))
    BY <1>2, <2>1, <2>2, TokensToAre DEF Tally
  <2>4. QED
    BY <2>2, <2>3 DEF Tally, TokensTo
<1>3. CASE OpeningBracket
  <2>1. UNCHANGED input /\ text[pos].lex \in TokenLexes
    BY <1>3, Opens DEF TokenLexes
  <2>2. ASSUME Goes, NEW token, Adds(token, Len(tokens) + 1)
        PROVE  Len(tokens') = Len(tokens) + 1
    <3>1. Added(tokens, toksuper, token, tokens')
      BY <2>2 DEF Parsing, Adds, Added
    <3>2. QED
      BY <3>1, TokenAdded
  <2>3. CASE Fails
    BY <1>1, <2>1, <2>3 DEF Fails, jsmn, input
  <2>4. QED
    BY <1>2, <1>3, <2>1, <2>2, <2>3, Opens
<1>4. CASE StringOrPrimitive
  <2>1. UNCHANGED input /\ text[pos].lex \in TokenLexes
    BY <1>4, Puts DEF TokenLexes
  <2>2. ASSUME Goes, NEW token, Adds(token, toksuper)
        PROVE  Len(tokens') = Len(tokens) + 1
    <3>1. Added(tokens, toksuper, token, tokens')
      BY <2>2 DEF Parsing, Adds, Added
    <3>2. QED
      BY <3>1, TokenAdded
  <2>3. CASE Fails
    BY <1>1, <2>1, <2>3 DEF Fails, jsmn, input
  <2>4. QED
    BY <1>2, <1>4, <2>1, <2>2, <2>3, Puts
<1>5. CASE ClosingBracket
  <2>1. UNCHANGED input /\ text[pos].lex \notin TokenLexes
    BY <1>5, Closes DEF TokenLexes
  <2>2. ASSUME Goes, LastOpen(tokens) # 0,
               tokens' = WithEnd(tokens, LastOpen(tokens), pos + 1)
        PROVE  Len(tokens') = Len(tokens)
    BY <2>2 DEF WithEnd, Parsing
  <2>3. CASE Fails
    BY <1>1, <2>1, <2>3 DEF Fails, jsmn, input
  <2>4. Len(tokens) \in Nat
    BY DEF Parsing
  <2>5. QED
    BY <1>2, <1>5, <2>1, <2>2, <2>3, <2>4, Closes
<1>6. CASE Colon \/ Comma
  <2>1. /\ UNCHANGED input /\ text[pos].lex \notin TokenLexes /\ Goes
        /\ tokens' = tokens /\ Len(tokens) \in Nat
    BY <1>6, Passes DEF TokenLexes, Parsing
  <2>2. QED
    BY <1>2, <2>1
<1>7. CASE ~(OpeningBracket \/ ClosingBracket \/ StringOrPrimitive \/ Colon \/ Comma)
  <2>1. Rests
    BY <1>7, OthersRest DEF Next
  <2>2. QED
    BY <1>1, <2>1 DEF Rests, input, jsmn
<1>8. QED
  BY <1>3, <1>4, <1>5, <1>6, <1>7

LEMMA FullDoesNotFit ==
  ASSUME Parsing, Tally, IsFull
  PROVE  ~Fits
<1>1. PICK n \in Nat : n = pos - 1
  BY DEF IsFull
<1>2. pos = n + 1 /\ n + 1 <= Len(text) /\ text[n + 1].lex \in TokenLexes
      /\ Len(text) \in Nat
  BY <1>1 DEF IsFull, Parsing, Texts
<1>3. Len(tokens) = Cardinality(TokensTo(n)) /\ Cardinality(TokensTo(n)) \in Nat
  BY <1>1, TokensToAre DEF Tally
<1>4. Cardinality(TokensTo(n + 1)) = Len(tokens) + 1
  BY <1>2, <1>3, TokensToAre
<1>5. Cardinality(TokensTo(Len(text))) >= Len(tokens) + 1
  <2>1. n + 1 \in Nat
    OBVIOUS
  <2>2. /\ Cardinality(TokensTo(n + 1)) <= Cardinality(TokensTo(Len(text)))
        /\ Cardinality(TokensTo(Len(text))) \in Nat
    BY <1>2, <2>1, TokensToAre
  <2>3. QED
    BY <1>3, <1>4, <2>2
<1>6. TokenCount(text) = Cardinality(TokensTo(Len(text)))
  <2>1. DOMAIN text = 1..Len(text)
    BY DEF Parsing, Texts
  <2>2. QED
    BY <2>1 DEF TokenCount, TokensTo, TokenLexes
<1>7. Cardinality(TokensTo(Len(text))) \in Nat
  BY <1>2, TokensToAre
<1>8. Len(tokens) >= EXPECTED_TOKENS /\ EXPECTED_TOKENS \in Nat
  BY TokensAssumption DEF IsFull
<1>9. ~(TokenCount(text) <= EXPECTED_TOKENS)
  BY <1>3, <1>5, <1>6, <1>7, <1>8
<1>10. QED
  BY <1>9 DEF Fits

LEMMA ReadFits ==
  ASSUME Parsing, Tally, pos = Len(text) + 1
  PROVE  Fits
<1>1. Len(text) \in Nat /\ DOMAIN text = 1..Len(text) /\ pos - 1 = Len(text)
  BY DEF Parsing, Texts
<1>2. TokenCount(text) = Len(tokens)
  BY <1>1 DEF TokenCount, TokensTo, TokenLexes, Tally
<1>3. QED
  BY <1>2 DEF Fits, Parsing

-----------------------------------------------------------------------------
(***************************************************************************)
(* What a document says when one more attribute or access point is added.  *)
(***************************************************************************)
LEMMA PrefixesAre ==
  ASSUME NEW T, NEW s \in Seq(T)
  PROVE  /\ SubSeq(s, 1, 0) = << >> /\ SubSeq(s, 1, Len(s)) = s
         /\ \A n \in 0..(Len(s) - 1) :
              /\ SubSeq(s, 1, n + 1) = Append(SubSeq(s, 1, n), s[n + 1])
              /\ SubSeq(s, 1, n) \in Seq(T)
<1>1. Len(s) \in Nat
  OBVIOUS
<1>2. SubSeq(s, 1, 0) = << >>
  OBVIOUS
<1>3. SubSeq(s, 1, Len(s)) = s
  OBVIOUS
<1>4. ASSUME NEW n \in 0..(Len(s) - 1)
      PROVE  /\ SubSeq(s, 1, n + 1) = Append(SubSeq(s, 1, n), s[n + 1])
             /\ SubSeq(s, 1, n) \in Seq(T)
  <2>1. n \in Nat /\ n + 1 \in 1..Len(s)
    BY <1>1
  <2>2. SubSeq(s, 1, n) \in Seq(T) /\ Len(SubSeq(s, 1, n)) = n
    BY <1>1, <2>1
  <2>3. SubSeq(s, 1, n + 1) = Append(SubSeq(s, 1, n), s[n + 1])
    BY <1>1, <2>1, <2>2
  <2>4. QED
    BY <2>2, <2>3
<1>5. QED
  BY <1>2, <1>3, <1>4

LEMMA LargestIs ==
  ASSUME NEW A, NEW m \in A, A \subseteq Nat, \A k \in A : k <= m
  PROVE  (CHOOSE a \in A : \A b \in A : b <= a) = m
<1>1. \A a \in A : (\A b \in A : b <= a) => a = m
  OBVIOUS
<1>2. QED
  BY <1>1

LEMMA LastOfAppend ==
  ASSUME NEW T, NEW s \in Seq(T), NEW x, NEW key, NEW default
  PROVE  LastOf(Append(s, x), key, default)
           = IF x.key = key THEN x.value ELSE LastOf(s, key, default)
<1> DEFINE n == Len(s)
           s2 == Append(s, x)
           with == {a \in DOMAIN s : s[a].key = key}
           with2 == {a \in DOMAIN s2 : s2[a].key = key}
<1>1. /\ n \in Nat /\ DOMAIN s = 1..n /\ DOMAIN s2 = 1..(n + 1)
      /\ s2[n + 1] = x /\ \A a \in 1..n : s2[a] = s[a]
  OBVIOUS
<1>2. LastOf(s2, key, default)
        = IF with2 = {} THEN default
          ELSE s2[CHOOSE a \in with2 : \A b \in with2 : b <= a].value
  BY DEF LastOf
<1>3. LastOf(s, key, default)
        = IF with = {} THEN default
          ELSE s[CHOOSE a \in with : \A b \in with : b <= a].value
  BY DEF LastOf
<1>4. with \subseteq 1..n /\ with2 \subseteq 1..(n + 1)
  BY <1>1
<1>5. CASE x.key = key
  <2>1. n + 1 \in with2
    BY <1>1, <1>5
  <2> HIDE DEF with2
  <2>2. with2 \subseteq Nat /\ \A k \in with2 : k <= n + 1
    BY <1>1, <1>4
  <2>3. (CHOOSE a \in with2 : \A b \in with2 : b <= a) = n + 1
    BY <2>1, <2>2, LargestIs
  <2>4. QED
    BY <1>1, <1>2, <1>5, <2>1, <2>3
<1>6. CASE x.key # key
  <2>1. with2 = with
    BY <1>1, <1>6
  <2>2. ASSUME with # {}
        PROVE  s2[CHOOSE a \in with : \A b \in with : b <= a]
                 = s[CHOOSE a \in with : \A b \in with : b <= a]
    <3> HIDE DEF with, s2
    <3>1. PICK m \in with : \A k \in with : k <= m
      BY <1>1, <1>4, <2>2, HasLargest
    <3>2. with \subseteq Nat
      BY <1>1, <1>4
    <3>3. (CHOOSE a \in with : \A b \in with : b <= a) = m
      BY <3>1, <3>2, LargestIs
    <3>4. m \in 1..n
      BY <1>4, <3>1
    <3>5. QED
      BY <1>1, <3>3, <3>4
  <2> HIDE DEF with, with2, s2
  <2>3. QED
    BY <1>2, <1>3, <1>6, <2>1, <2>2 DEF s2
<1>7. QED
  BY <1>5, <1>6

ApSaid(x) == [ssid    |-> SsidSaid(x),
              SNR     |-> NumberSaid(x, "snr"),
              channel |-> NumberSaid(x, "channel")]

LEMMA NothingSaid == ApSaid(<< >>) = NoAp
<1>1. \A key, default : LastOf(<< >>, key, default) = default
  BY DEF LastOf
<1>2. SsidSaid(<< >>) = NoName
  <2>1. Name(NoName).name = NoName
    BY DEF Name
  <2>2. QED
    BY <1>1, <2>1, CutAssumption DEF SsidSaid
<1>3. \A key : NumberSaid(<< >>, key) = 0
  <2>1. Number(0).number = 0
    BY DEF Number
  <2>2. UnsignedSaid(0) = 0
    BY StrtolSays, ZeroRest
  <2>3. QED
    BY <1>1, <2>1, <2>2 DEF NumberSaid
<1>4. QED
  BY <1>2, <1>3 DEF ApSaid, NoAp

LEMMA SaidOfAppend ==
  ASSUME NEW T, NEW s \in Seq(T), NEW x
  PROVE  /\ SsidSaid(Append(s, x)) = IF x.key = "ssid" THEN Cut[x.value.name]
                                     ELSE SsidSaid(s)
         /\ \A key : NumberSaid(Append(s, x), key)
                       = IF x.key = key THEN UnsignedSaid(x.value.number)
                         ELSE NumberSaid(s, key)
<1>1. \A key, default :
        LastOf(Append(s, x), key, default)
          = IF x.key = key THEN x.value ELSE LastOf(s, key, default)
  BY LastOfAppend
<1>2. SsidSaid(Append(s, x)) = IF x.key = "ssid" THEN Cut[x.value.name]
                               ELSE SsidSaid(s)
  BY <1>1, Zenon DEF SsidSaid
<1>3. \A key : NumberSaid(Append(s, x), key)
                 = IF x.key = key THEN UnsignedSaid(x.value.number)
                   ELSE NumberSaid(s, key)
  BY <1>1, Zenon DEF NumberSaid
<1>4. QED
  BY <1>2, <1>3

LEMMA EmptyListSaid == ListOf(create_access_point_map) = ListSaid(<< >>)
<1>1. \A s \in Ssid : ListOf(<< >>)[s] = Absent
  BY EmptyMap
<1>2. \A s \in Ssid : ListSaid(<< >>)[s] = Absent
  BY DEF ListSaid
<1>3. /\ ListOf(<< >>) = [s \in Ssid |-> ListOf(<< >>)[s]]
      /\ ListSaid(<< >>) = [s \in Ssid |-> ListSaid(<< >>)[s]]
  BY DEF ListOf, ListSaid
<1>4. QED
  BY <1>1, <1>2, <1>3 DEF create_access_point_map

LEMMA ListOfAppend ==
  ASSUME NEW T, NEW d \in Seq(T), NEW x, SsidSaid(x) \in Ssid
  PROVE  ListSaid(Append(d, x))
           = [ListSaid(d) EXCEPT ![SsidSaid(x)] = ParamsOf(ApSaid(x))]
<1> DEFINE n == Len(d)
           d2 == Append(d, x)
           said == ParamsOf(ApSaid(x))
           with(s) == {k \in DOMAIN d : SsidSaid(d[k]) = s}
           with2(s) == {k \in DOMAIN d2 : SsidSaid(d2[k]) = s}
           last(S) == CHOOSE k \in S : \A j \in S : j <= k
           of(y) == [SNR |-> NumberSaid(y, "snr"), channel |-> NumberSaid(y, "channel")]
<1>1. /\ n \in Nat /\ DOMAIN d = 1..n /\ DOMAIN d2 = 1..(n + 1)
      /\ d2[n + 1] = x /\ \A k \in 1..n : d2[k] = d[k]
  OBVIOUS
<1>2. said = of(x)
  BY DEF ParamsOf, ApSaid
<1>3. ListSaid(d) = [s \in Ssid |-> IF with(s) = {} THEN Absent
                                    ELSE of(d[last(with(s))])]
  BY DEF ListSaid
<1>4. ListSaid(d2) = [s \in Ssid |-> IF with2(s) = {} THEN Absent
                                     ELSE of(d2[last(with2(s))])]
  BY DEF ListSaid
<1>5. \A s : with(s) \subseteq 1..n /\ with2(s) \subseteq 1..(n + 1)
  BY <1>1
<1>6. n + 1 \in with2(SsidSaid(x))
  BY <1>1
<1>7. \A s : s # SsidSaid(x) => with2(s) = with(s)
  BY <1>1
<1> HIDE DEF with, with2, of, said, d2
<1>8. ASSUME NEW s \in Ssid, s = SsidSaid(x)
      PROVE  ListSaid(d2)[s] = said
  <2>1. n + 1 \in with2(s)
    BY <1>6, <1>8
  <2>2. with2(s) \subseteq Nat /\ \A k \in with2(s) : k <= n + 1
    BY <1>1, <1>5
  <2>3. last(with2(s)) = n + 1
    BY <2>1, <2>2, LargestIs
  <2> HIDE DEF last
  <2>4. ListSaid(d2)[s] = of(d2[last(with2(s))])
    BY <1>4, <2>1
  <2>5. QED
    BY <1>1, <1>2, <2>3, <2>4
<1>9. ASSUME NEW s \in Ssid, s # SsidSaid(x)
      PROVE  ListSaid(d2)[s] = ListSaid(d)[s]
  <2>1. with2(s) = with(s)
    BY <1>7, <1>9
  <2>2. CASE with(s) = {}
    BY <1>3, <1>4, <2>1, <2>2
  <2>3. CASE with(s) # {}
    <3>1. PICK m \in with(s) : \A k \in with(s) : k <= m
      BY <1>1, <1>5, <2>3, HasLargest
    <3>2. with(s) \subseteq Nat
      BY <1>1, <1>5
    <3>3. last(with(s)) = m
      BY <3>1, <3>2, LargestIs
    <3>4. m \in 1..n
      BY <1>5, <3>1
    <3> HIDE DEF last
    <3>5. /\ ListSaid(d2)[s] = of(d2[last(with(s))])
          /\ ListSaid(d)[s] = of(d[last(with(s))])
      BY <1>3, <1>4, <2>1, <2>3
    <3>6. QED
      BY <1>1, <3>3, <3>4, <3>5
  <2>4. QED
    BY <2>2, <2>3
<1>10. /\ ListSaid(d2) = [s \in Ssid |-> ListSaid(d2)[s]]
       /\ DOMAIN ListSaid(d) = Ssid
       /\ ListSaid(d) = [s \in Ssid |-> ListSaid(d)[s]]
  BY DEF ListSaid
<1> HIDE DEF last
<1>11. ListSaid(d2) = [ListSaid(d) EXCEPT ![SsidSaid(x)] = said]
  BY <1>8, <1>9, <1>10
<1>12. QED
  BY <1>11 DEF d2, said

-----------------------------------------------------------------------------
(***************************************************************************)
(* Where the walk over the tokens of such a document stands, and what it   *)
(* has read.                                                               *)
(***************************************************************************)
Stored(o) ==
  /\ TopContent("end", tokens) /\ tokens[3].type = "ARRAY" /\ Len(tokens) >= 3
  /\ tokens[3].size = Len(doc) /\ Len(o) = Len(doc)
  /\ ListTokens(doc, Len(doc), tokens, o)

HasRead(n) == ListOf(map) = ListSaid(SubSeq(doc, 1, n))

WithinAp(o, n, a) ==
  /\ n \in 0..(Len(doc) - 1) /\ ap_n = n /\ HasRead(n)
  /\ a \in 0..Len(doc[n + 1]) /\ attribute = a
  /\ number_of_attributes = Len(doc[n + 1])
  /\ current_token = o[n + 1] + 2 * a
  /\ ap = ApSaid(SubSeq(doc[n + 1], 1, a))

WalksOn(o) ==
  /\ pc \in {"start", "jsmn_parse", "check"} =>
       ap_n = 0 /\ map = create_access_point_map
  /\ pc = "next" => /\ ap_n \in 0..Len(doc) /\ HasRead(ap_n)
                    /\ current_token = EndOf(doc, o, ap_n)
  /\ pc = "attributes" => \E n, a : WithinAp(o, n, a)

LEMMA StoredIs ==
  ASSUME Known(doc), NEW o, NEW y, Built(End(doc), tokens, toksuper, o, y),
         Content(doc, End(doc), tokens, o)
  PROVE  Stored(o) /\ Ordered(tokens, o)
<1>1. End(doc).at = "end" /\ End(doc).k = Len(doc)
  BY DEF End, Place
<1>2. "end" \in InList \ InAp
  BY DEF InList, InAp, InInner
<1>3. /\ TopContent("end", tokens) /\ Len(o) = Len(doc)
      /\ ListTokens(doc, Len(doc), tokens, o)
  BY <1>1, <1>2 DEF Content, ListContent
<1>4. /\ tokens[3].type = "ARRAY" /\ Len(tokens) >= 3 /\ tokens[3].size = Len(o)
      /\ Ordered(tokens, o)
  BY <1>1, <1>2 DEF Built, Shape, Listed
<1>5. QED
  BY <1>3, <1>4 DEF Stored

LEMMA StoredAp ==
  ASSUME Known(doc), NEW o, Stored(o), Ordered(tokens, o), NEW n \in 0..(Len(doc) - 1)
  PROVE  /\ n + 1 \in 1..Len(doc) /\ n \in Nat /\ o[n + 1] \in Nat \ {0}
         /\ Len(doc[n + 1]) \in Nat /\ doc[n + 1] \in Seq(Attributes)
         /\ o[n + 1] = EndOf(doc, o, n) + 1
         /\ EndOf(doc, o, n) \in Int
         /\ EndOf(doc, o, n + 1) = o[n + 1] + 2 * Len(doc[n + 1])
         /\ ApTokens(doc[n + 1], tokens, o[n + 1], Len(doc[n + 1]), Len(doc[n + 1]))
<1>1. /\ n \in Nat /\ n + 1 \in 1..Len(doc) /\ n + 1 \in 1..Len(o)
      /\ n + 1 # 0 /\ (n + 1) - 1 = n /\ Len(doc) \in Nat
  BY DocIs DEF Known, Stored
<1>2. o[n + 1] \in 4..Len(tokens) /\ o[n + 1] \in Nat \ {0}
  BY <1>1 DEF Ordered
<1>3. Len(doc[n + 1]) \in Nat /\ doc[n + 1] \in Seq(Attributes)
  BY <1>1, DocIs DEF Known
<1>4. /\ o[n + 1] = EndOf(doc, o, (n + 1) - 1) + 1
      /\ ApTokens(doc[n + 1], tokens, o[n + 1], Len(doc[n + 1]), Len(doc[n + 1]))
  BY <1>1 DEF Stored, ListTokens
<1>5. EndOf(doc, o, n) \in Int
  <2>1. CASE n = 0
    BY <2>1 DEF EndOf
  <2>2. CASE n # 0
    <3>1. n \in 1..Len(doc) /\ n \in 1..Len(o)
      BY <1>1, <2>2
    <3>2. o[n] \in Nat /\ Len(doc[n]) \in Nat
      BY <3>1, DocIs DEF Known, Ordered
    <3>3. QED
      BY <2>2, <3>2 DEF EndOf
  <2>3. QED
    BY <2>1, <2>2
<1>6. EndOf(doc, o, n + 1) = o[n + 1] + 2 * Len(doc[n + 1])
  BY <1>1 DEF EndOf
<1>7. QED
  BY <1>1, <1>2, <1>3, <1>4, <1>5, <1>6

(***************************************************************************)
(* One attribute is read as what it says.                                  *)
(***************************************************************************)
LEMMA KnownKeyIs ==
  ASSUME NEW token, NEW key, json_token_eq_str(token, key), key \in KnownKeys
  PROVE  /\ IsKnownKey(token)
         /\ \A other : json_token_eq_str(token, other) => other = key
BY NameIs DEF json_token_eq_str, IsKnownKey

LEMMA AttributeRead ==
  ASSUME NEW s \in Seq(Attributes), NEW x \in Attributes, x.key \in KnownKeys,
         x.key = "ssid" => x.value \in Names,
         x.key # "ssid" => x.value \in Numbers,
         NEW token, token.value = x.value, NEW old, old = ApSaid(s)
  PROVE  /\ x.key = "ssid" =>
              [old EXCEPT !.ssid = SsidFrom(token)] = ApSaid(Append(s, x))
         /\ x.key = "snr" =>
              [old EXCEPT !.SNR = StrtolFrom(token)] = ApSaid(Append(s, x))
         /\ x.key = "channel" =>
              [old EXCEPT !.channel = StrtolFrom(token)] = ApSaid(Append(s, x))
<1> DEFINE new == ApSaid(Append(s, x))
<1>1. /\ old = [ssid |-> old.ssid, SNR |-> old.SNR, channel |-> old.channel]
      /\ old.ssid = SsidSaid(s) /\ old.SNR = NumberSaid(s, "snr")
      /\ old.channel = NumberSaid(s, "channel")
  BY DEF ApSaid
<1>2. /\ new = [ssid |-> new.ssid, SNR |-> new.SNR, channel |-> new.channel]
      /\ new.ssid = SsidSaid(Append(s, x)) /\ new.SNR = NumberSaid(Append(s, x), "snr")
      /\ new.channel = NumberSaid(Append(s, x), "channel")
  BY DEF ApSaid
<1> HIDE DEF new
<1>3. /\ new.ssid = IF x.key = "ssid" THEN Cut[x.value.name] ELSE old.ssid
      /\ new.SNR = IF x.key = "snr" THEN UnsignedSaid(x.value.number) ELSE old.SNR
      /\ new.channel = IF x.key = "channel" THEN UnsignedSaid(x.value.number)
                       ELSE old.channel
  BY <1>1, <1>2, SaidOfAppend
<1>4. x.value \in Numbers => StrtolFrom(token) = UnsignedSaid(x.value.number)
  <2>1. ASSUME x.value \in Numbers
        PROVE  x.value.number \in Int /\ x.value.kind = "number"
    BY <2>1 DEF Numbers
  <2>2. QED
    BY <2>1, StrtolSays DEF StrtolFrom
<1>5. SsidFrom(token) = Cut[x.value.name]
  BY DEF SsidFrom
<1>6. ASSUME x.key = "ssid"
      PROVE  [old EXCEPT !.ssid = SsidFrom(token)] = new
  BY <1>1, <1>2, <1>3, <1>5, <1>6
<1>7. ASSUME x.key = "snr"
      PROVE  [old EXCEPT !.SNR = StrtolFrom(token)] = new
  BY <1>1, <1>2, <1>3, <1>4, <1>7
<1>8. ASSUME x.key = "channel"
      PROVE  [old EXCEPT !.channel = StrtolFrom(token)] = new
  BY <1>1, <1>2, <1>3, <1>4, <1>8
<1>9. QED
  BY <1>6, <1>7, <1>8 DEF new

LEMMA NextAttributeReads ==
  ASSUME Known(doc), NEW o, Stored(o), Ordered(tokens, o),
         NEW n, NEW a, WithinAp(o, n, a), NextAttribute
  PROVE  WithinAp(o, n, a + 1)'
<1> DEFINE x == doc[n + 1]
           j == o[n + 1]
           m == Len(doc[n + 1])
<1>1. /\ n \in 0..(Len(doc) - 1) /\ ap_n = n /\ HasRead(n) /\ a \in 0..m
      /\ attribute = a /\ number_of_attributes = m
      /\ current_token = j + 2 * a /\ ap = ApSaid(SubSeq(x, 1, a))
  BY DEF WithinAp
<1>2. /\ n + 1 \in 1..Len(doc) /\ j \in Nat \ {0} /\ m \in Nat
      /\ x \in Seq(Attributes) /\ ApTokens(x, tokens, j, m, m)
  BY <1>1, StoredAp
<1>3. /\ a < m /\ attribute' = a + 1 /\ ap_n' = ap_n /\ map' = map
      /\ number_of_attributes' = number_of_attributes /\ UNCHANGED <<input, jsmn>>
  BY <1>1 DEF NextAttribute, MoreAttributes
<1>4. a \in Nat /\ a + 1 \in 1..m /\ a \in 0..(m - 1) /\ a + 1 \in 0..m
  BY <1>1, <1>2, <1>3
<1> DEFINE b == a + 1
           att == doc[n + 1][a + 1]
<1>5. /\ att \in Attributes /\ att.key \in KnownKeys
      /\ att.key = "ssid" => att.value \in Names
      /\ att.key # "ssid" => att.value \in Numbers
  BY <1>2, <1>4, KnownValue
<1>6. /\ json_token_eq_str(tokens[current_token + 1], att.key)
      /\ tokens[current_token + 2].value = att.value
  <2>1. /\ json_token_eq_str(tokens[j + 2 * b - 1], x[b].key)
        /\ tokens[j + 2 * b].value = x[b].value
    BY <1>2, <1>4 DEF ApTokens, ApPairs
  <2>2. j + 2 * b - 1 = current_token + 1 /\ j + 2 * b = current_token + 2
    <3>1. PICK i \in Nat : i = j
      BY <1>2
    <3>2. PICK c \in Nat : c = a
      BY <1>4
    <3>3. i + 2 * (c + 1) - 1 = i + 2 * c + 1 /\ i + 2 * (c + 1) = i + 2 * c + 2
      OBVIOUS
    <3>4. QED
      BY <1>1, <3>1, <3>2, <3>3
  <2>3. QED
    BY <2>1, <2>2
<1>7. /\ SubSeq(x, 1, a + 1) = Append(SubSeq(x, 1, a), att)
      /\ SubSeq(x, 1, a) \in Seq(Attributes)
  BY <1>2, <1>4, PrefixesAre
<1>8. /\ IsKnownKey(tokens[current_token + 1])
      /\ \A key : json_token_eq_str(tokens[current_token + 1], key) => key = att.key
  BY <1>5, <1>6, KnownKeyIs
<1>9. /\ att.key = "ssid" =>
           [ap EXCEPT !.ssid = SsidFrom(tokens[current_token + 2])]
             = ApSaid(SubSeq(x, 1, a + 1))
      /\ att.key = "snr" =>
           [ap EXCEPT !.SNR = StrtolFrom(tokens[current_token + 2])]
             = ApSaid(SubSeq(x, 1, a + 1))
      /\ att.key = "channel" =>
           [ap EXCEPT !.channel = StrtolFrom(tokens[current_token + 2])]
             = ApSaid(SubSeq(x, 1, a + 1))
  <2> DEFINE s == SubSeq(x, 1, a)
             token == tokens[current_token + 2]
  <2>1. s \in Seq(Attributes) /\ token.value = att.value /\ ap = ApSaid(s)
    BY <1>1, <1>6, <1>7
  <2> HIDE DEF s, token, att
  <2>2. /\ att.key = "ssid" =>
             [ap EXCEPT !.ssid = SsidFrom(token)] = ApSaid(Append(s, att))
        /\ att.key = "snr" =>
             [ap EXCEPT !.SNR = StrtolFrom(token)] = ApSaid(Append(s, att))
        /\ att.key = "channel" =>
             [ap EXCEPT !.channel = StrtolFrom(token)] = ApSaid(Append(s, att))
    BY <1>5, <2>1, AttributeRead
  <2>3. QED
    BY <1>7, <2>2 DEF s, token
<1> HIDE DEF att
<1>10. ap' = ApSaid(SubSeq(x, 1, a + 1)) /\ current_token' = current_token + 2
  BY <1>8, <1>9 DEF NextAttribute
<1>11. current_token' = j + 2 * (a + 1)
  <2>1. PICK i \in Nat : i = j
    BY <1>2
  <2>2. PICK c \in Nat : c = a
    BY <1>4
  <2>3. i + 2 * c + 2 = i + 2 * (c + 1)
    OBVIOUS
  <2>4. QED
    BY <1>1, <1>10, <2>1, <2>2, <2>3
<1>12. doc' = doc /\ HasRead(n)'
  BY <1>1, <1>3 DEF HasRead, input
<1>13. QED
  BY <1>1, <1>3, <1>4, <1>10, <1>11, <1>12 DEF WithinAp

LEMMA WalkReads ==
  ASSUME Parsing, Known(doc), Tally, WalkTyped, pos = Len(text) + 1,
         NEW o, Stored(o), Ordered(tokens, o), WalksOn(o),
         pc \in {"check", "next", "attributes"},
         CheckTop \/ NextAccessPoint \/ NextAttribute \/ AddAccessPoint \/ ReturnMap
  PROVE  /\ pc' \in {"next", "attributes", "returned"}
         /\ pc' # "returned" => WalksOn(o)'
         /\ pc' = "returned" => /\ Fits /\ result' # NULL
                                /\ ListOf(result') = ListSaid(doc)
<1>1. /\ UNCHANGED <<input, jsmn>> /\ doc' = doc /\ tokens' = tokens
      /\ Len(doc) \in Nat /\ DOMAIN doc = 1..Len(doc)
      /\ doc \in Seq(Seq(Attributes))
  <2>1. doc \in Docs
    BY DEF Known
  <2>2. /\ UNCHANGED <<input, jsmn>> /\ doc' = doc /\ tokens' = tokens
    BY DEF CheckTop, NextAccessPoint, NextAttribute, AddAccessPoint, ReturnMap,
           input, jsmn
  <2>3. QED
    BY <2>1, <2>2, DocIs, DocsAssumption DEF Documents
<1>2. /\ SubSeq(doc, 1, 0) = << >> /\ SubSeq(doc, 1, Len(doc)) = doc
      /\ \A n \in 0..(Len(doc) - 1) :
           /\ SubSeq(doc, 1, n + 1) = Append(SubSeq(doc, 1, n), doc[n + 1])
           /\ SubSeq(doc, 1, n) \in Seq(Seq(Attributes))
  BY <1>1, PrefixesAre
<1>3. tokens[3].size = Len(doc)
  BY DEF Stored
<1>4. CASE CheckTop
  <2>1. pc = "check" /\ ap_n = 0 /\ map = create_access_point_map
    BY <1>4 DEF CheckTop, WalksOn
  <2>2. pc' = "next" /\ current_token' = 3 /\ ap_n' = ap_n /\ map' = map
    <3>1. /\ ~(Len(tokens) < 3) /\ tokens[1].type = "OBJECT"
          /\ json_token_eq_str(tokens[2], "access_points")
          /\ tokens[3].type = "ARRAY"
      BY DEF Stored, TopContent, Parsing
    <3>2. QED
      BY <1>4, <3>1 DEF CheckTop
  <2>3. HasRead(0)'
    BY <1>1, <1>2, <2>1, <2>2, EmptyListSaid DEF HasRead
  <2>4. EndOf(doc, o, 0) = 3
    BY DEF EndOf
  <2>5. QED
    BY <1>1, <2>1, <2>2, <2>3, <2>4 DEF WalksOn
<1>5. CASE NextAccessPoint
  <2>1. /\ pc = "next" /\ ap_n < Len(doc) /\ ap_n \in 0..Len(doc)
        /\ HasRead(ap_n) /\ current_token = EndOf(doc, o, ap_n)
    BY <1>3, <1>5 DEF NextAccessPoint, WalksOn
  <2>2. PICK n \in 0..(Len(doc) - 1) : n = ap_n
    BY <1>1, <2>1
  <2>3. /\ n + 1 \in 1..Len(doc) /\ o[n + 1] \in Nat \ {0}
        /\ Len(doc[n + 1]) \in Nat /\ doc[n + 1] \in Seq(Attributes)
        /\ o[n + 1] = EndOf(doc, o, n) + 1 /\ EndOf(doc, o, n) \in Int
        /\ ApTokens(doc[n + 1], tokens, o[n + 1], Len(doc[n + 1]), Len(doc[n + 1]))
    BY StoredAp
  <2>4. current_token + 1 = o[n + 1]
    BY <2>1, <2>2, <2>3
  <2>5. /\ tokens[current_token + 1].type = "OBJECT"
        /\ tokens[current_token + 1].size = Len(doc[n + 1])
    BY <2>3, <2>4 DEF ApTokens, ApPairs, IsObject
  <2>6. /\ pc' = "attributes" /\ current_token' = o[n + 1]
        /\ number_of_attributes' = Len(doc[n + 1]) /\ attribute' = 0
        /\ ap' = NoAp /\ ap_n' = n /\ map' = map
    BY <1>5, <2>2, <2>4, <2>5 DEF NextAccessPoint
  <2>7. ap' = ApSaid(SubSeq(doc[n + 1], 1, 0))
    BY <2>3, <2>6, NothingSaid, PrefixesAre
  <2>8. HasRead(n)'
    BY <1>1, <2>1, <2>2, <2>6 DEF HasRead
  <2>9. WithinAp(o, n, 0)'
    BY <1>1, <2>3, <2>6, <2>7, <2>8 DEF WithinAp
  <2>10. QED
    BY <2>6, <2>9 DEF WalksOn
<1>6. CASE NextAttribute
  <2>1. pc = "attributes" /\ pc' = pc
    BY <1>6 DEF NextAttribute
  <2>2. PICK n, a : WithinAp(o, n, a)
    BY <2>1 DEF WalksOn
  <2>3. WithinAp(o, n, a + 1)'
    BY <1>6, <2>2, NextAttributeReads
  <2>4. QED
    BY <2>1, <2>3 DEF WalksOn
<1>7. CASE AddAccessPoint
  <2>1. /\ pc = "attributes" /\ ~(attribute < number_of_attributes)
        /\ map' = add_to_map(map, ap) /\ ap_n' = ap_n + 1 /\ pc' = "next"
        /\ current_token' = current_token
    BY <1>7 DEF AddAccessPoint, MoreAttributes
  <2>2. PICK n, a : WithinAp(o, n, a)
    BY <2>1 DEF WalksOn
  <2>3. /\ n \in 0..(Len(doc) - 1) /\ ap_n = n /\ HasRead(n)
        /\ a \in 0..Len(doc[n + 1]) /\ attribute = a
        /\ number_of_attributes = Len(doc[n + 1])
        /\ current_token = o[n + 1] + 2 * a
        /\ ap = ApSaid(SubSeq(doc[n + 1], 1, a))
    BY <2>2 DEF WithinAp
  <2>4. /\ n + 1 \in 1..Len(doc) /\ Len(doc[n + 1]) \in Nat /\ n \in Nat
        /\ doc[n + 1] \in Seq(Attributes)
        /\ EndOf(doc, o, n + 1) = o[n + 1] + 2 * Len(doc[n + 1])
    BY <2>3, StoredAp
  <2>5. a = Len(doc[n + 1])
    BY <2>1, <2>3, <2>4
  <2>6. ap = ApSaid(doc[n + 1]) /\ current_token' = EndOf(doc, o, n + 1)
    BY <2>1, <2>3, <2>4, <2>5, PrefixesAre
  <2>7. ListOf(map') = [ListOf(map) EXCEPT ![ap.ssid] = ParamsOf(ap)]
    BY <2>1, AddToMap DEF WalkTyped
  <2>8. ap.ssid \in Ssid /\ ap.ssid = SsidSaid(doc[n + 1])
    BY <2>6 DEF WalkTyped, AccessPoint, ApSaid
  <2>9. ListOf(map') = ListSaid(SubSeq(doc, 1, n + 1))
    <3> DEFINE s == SubSeq(doc, 1, n)
               x == doc[n + 1]
    <3>1. /\ s \in Seq(Seq(Attributes)) /\ SubSeq(doc, 1, n + 1) = Append(s, x)
          /\ ListOf(map) = ListSaid(s) /\ SsidSaid(x) \in Ssid
          /\ ap = ApSaid(x) /\ ap.ssid = SsidSaid(x)
      BY <1>2, <2>3, <2>6, <2>8 DEF HasRead
    <3> HIDE DEF s, x
    <3>2. ListSaid(Append(s, x))
            = [ListSaid(s) EXCEPT ![SsidSaid(x)] = ParamsOf(ApSaid(x))]
      BY <3>1, ListOfAppend
    <3>3. QED
      BY <2>7, <3>1, <3>2
  <2>10. /\ ap_n' = n + 1 /\ n + 1 \in 0..Len(doc) /\ HasRead(n + 1)'
    BY <1>1, <2>1, <2>3, <2>4, <2>9 DEF HasRead
  <2>11. QED
    BY <1>1, <2>1, <2>6, <2>10 DEF WalksOn
<1>8. CASE ReturnMap
  <2>1. /\ pc = "next" /\ ap_n = Len(doc) /\ pc' = "returned" /\ result' = map
    BY <1>3, <1>8 DEF ReturnMap, Return
  <2>2. ListOf(map) = ListSaid(doc)
    BY <1>2, <2>1 DEF WalksOn, HasRead
  <2>3. map # NULL
    BY NULLAssumption DEF WalkTyped
  <2>4. Fits
    BY ReadFits
  <2>5. QED
    BY <2>1, <2>2, <2>3, <2>4
<1>9. QED
  BY <1>4, <1>5, <1>6, <1>7, <1>8

(***************************************************************************)
(* The invariant: the tokens are those of the document, and what has been  *)
(* read of them is what its beginning says.                                *)
(***************************************************************************)
IsRight == IF Fits THEN result # NULL /\ ListOf(result) = ListSaid(doc)
                   ELSE result = NULL

ReadsOn ==
  (Whole /\ OnlyKnown(doc)) =>
    /\ pc = "returned" => IsRight
    /\ \E f : /\ IsRun(f, doc, text, Start, End(doc))
              /\ pc # "returned" =>
                   \E o, y : /\ Built(f[pos], tokens, toksuper, o, y)
                             /\ Content(doc, f[pos], tokens, o)
                             /\ WalksOn(o)

LEMMA ReadsOnStarts == Init => ReadsOn
<1> SUFFICES ASSUME Init, Whole PROVE ReadsOn
  BY DEF ReadsOn
<1>1. /\ doc \in Docs /\ pc = "start" /\ pos = 1 /\ tokens = << >>
      /\ toksuper = 0 /\ ap_n = 0 /\ map = create_access_point_map
  BY DEF Init
<1>2. PICK f : IsRun(f, doc, text, Start, End(doc))
  BY <1>1, TextLeads DEF Leads, Whole
<1>3. f[pos] = Start /\ Start.at = "open"
  BY <1>1, <1>2 DEF IsRun, Start, Place
<1>4. << >> \in Seq(Tokens) /\ Len(<< >>) = 0 /\ Opened(<< >>) = {}
  BY DEF Opened
<1>5. Built(f[pos], tokens, toksuper, << >>, 0)
  BY <1>1, <1>3, <1>4 DEF Built, OpenAt, SuperAt, InList, InAp, InInner
<1>6. Content(doc, f[pos], tokens, << >>)
  BY <1>3 DEF Content, TopContent, InList, InAp, InInner
<1>7. WalksOn(<< >>)
  BY <1>1 DEF WalksOn
<1>8. QED
  BY <1>1, <1>2, <1>5, <1>6, <1>7 DEF ReadsOn

LEMMA KnownGoesOn ==
  ASSUME Parsing, Tally, Structured, ReadsOn, OnlyWhole,
         Whole, OnlyKnown(doc), CheckBuffer \/ BrokenString \/ EndOfText
  PROVE  pc' # "returned"
<1>1. pc \in {"start", "jsmn_parse"}
  BY DEF CheckBuffer, BrokenString, EndOfText, AtLexeme
<1>2. PICK f : /\ IsRun(f, doc, text, Start, End(doc))
               /\ \E o, y : Built(f[pos], tokens, toksuper, o, y)
  BY <1>1 DEF ReadsOn
<1>3. Len(text) \in Nat /\ pos \in 1..(Len(text) + 1) /\ doc \in Docs
  BY DEF Parsing, Texts
<1>4. CASE CheckBuffer
  <2>1. text # << >>
    <3>1. Start.at = "open" /\ End(doc).at = "end"
      BY DEF Start, End, Place
    <3>2. text = << >> => Len(text) + 1 = 1
      OBVIOUS
    <3>3. QED
      BY <1>2, <3>1, <3>2 DEF IsRun
  <2>2. QED
    BY <1>4, <2>1 DEF CheckBuffer
<1>5. CASE BrokenString
  <2>1. pos \in 1..Len(text) /\ text[pos].lex = "broken"
    BY <1>3, <1>5 DEF BrokenString, AtLexeme
  <2>2. Reads(doc, f[pos], text[pos], f[pos + 1])
    BY <1>2, <2>1 DEF IsRun
  <2>3. MovesSomehow(f[pos], text[pos], f[pos + 1])
    BY <1>3, <2>2, ReadsMoves
  <2>4. QED
    BY <2>1, <2>3 DEF MovesSomehow, Moves
<1>6. CASE EndOfText
  <2>1. pos = Len(text) + 1
    BY <1>3, <1>6 DEF EndOfText
  <2>2. f[pos].at = "end"
    BY <1>2, <2>1 DEF IsRun, End, Place
  <2>3. Opened(tokens) = {}
    BY <1>2, <2>2 DEF Built, OpenAt
  <2>4. LastOpen(tokens) = 0
    BY <2>3, NoneIsOpen
  <2>5. QED
    BY <1>6, <2>4 DEF EndOfText
<1>7. QED
  BY <1>4, <1>5, <1>6

LEMMA ReadsOnStays ==
  ASSUME Parsing, Tally, Structured, OnlyWhole, WalkTyped, ReadsOn, [Next]_vars
  PROVE  ReadsOn'
<1> SUFFICES ASSUME Whole', OnlyKnown(doc)' PROVE ReadsOn'
  BY DEF ReadsOn
<1>1. UNCHANGED input
  <2>1. CASE OpeningBracket \/ ClosingBracket \/ StringOrPrimitive \/ Colon \/ Comma
    BY <2>1, Opens, Closes, Puts, Passes
  <2>2. CASE ~(OpeningBracket \/ ClosingBracket \/ StringOrPrimitive \/ Colon \/ Comma)
    BY <2>2, OthersRest DEF Next, Rests
  <2>3. QED
    BY <2>1, <2>2
<1>2. doc' = doc /\ text' = text /\ Whole /\ OnlyKnown(doc) /\ Known(doc)
  BY <1>1 DEF input, Whole, Known, Parsing
<1>3. (Fits' <=> Fits) /\ (TokenCount(text))' = TokenCount(text)
  BY <1>2 DEF Fits, TokenCount
<1>4. PICK f : /\ IsRun(f, doc, text, Start, End(doc))
               /\ pc # "returned" =>
                    \E o, y : /\ Built(f[pos], tokens, toksuper, o, y)
                              /\ Content(doc, f[pos], tokens, o)
                              /\ WalksOn(o)
  BY <1>2 DEF ReadsOn
<1>5. IsRun(f, doc', text', Start, End(doc'))
  BY <1>2, <1>4
<1>6. ASSUME pc' = "returned", IsRight'
      PROVE  ReadsOn'
  BY <1>5, <1>6 DEF ReadsOn
<1>7. ASSUME pc' # "returned", NEW o, NEW y,
             Built(f[pos'], tokens', toksuper', o, y),
             Content(doc, f[pos'], tokens', o), WalksOn(o)'
      PROVE  ReadsOn'
  BY <1>2, <1>5, <1>7 DEF ReadsOn
<1>8. CASE UNCHANGED vars
  <2>1. /\ UNCHANGED <<jsmn, walk, pc, result>>
        /\ pos' = pos /\ tokens' = tokens /\ toksuper' = toksuper
    BY <1>8 DEF vars, jsmn
  <2>2. CASE pc = "returned"
    <3>1. IsRight
      BY <1>2, <2>2 DEF ReadsOn
    <3>2. IsRight'
      BY <1>2, <1>3, <2>1, <3>1 DEF IsRight
    <3>3. QED
      BY <1>6, <2>1, <2>2, <3>2
  <2>3. CASE pc # "returned"
    <3>1. PICK o, y : /\ Built(f[pos], tokens, toksuper, o, y)
                      /\ Content(doc, f[pos], tokens, o) /\ WalksOn(o)
      BY <1>4, <2>3
    <3>2. WalksOn(o)'
      BY <1>2, <2>1, <3>1 DEF WalksOn, WithinAp, HasRead, walk
    <3>3. QED
      BY <1>7, <2>1, <2>3, <3>1, <3>2
  <2>4. QED
    BY <2>2, <2>3
<1>9. CASE OpeningBracket \/ ClosingBracket \/ StringOrPrimitive \/ Colon \/ Comma
  <2>1. pc = "jsmn_parse" /\ UNCHANGED walk
    BY <1>9, Opens, Closes, Puts, Passes
  <2>2. PICK o, y : /\ Built(f[pos], tokens, toksuper, o, y)
                    /\ Content(doc, f[pos], tokens, o) /\ WalksOn(o)
    BY <1>4, <2>1
  <2>3. \/ Fails /\ IsFull
        \/ /\ Goes
           /\ \E o2, y2 : /\ Built(f[pos'], tokens', toksuper', o2, y2)
                          /\ Content(doc, f[pos'], tokens', o2)
    BY <1>2, <1>4, <1>9, <2>2, LexemeContent
  <2>4. CASE Fails /\ IsFull
    <3>1. ~Fits
      BY <2>4, FullDoesNotFit
    <3>2. pc' = "returned" /\ IsRight'
      BY <1>3, <2>4, <3>1 DEF Fails, IsRight
    <3>3. QED
      BY <1>6, <3>2
  <2>5. CASE /\ Goes
             /\ \E o2, y2 : /\ Built(f[pos'], tokens', toksuper', o2, y2)
                            /\ Content(doc, f[pos'], tokens', o2)
    <3>1. PICK o2, y2 : /\ Built(f[pos'], tokens', toksuper', o2, y2)
                        /\ Content(doc, f[pos'], tokens', o2)
      BY <2>5
    <3>2. pc' = "jsmn_parse"
      BY <2>1, <2>5 DEF Goes
    <3>3. WalksOn(o2)'
      BY <2>1, <2>2, <3>2 DEF WalksOn, walk
    <3>4. QED
      BY <1>7, <3>1, <3>2, <3>3
  <2>6. QED
    BY <2>3, <2>4, <2>5
<1>10. CASE CheckBuffer \/ BrokenString \/ EndOfText
  <2>1. pc' # "returned"
    BY <1>2, <1>10, KnownGoesOn
  <2>2. /\ UNCHANGED <<jsmn, walk>> /\ pc \in {"start", "jsmn_parse"}
        /\ pc' \in {"jsmn_parse", "check"}
    BY <1>10, <2>1 DEF CheckBuffer, BrokenString, EndOfText, AtLexeme, Return
  <2>3. PICK o, y : /\ Built(f[pos], tokens, toksuper, o, y)
                    /\ Content(doc, f[pos], tokens, o) /\ WalksOn(o)
    BY <1>4, <2>2
  <2>4. WalksOn(o)'
    BY <2>2, <2>3 DEF WalksOn, walk
  <2>5. pos' = pos /\ tokens' = tokens /\ toksuper' = toksuper
    BY <2>2 DEF jsmn
  <2>6. QED
    BY <1>7, <2>1, <2>3, <2>4, <2>5
<1>11. CASE CheckTop \/ NextAccessPoint \/ NextAttribute \/ AddAccessPoint \/ ReturnMap
  <2>1. UNCHANGED jsmn /\ pc \in {"check", "next", "attributes"}
    BY <1>11 DEF CheckTop, NextAccessPoint, NextAttribute, AddAccessPoint, ReturnMap
  <2>2. pos = Len(text) + 1 /\ pos' = pos /\ tokens' = tokens /\ toksuper' = toksuper
    BY <2>1 DEF Structured, jsmn
  <2>3. PICK o, y : /\ Built(f[pos], tokens, toksuper, o, y)
                    /\ Content(doc, f[pos], tokens, o) /\ WalksOn(o)
    BY <1>4, <2>1
  <2>4. f[pos] = End(doc)
    BY <1>4, <2>2 DEF IsRun
  <2>5. Stored(o) /\ Ordered(tokens, o)
    BY <1>2, <2>3, <2>4, StoredIs
  <2>6. /\ pc' \in {"next", "attributes", "returned"}
        /\ pc' # "returned" => WalksOn(o)'
        /\ pc' = "returned" => /\ Fits /\ result' # NULL
                               /\ ListOf(result') = ListSaid(doc)
    BY <1>2, <1>11, <2>1, <2>2, <2>3, <2>5, WalkReads
  <2>7. pc' = "returned" => IsRight'
    BY <1>2, <1>3, <2>6 DEF IsRight
  <2>8. QED
    BY <1>6, <1>7, <2>2, <2>3, <2>6, <2>7
<1>12. QED
  BY <1>8, <1>9, <1>10, <1>11 DEF Next

(***************************************************************************)
(* parse_json_from_buffer reads a document of known attributes as the list *)
(* it says, however many access points and attributes it has and in which  *)
(* order they come, if its tokens fit in the array; else it reads nothing. *)
(***************************************************************************)
THEOREM KnownDocuments == Spec => []KnownDocumentIsRead
<1> DEFINE Inv == /\ Parsing /\ Opening /\ OnlyWhole /\ Structured /\ Followed
                  /\ WalkTyped /\ Tally /\ ReadsOn
<1>1. Init => Inv
  BY ParsingStarts, OpeningStarts, StructuredStarts, FollowedStarts,
     WalkTypedStarts, TallyStarts, ReadsOnStarts
<1>2. Inv /\ [Next]_vars => Inv'
  BY ParsingStays, OpeningStays, StructuredStays, StructuredReads, FollowedStays,
     WalkTypedStays, TallyStays, ReadsOnStays
<1>3. Inv => KnownDocumentIsRead
  BY DEF ReadsOn, IsRight, KnownDocumentIsRead
<1>4. QED
  BY <1>1, <1>2, <1>3, PTL DEF Spec
=============================================================================
