------------------------------ MODULE JsonParser ------------------------------
(***************************************************************************)
(* parse_json_from_buffer of server_src/json_parser.c, step by step: the   *)
(* tokens jsmn_parse makes of the text, and the walk over them.            *)
(*                                                                         *)
(* jsmn is modelled lexeme by lexeme, as it is built here (neither strict  *)
(* nor with parent links).  Its result depends on the sizes it counts: an  *)
(* object's size is its number of keys, a key's size is 1 once it has a    *)
(* value.  Tokens are numbered from 1, so "no token" is 0.                 *)
(*                                                                         *)
(* The text is a document, or what a reader can find while a document is   *)
(* being written: a beginning of it, or all of it with the end of a longer *)
(* one still behind it.  A beginning followed by the end of another        *)
(* document can be a document again, and is left out.                      *)
(***************************************************************************)
EXTENDS JsonDocuments

CONSTANTS
  Docs,             \* the documents
  Overwritten,      \* those that can have been in the file before, in full
  EXPECTED_TOKENS,  \* how many tokens the array holds
  NULL

ASSUME DocsAssumption ==
  /\ Overwritten \subseteq Docs /\ Docs \subseteq Documents
  /\ \A one \in Docs : WellTyped(one)
ASSUME TokensAssumption == EXPECTED_TOKENS \in Nat \ {0}
ASSUME NULLAssumption == NULL \notin AccessPointMap

VARIABLES
  doc,        \* what is, or is being, written
  text,       \* the lexemes in the buffer
  pc,         \* where parse_json_from_buffer stands
  pos,        \* parser.pos: the next lexeme
  tokens,     \* the tokens filled so far
  toksuper,   \* parser.toksuper: the token whose size the next one counts in
  current_token,
  ap_n,       \* the access points read so far
  attribute,  \* the attributes read so far of the access point in progress
  number_of_attributes,
  ap,         \* the access point in progress
  map,        \* ap_map
  result      \* what was returned, once pc = "returned"

input == <<doc, text>>
jsmn == <<pos, tokens, toksuper>>
walk == <<current_token, ap_n, attribute, number_of_attributes, ap, map>>
vars == <<input, pc, jsmn, walk, result>>

NoAp == [ssid |-> NoName, SNR |-> 0, channel |-> 0]

(***************************************************************************)
(* Beginnings of a text, the next lexeme possibly broken off in the middle *)
(* of a string.                                                            *)
(***************************************************************************)
Beginnings(t) ==
  {SubSeq(t, 1, k) : k \in 0..(Len(t) - 1)}
  \cup {Append(SubSeq(t, 1, k - 1), Mark("broken")) :
          k \in {j \in DOMAIN t : t[j].lex = "str"}}

Ends(t) == {SubSeq(t, k, Len(t)) : k \in 2..Len(t)}

Init ==
  /\ doc \in Docs
  /\ LET t == TextOf(doc)
     IN  \/ text = t
         \/ text \in Beginnings(t)
         \/ \E longer \in Overwritten :
              \E end \in Ends(TextOf(longer)) : text = t \o end
  /\ pc = "start"
  /\ pos = 1
  /\ tokens = << >>
  /\ toksuper = 0
  /\ current_token = 0
  /\ ap_n = 0
  /\ attribute = 0
  /\ number_of_attributes = 0
  /\ ap = NoAp
  /\ map = create_access_point_map
  /\ result = NULL

Return(r) == pc' = "returned" /\ result' = r

-----------------------------------------------------------------------------
(* jsmn_parse, if there is anything to parse.                              *)

CheckBuffer ==
  /\ pc = "start"
  /\ IF text = << >>
       THEN Return(NULL)
       ELSE pc' = "jsmn_parse" /\ UNCHANGED result
  /\ UNCHANGED <<input, jsmn, walk>>

AtLexeme(lexemes) ==
  /\ pc = "jsmn_parse"
  /\ pos <= Len(text)
  /\ text[pos].lex \in lexemes

Token(type, end, value) ==
  [type |-> type, start |-> pos, end |-> end, size |-> 0, value |-> value]

IsOpen(token) == token.end = 0

LastOpen(toks) ==
  LET open == {k \in DOMAIN toks : IsOpen(toks[k])}
  IN  IF open = {} THEN 0 ELSE CHOOSE k \in open : \A j \in open : j <= k

(***************************************************************************)
(* A new token, counted in the size of the super token, if there is room.  *)
(***************************************************************************)
Counted == IF toksuper = 0 THEN tokens
           ELSE [tokens EXCEPT ![toksuper].size = @ + 1]

AddToken(token, super) ==
  IF Len(tokens) >= EXPECTED_TOKENS
    THEN /\ Return(NULL)
         /\ UNCHANGED jsmn
    ELSE /\ tokens' = Append(Counted, token)
         /\ toksuper' = super
         /\ pos' = pos + 1
         /\ UNCHANGED <<pc, result>>

TypeOfMark(m) == IF m \in {"lbrace", "rbrace"} THEN "OBJECT" ELSE "ARRAY"

OpeningBracket ==
  /\ AtLexeme({"lbrace", "lbracket"})
  /\ AddToken(Token(TypeOfMark(text[pos].lex), 0, Name(NoName)), Len(tokens) + 1)
  /\ UNCHANGED <<input, walk>>

ClosingBracket ==
  /\ AtLexeme({"rbrace", "rbracket"})
  /\ LET last   == LastOpen(tokens)
         closed == [tokens EXCEPT ![last].end = pos + 1]
     IN  IF last = 0 \/ tokens[last].type # TypeOfMark(text[pos].lex)
           THEN /\ Return(NULL)
                /\ UNCHANGED jsmn
           ELSE /\ tokens' = closed
                /\ toksuper' = LastOpen(closed)
                /\ pos' = pos + 1
                /\ UNCHANGED <<pc, result>>
  /\ UNCHANGED <<input, walk>>

StringOrPrimitive ==
  /\ AtLexeme({"str", "prim"})
  /\ AddToken(Token(IF text[pos].lex = "str" THEN "STRING" ELSE "PRIMITIVE",
                    pos + 1, text[pos].value),
              toksuper)
  /\ UNCHANGED <<input, walk>>

Colon ==
  /\ AtLexeme({"colon"})
  /\ toksuper' = Len(tokens)
  /\ pos' = pos + 1
  /\ UNCHANGED <<input, pc, tokens, walk, result>>

Comma ==
  /\ AtLexeme({"comma"})
  /\ toksuper' = IF /\ toksuper # 0
                    /\ tokens[toksuper].type \notin {"ARRAY", "OBJECT"}
                    /\ LastOpen(tokens) # 0
                   THEN LastOpen(tokens)
                   ELSE toksuper
  /\ pos' = pos + 1
  /\ UNCHANGED <<input, pc, tokens, walk, result>>

BrokenString ==
  /\ AtLexeme({"broken"})
  /\ Return(NULL)
  /\ UNCHANGED <<input, jsmn, walk>>

(***************************************************************************)
(* A faulty variant of EndOfText: what is left open does not matter.       *)
(***************************************************************************)
OpenIsNoError ==
  /\ pc = "jsmn_parse"
  /\ pos > Len(text)
  /\ pc' = "check"
  /\ UNCHANGED <<input, jsmn, walk, result>>

(***************************************************************************)
(* The end of the text: an error if an object or array is still open, else *)
(* the number of tokens.                                                   *)
(***************************************************************************)
EndOfText ==
  /\ pc = "jsmn_parse"
  /\ pos > Len(text)
  /\ IF LastOpen(tokens) # 0
       THEN Return(NULL)
       ELSE pc' = "check" /\ UNCHANGED result
  /\ UNCHANGED <<input, jsmn, walk>>

-----------------------------------------------------------------------------
(* parse_json_from_buffer and parse_access_point.                          *)

json_token_eq_str(token, str) ==
  token.type = "STRING" /\ token.value = Name(str)

(***************************************************************************)
(* The start of the document, down to the array.                           *)
(***************************************************************************)
CheckTop ==
  /\ pc = "check"
  /\ IF \/ Len(tokens) < 3
        \/ tokens[1].type # "OBJECT"
        \/ ~json_token_eq_str(tokens[2], "access_points")
        \/ tokens[3].type # "ARRAY"
       THEN Return(NULL) /\ UNCHANGED current_token
       ELSE current_token' = 3 /\ pc' = "next" /\ UNCHANGED result
  /\ UNCHANGED <<input, jsmn, ap_n, attribute, number_of_attributes, ap, map>>

NextAccessPoint ==
  /\ pc = "next"
  /\ ap_n < tokens[3].size
  /\ LET following == tokens[current_token + 1]
     IN  IF following.type = "OBJECT"
           THEN /\ current_token' = current_token + 1
                /\ number_of_attributes' = following.size
                /\ attribute' = 0
                /\ ap' = NoAp
                /\ pc' = "attributes"
                /\ UNCHANGED result
           ELSE /\ Return(NULL)
                /\ UNCHANGED <<current_token, number_of_attributes, attribute, ap>>
  /\ UNCHANGED <<input, jsmn, ap_n, map>>

(***************************************************************************)
(* The characters of a token's text, as a name cut to the array's size;    *)
(* its leading digits, as strtol makes a long of them, the nearest one if  *)
(* no long holds them, and as that is stored in an unsigned int.  Faulty   *)
(* variants, not used: it is not cut to an unsigned int; numbers beyond a  *)
(* long wrap too.                                                          *)
(***************************************************************************)
SsidFrom(token) == Cut[token.value.name]

NotCut(token) ==
  IF token.value.kind = "number" THEN token.value.number ELSE 0

NotSaturated(token) ==
  IF token.value.kind = "number" THEN token.value.number % 2^Width ELSE 0

strtol(n) ==
  IF n > LONG_MAX THEN LONG_MAX ELSE IF n < LONG_MIN THEN LONG_MIN ELSE n

StrtolFrom(token) ==
  IF token.value.kind = "number" THEN strtol(token.value.number) % 2^Width ELSE 0

IsKnownKey(token) == \E key \in KnownKeys : json_token_eq_str(token, key)

(***************************************************************************)
(* The loop's condition, and a faulty one.                                 *)
(***************************************************************************)
OneTooMany == attribute <= number_of_attributes

MoreAttributes == attribute < number_of_attributes

(***************************************************************************)
(* One turn of the loop over the attributes.  A known key takes its value  *)
(* with it; of another one only the key is passed.                         *)
(***************************************************************************)
NextAttribute ==
  /\ pc = "attributes"
  /\ MoreAttributes
  /\ LET key   == tokens[current_token + 1]
         value == tokens[current_token + 2]
     IN  \/ /\ json_token_eq_str(key, "ssid")
            /\ ap' = [ap EXCEPT !.ssid = SsidFrom(value)]
            /\ current_token' = current_token + 2
         \/ /\ json_token_eq_str(key, "snr")
            /\ ap' = [ap EXCEPT !.SNR = StrtolFrom(value)]
            /\ current_token' = current_token + 2
         \/ /\ json_token_eq_str(key, "channel")
            /\ ap' = [ap EXCEPT !.channel = StrtolFrom(value)]
            /\ current_token' = current_token + 2
         \/ /\ ~IsKnownKey(key)
            /\ current_token' = current_token + 1
            /\ UNCHANGED ap
  /\ attribute' = attribute + 1
  /\ UNCHANGED <<input, pc, jsmn, ap_n, number_of_attributes, map, result>>

AddAccessPoint ==
  /\ pc = "attributes"
  /\ ~MoreAttributes
  /\ map' = add_to_map(map, ap)
  /\ ap_n' = ap_n + 1
  /\ pc' = "next"
  /\ UNCHANGED <<input, jsmn, current_token, attribute, number_of_attributes, ap,
                 result>>

ReturnMap ==
  /\ pc = "next"
  /\ ap_n = tokens[3].size
  /\ Return(map)
  /\ UNCHANGED <<input, jsmn, walk>>

-----------------------------------------------------------------------------
Next ==
  \/ CheckBuffer
  \/ OpeningBracket \/ ClosingBracket \/ StringOrPrimitive \/ Colon \/ Comma
  \/ BrokenString \/ EndOfText
  \/ CheckTop \/ NextAccessPoint \/ NextAttribute \/ AddAccessPoint \/ ReturnMap

Spec == Init /\ [][Next]_vars

-----------------------------------------------------------------------------
Whole == text = TextOf(doc)

TokenCount(t) ==
  Cardinality({k \in DOMAIN t : t[k].lex \in {"lbrace", "lbracket", "str", "prim"}})

Fits == TokenCount(text) <= EXPECTED_TOKENS

(***************************************************************************)
(* The types of the variables, the map's distinct keys and the unsigned    *)
(* parameters included.                                                    *)
(***************************************************************************)
TypeOK ==
  /\ pc \in {"start", "jsmn_parse", "check", "next", "attributes", "returned"}
  /\ pos \in 1..(Len(text) + 1)
  /\ Len(tokens) <= EXPECTED_TOKENS
  /\ toksuper \in 0..Len(tokens)
  /\ current_token \in 0..Len(tokens)
  /\ ap_n \in Nat /\ attribute \in Nat
  /\ ap \in AccessPoint
  /\ map \in AccessPointMap
  /\ result \in AccessPointMap \cup {NULL}

(***************************************************************************)
(* A document with no other attributes than ssid, snr and channel, in any  *)
(* order, some left out or repeated, gives the list it says if its tokens  *)
(* fit in the array, and nothing, not a part of it, if they do not         *)
(* (parse_json_from_buffer, "populated access_point_map").                 *)
(***************************************************************************)
KnownDocumentIsRead ==
  (pc = "returned" /\ Whole /\ OnlyKnown(doc))
    => IF Fits THEN result # NULL /\ ListOf(result) = ListSaid(doc)
               ELSE result = NULL

(***************************************************************************)
(* A text that is a part of a document, or a document with the end of      *)
(* another one behind it, makes no map, whatever its attributes: a file    *)
(* that is being written is ignored until it is complete.                  *)
(***************************************************************************)
TornIsIgnored == (pc = "returned" /\ ~Whole) => result = NULL

(***************************************************************************)
(* The walk reads no token that jsmn has not filled, even though it loses  *)
(* its place at an attribute it does not know.                             *)
(***************************************************************************)
ReadsFilledTokens ==
  /\ (pc = "next" /\ ap_n < tokens[3].size) => current_token + 1 <= Len(tokens)
  /\ (pc = "attributes" /\ MoreAttributes)
       => /\ current_token + 1 <= Len(tokens)
          /\ IsKnownKey(tokens[current_token + 1])
               => current_token + 2 <= Len(tokens)

(***************************************************************************)
(* What line 63 says of parse_access_point: it "returns last token in      *)
(* parsed access_point".                                                   *)
(***************************************************************************)
InAttributeObject(k) ==
  \E j \in 2..(k - 1) : tokens[j].type = "OBJECT" /\ tokens[k].start < tokens[j].end

ObjectToken ==
  CHOOSE k \in 2..current_token :
    /\ tokens[k].type = "OBJECT" /\ ~InAttributeObject(k)
    /\ \A j \in (k + 1)..current_token :
         tokens[j].type = "OBJECT" => InAttributeObject(j)

ReturnsLastToken ==
  (pc = "attributes" /\ ~MoreAttributes)
    => \A k \in (current_token + 1)..Len(tokens) :
          tokens[k].start >= tokens[ObjectToken].end

=============================================================================
