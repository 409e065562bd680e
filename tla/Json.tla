-------------------------------- MODULE Json --------------------------------
(* cpp_json.h: a Json value, JsonSerializer and JsonParser.  A value is a    *)
(* tuple of the alternative of json_value it holds and its content; a string *)
(* is a sequence of characters, and so is a text, in which a run of letters  *)
(* or of digits is one character.  A double is counted in units of 10^-7.    *)
EXTENDS Object, Integers, Sequences, SequencesExt

CONSTANTS Keys,        \* strings used as keys
          Leaves,      \* values that are assigned
          Numbers,     \* bound: the natural numbers whose digits occur in a text
          MaxText      \* bound on the length of a text that is read back

null == <<"null">>
EmptyObject == <<"object", <<>>>>

Init == this = EmptyObject /\ call = <<"Json">> /\ returned = void

-----------------------------------------------------------------------------
(* JsonSerializer *)
Special == {"\"", "\\", "/"}

serialize_string(s) ==
  <<"\"">> \o FlattenSeq([i \in DOMAIN s |-> IF s[i] \in Special THEN <<"\\", s[i]>> ELSE <<s[i]>>])
    \o <<"\"">>

(* std::to_string: the sign and the digits; six decimals of a double *)
Magnitude(n) == IF n < 0 THEN -n ELSE n
Sign(n) == IF n < 0 THEN <<"-">> ELSE <<>>
to_string(n) == Sign(n) \o <<ToString(Magnitude(n))>>
double_to_string(d) ==
  LET micro == (Magnitude(d) + 5) \div 10
  IN Sign(d) \o to_string(micro \div 1000000) \o <<".">> \o to_string(micro % 1000000)

Separated(texts) == FlattenSeq([i \in DOMAIN texts |-> IF i = 1 THEN texts[i] ELSE <<",">> \o texts[i]])

RECURSIVE serialize_value(_)
serialize_object(obj) ==
  LET keys == SetToSeq(DOMAIN obj)
  IN <<"{">> \o Separated([i \in DOMAIN keys |->
                  serialize_string(keys[i]) \o <<":">> \o serialize_value(obj[keys[i]])]) \o <<"}">>
serialize_array(arr) ==
  <<"[">> \o Separated([i \in DOMAIN arr |-> serialize_value(arr[i])]) \o <<"]">>

serialize_value(json) ==
  CASE json[1] = "null"   -> <<"null">>
    [] json[1] = "bool"   -> IF json[2] THEN <<"true">> ELSE <<"false">>
    [] json[1] = "int"    -> to_string(json[2])
    [] json[1] = "double" -> double_to_string(json[2])
    [] json[1] = "string" -> serialize_string(json[2])
    [] json[1] = "object" -> serialize_object(json[2])
    [] json[1] = "array"  -> serialize_array(json[2])

-----------------------------------------------------------------------------
(* JsonParser: each function takes the text and the position of the stream,  *)
(* and gives the value with the position behind it, or Error if it throws.   *)
Error == [value |-> null, p |-> 0]
Parsed(value, p) == [value |-> value, p |-> p]
peek(t, p) == IF p \in DOMAIN t THEN t[p] ELSE "EOF"
Digits == {ToString(n) : n \in Numbers}
Numeral(digits) == CHOOSE n \in Numbers : ToString(n) = digits

RECURSIVE skip_whitespace(_, _)
skip_whitespace(t, p) == IF peek(t, p) = " " THEN skip_whitespace(t, p + 1) ELSE p

(* Seeded fault: a string that is not closed ends with the text. *)
parse_open_string(t, p) ==
  LET close == SelectInSubSeq(t, p + 1, Len(t), LAMBDA ch : ch = "\"")
      end == IF close = 0 THEN Len(t) + 1 ELSE close
  IN Parsed(<<"string", SubSeq(t, p + 1, end - 1)>>, end + 1)

(* Whatever stands at p is taken for the opening quote. *)
parse_string(t, p) ==
  LET close == SelectInSubSeq(t, p + 1, Len(t), LAMBDA ch : ch = "\"")
  IN IF close = 0 THEN Error ELSE Parsed(<<"string", SubSeq(t, p + 1, close - 1)>>, close + 1)

Words == {"true", "false", "null"}
parse_word(t, p) ==
  IF peek(t, p + 1) \in Words THEN Error
  ELSE Parsed(IF t[p] = "null" THEN null ELSE <<"bool", t[p] = "true">>, p + 1)

(* Sign, digits, decimals; an exponent is left out.  from_chars wants digits. *)
parse_number(t, p) ==
  LET d == IF peek(t, p) = "-" THEN p + 1 ELSE p
      dot == IF peek(t, d) \in Digits THEN d + 1 ELSE d
      end == IF peek(t, dot) # "." THEN dot ELSE IF peek(t, dot + 1) \in Digits THEN dot + 2 ELSE dot + 1
      whole == IF dot > d THEN Numeral(t[d]) ELSE 0
      decimals == IF end = dot + 2 THEN Numeral(t[dot + 1]) ELSE 0
      sign == IF d > p THEN -1 ELSE 1
  IN IF dot = d /\ end # dot + 2 THEN Error
     ELSE IF end > dot THEN Parsed(<<"double", sign * (whole * 10000000 + decimals * 10)>>, end)
     ELSE Parsed(<<"int", sign * whole>>, end)

RECURSIVE parse_value(_, _), Members(_, _, _), Elements(_, _, _)

(* the loop of parse_object with what it has read so far *)
Members(t, p, obj) ==
  LET key == parse_string(t, skip_whitespace(t, p))
      colon == skip_whitespace(t, key.p)
      member == parse_value(t, colon + 1)
      next == skip_whitespace(t, member.p)
      all == (key.value[2] :> member.value) @@ obj
  IN IF key = Error \/ peek(t, colon) # ":" \/ member = Error THEN Error
     ELSE CASE peek(t, next) = "}" -> Parsed(<<"object", all>>, next + 1)
            [] peek(t, next) = "," -> Members(t, next + 1, all)
            [] OTHER -> Error

parse_object(t, p) ==
  LET first == skip_whitespace(t, p + 1)
  IN IF peek(t, first) = "}" THEN Parsed(EmptyObject, first + 1) ELSE Members(t, first, <<>>)

(* the loop of parse_array *)
Elements(t, p, arr) ==
  LET element == parse_value(t, p)
      next == skip_whitespace(t, element.p)
      all == Append(arr, element.value)
  IN IF element = Error THEN Error
     ELSE CASE peek(t, next) = "]" -> Parsed(<<"array", all>>, next + 1)
            [] peek(t, next) = "," -> Elements(t, next + 1, all)
            [] OTHER -> Error

parse_array(t, p) ==
  LET first == skip_whitespace(t, p + 1)
  IN IF peek(t, first) = "]" THEN Parsed(<<"array", <<>>>>, first + 1) ELSE Elements(t, first, <<>>)

parse_value(t, p) ==
  LET q == skip_whitespace(t, p)
      ch == peek(t, q)
  IN CASE ch = "{" -> parse_object(t, q)
       [] ch = "[" -> parse_array(t, q)
       [] ch = "\"" -> parse_string(t, q)
       [] ch \in Words -> parse_word(t, q)
       [] OTHER -> parse_number(t, q)

-----------------------------------------------------------------------------
(* The value's operators and assignments, as the demonstration uses them.    *)
Member(key) == IF key \in DOMAIN this[2] THEN this[2][key] ELSE null
With(key, v) == <<"object", (key :> v) @@ this[2]>>
is_object == this[1] = "object"

(* json = v *)
Assign(v) == this' = v /\ Called(<<"assign", v>>, void)

(* json[key] = v *)
AssignMember(key, v) ==
  IF is_object THEN this' = With(key, v) /\ Called(<<"assignMember", key, v>>, void)
  ELSE UNCHANGED this /\ Called(<<"assignMember", key, v>>, threw)

(* json[key][i] = v: the first operator adds a missing key, the second throws *)
(* if there is no array or no such element                                    *)
AssignElement(key, i, v) ==
  LET array == Member(key)
      found == is_object /\ array[1] = "array" /\ i \in DOMAIN array[2]
  IN /\ this' = IF found THEN With(key, <<"array", [array[2] EXCEPT ![i] = v]>>)
                ELSE IF is_object THEN With(key, array) ELSE this
     /\ Called(<<"assignElement", key, i, v>>, IF found THEN void ELSE threw)

(* json[key] without const, read: a missing key is added *)
Read(key) ==
  IF is_object THEN this' = With(key, Member(key)) /\ Called(<<"read", key>>, Member(key))
  ELSE UNCHANGED this /\ Called(<<"read", key>>, threw)

(* Seeded fault: the const operator adds a missing key like the other. *)
ReadConstAdding(key) ==
  /\ Called(<<"readConst", key>>, IF is_object /\ key \in DOMAIN this[2] THEN Member(key) ELSE threw)
  /\ this' = IF is_object THEN With(key, Member(key)) ELSE this

ReadConst(key) ==
  /\ Called(<<"readConst", key>>, IF is_object /\ key \in DOMAIN this[2] THEN Member(key) ELSE threw)
  /\ UNCHANGED this

Text == serialize_value(this)

(* parse(serialize(json)) put in the place of json *)
Reload ==
  LET r == parse_value(Text, 1)
  IN /\ Len(Text) <= MaxText
     /\ this' = IF r = Error THEN this ELSE r.value
     /\ Called(<<"reload">>, IF r = Error THEN threw ELSE void)

Next == \/ Reload
        \/ \E v \in Leaves : Assign(v)
        \/ \E key \in Keys :
             \/ Read(key) \/ ReadConst(key)
             \/ \E v \in Leaves : AssignMember(key, v) \/ AssignElement(key, 1, v)

-----------------------------------------------------------------------------
RECURSIVE Plain(_)
Plain(v) ==
  CASE v[1] = "string" -> ToSet(v[2]) \cap Special = {}
    [] v[1] = "double" -> v[2] % 10 = 0
    [] v[1] = "object" -> \A k \in DOMAIN v[2] : ToSet(k) \cap Special = {} /\ Plain(v[2][k])
    [] v[1] = "array"  -> \A i \in DOMAIN v[2] : Plain(v[2][i])
    [] OTHER -> TRUE

(* What is written is read back as the same value, whatever follows it in    *)
(* the text, if its strings need no escapes and its doubles no more than six *)
(* decimals; and a text cut off anywhere before its last character throws    *)
(* instead of giving a shorter value.                                         *)
Sound ==
  Plain(this) =>
    /\ \A rest \in {<<>>, <<" ">>, <<",", "\"">>, <<"}">>} :
         parse_value(<<" ">> \o Text \o rest, 1) = Parsed(this, Len(Text) + 2)
    /\ Text[1] \in {"{", "[", "\""} =>
         \A n \in 1 .. Len(Text) - 1 : parse_value(SubSeq(Text, 1, n), 1) = Error

(* An assignment changes its own member and no other; reading changes        *)
(* nothing, but that the operator which is not const adds a missing key with *)
(* null; and a call that throws changes no member there was.                  *)
Promise ==
  LET members(v) == IF v[1] = "object" THEN {<<k, v[2][k]>> : k \in DOMAIN v[2]} ELSE {}
      changed == {m[1] : m \in (members(this) \ members(this')) \cup (members(this') \ members(this))}
  IN CASE call'[1] \in {"read", "assignMember", "assignElement"} ->
            /\ changed \subseteq {call'[2]}
            /\ is_object /\ call'[1] = "read" /\ changed # {} => returned' = null
            /\ returned' = threw => members(this) \subseteq members(this')
       [] call'[1] = "readConst" -> UNCHANGED this
       [] call'[1] = "reload" -> Plain(this) => UNCHANGED this
       [] OTHER -> TRUE

=============================================================================
