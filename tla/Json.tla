--------------------------------- MODULE Json ---------------------------------
(***************************************************************************)
(* The JSON document model (src/util/json.cpp): the recursive descent      *)
(* parser, the serialiser and the operations that build a document.  They  *)
(* are functions; the state of this module is what they are applied to: a  *)
(* text that is typed piece by piece, and a document built step by step.   *)
(*                                                                         *)
(* A character is a string here, one for each of the classes the code      *)
(* tells apart:                                                            *)
(*   "true", "false", "null"   a whole literal                             *)
(*   "hi", "lo", "bmp"         the four hexadecimal digits of an escape: a *)
(*                             high or a low surrogate, any other code     *)
(*   "hex ctl"                 0001; "ctl" is the character it stands for  *)
(*   "n"                       the letters of \b \f \n \r \t; "nl", which  *)
(*                             is a line end between tokens, is what they  *)
(*                             stand for                                   *)
(* Positions in error texts are left out, and the binary value of a number *)
(* but for what decides on int64, double or failure.                       *)
(***************************************************************************)
EXTENDS Integers, Sequences, SequencesExt, FiniteSetsExt

\* An operator introduced by "Mutant:" is not part of the model: it is what a
\* plausible bug would make of the definition that follows it.

CONSTANTS
    Fragments,    \* what texts are made of: sets of character sequences
    Atoms,        \* values that documents are built from
    Keys,         \* object keys
    MaxDepth,     \* kMaxDepth
    IntDigits,    \* an integer of more digits does not fit int64
    MaxExponent,  \* an exponent of more digits is out of the range of double, unless
                  \* the mantissa is zero
    MaxPieces, MaxLeaves   \* bounds: the length of a text, the size of a document

JsonAssumption ==
    /\ MaxDepth \in Nat \ {0} /\ IntDigits \in Nat \ {0} /\ MaxExponent \in Nat
    /\ MaxPieces \in Nat /\ MaxLeaves \in Nat

VARIABLES
    from,    \* the set of pieces of the text
    text, typed,
    doc      \* the document

jsonVars == <<from, text, typed, doc>>

\* Values.  A number is its shortest text, a string a sequence of characters,
\* an object a function from its keys.
Null == <<"null">>
Bool(b) == <<"bool", b>>
Int64(digits) == <<"int", digits>>
Double(digits) == <<"double", digits>>
Text(chars) == <<"string", chars>>
Array(values) == <<"array", values>>
Object(members) == <<"object", members>>

Space == {"sp", "nl"}
Digit == {"0", "1"}
Escapes == {"quote", "bs", "n"}
\* Escaped(e): the character that backslash and the letter e stand for.
Escaped(e) == IF e = "n" THEN "nl" ELSE e
Control == {"nl", "ctl"}
-----------------------------------------------------------------------------
(* Parser.  Each function returns the value it has read and the position   *)
(* after it, or Fail.                                                      *)

Fail == [ok |-> FALSE]
Read(value, next) == [ok |-> TRUE, value |-> value, next |-> next]

Peek(t, pos) == IF pos <= Len(t) THEN t[pos] ELSE "eof"

\* The first position from pos on whose character is not in the set.
Skip(t, pos, set) == Min({p \in pos .. Len(t) + 1 : Peek(t, p) \notin set})
SkipWs(t, pos) == Skip(t, pos, Space)

\* At most one "+" or "-".
SkipSign(t, pos) == IF Peek(t, pos) \in {"+", "-"} THEN pos + 1 ELSE pos

\* Mutant: leading zeros are passed over.
IntegerPartLax(t, pos) == Skip(t, pos, Digit)
\* Where the digits of an integer part that begins at pos end; pos if it is
\* malformed.
IntegerPart(t, pos) ==
    IF Peek(t, pos) = "0" THEN IF Peek(t, pos + 1) \in Digit THEN pos ELSE pos + 1
    ELSE Skip(t, pos, Digit)

\* A number is refused if it is beyond what a double holds.  Texts are too short
\* for one that is so by its digits alone, 309 of them: only exponents count.
ParseNumber(t, pos) ==
    LET digits == IF Peek(t, pos) = "-" THEN pos + 1 ELSE pos
        point == IntegerPart(t, digits)
        exp == IF Peek(t, point) = "." THEN Skip(t, point + 1, Digit) ELSE point
        power == SkipSign(t, exp + 1)
        end == IF Peek(t, exp) = "e" THEN Skip(t, power, Digit) ELSE exp
        number == SubSeq(t, pos, end - 1)
    IN  IF \/ point = digits
           \/ Peek(t, point) = "." /\ exp = point + 1
           \/ Peek(t, exp) = "e" /\ end = power
        THEN Fail
        ELSE IF end = point /\ end - digits <= IntDigits
        THEN Read(Int64(IF number = <<"-", "0">> THEN <<"0">> ELSE number), end)
        ELSE IF /\ Peek(t, exp) = "e" /\ end - Skip(t, power, {"0"}) > MaxExponent
                /\ Peek(t, power - 1) # "-" /\ "1" \in ToSet(SubSeq(t, pos, exp))
        THEN Fail
        ELSE Read(Double(number), end)

RECURSIVE ParseChars(_, _, _)
\* parseString() after the opening quote: `out` is what has been read.
ParseChars(t, pos, out) ==
    LET c == Peek(t, pos)
        e == Peek(t, pos + 1)
        hex == Peek(t, pos + 2)
    IN  CASE c = "quote" -> Read(out, pos + 1)
          [] c = "bs" /\ e \in Escapes -> ParseChars(t, pos + 2, Append(out, Escaped(e)))
          [] c = "bs" /\ e = "u" /\ hex = "bmp" -> ParseChars(t, pos + 3, Append(out, "bmp"))
          [] c = "bs" /\ e = "u" /\ hex = "hex ctl" -> ParseChars(t, pos + 3, Append(out, "ctl"))
          [] c = "bs" /\ e = "u" /\ hex = "hi" ->
                IF [i \in 1 .. 3 |-> Peek(t, pos + 2 + i)] = <<"bs", "u", "lo">>
                THEN ParseChars(t, pos + 6, Append(out, "astral"))
                ELSE Fail
          [] c \in {"bs", "eof"} \cup Control -> Fail
          [] OTHER -> ParseChars(t, pos + 1, Append(out, c))

RECURSIVE ParseValue(_, _, _)
RECURSIVE ParseElements(_, _, _, _)
RECURSIVE ParseMembers(_, _, _, _)

\* enterDepth(), `depth` levels being open.
MayEnter(depth) == depth < MaxDepth

ParseValue(t, start, depth) ==
    LET pos == SkipWs(t, start)
        c == Peek(t, pos)
        inside == SkipWs(t, pos + 1)
    IN  CASE c \in {"{", "["} /\ ~MayEnter(depth) -> Fail
          [] c = "{" /\ MayEnter(depth) ->
                IF Peek(t, inside) = "}" THEN Read(Object(<<>>), inside + 1)
                ELSE ParseMembers(t, inside, depth + 1, <<>>)
          [] c = "[" /\ MayEnter(depth) ->
                IF Peek(t, inside) = "]" THEN Read(Array(<<>>), inside + 1)
                ELSE ParseElements(t, inside, depth + 1, <<>>)
          [] c = "quote" ->
                LET s == ParseChars(t, pos + 1, <<>>)
                IN  IF s.ok THEN Read(Text(s.value), s.next) ELSE Fail
          [] c = "true" -> Read(Bool(TRUE), pos + 1)
          [] c = "false" -> Read(Bool(FALSE), pos + 1)
          [] c = "null" -> Read(Null, pos + 1)
          [] c \in Digit \cup {"-"} -> ParseNumber(t, pos)
          [] OTHER -> Fail

ParseElements(t, pos, depth, values) ==
    LET v == ParseValue(t, pos, depth)
        more == SkipWs(t, v.next)
    IN  IF ~v.ok THEN Fail
        ELSE CASE Peek(t, more) = "," -> ParseElements(t, more + 1, depth, Append(values, v.value))
               [] Peek(t, more) = "]" -> Read(Array(Append(values, v.value)), more + 1)
               [] OTHER -> Fail

\* A key that comes again takes its later value.
ParseMembers(t, start, depth, members) ==
    LET pos == SkipWs(t, start)
        key == ParseChars(t, pos + 1, <<>>)
        colon == SkipWs(t, key.next)
        v == ParseValue(t, colon + 1, depth)
        more == SkipWs(t, v.next)
        all == (key.value :> v.value) @@ members
    IN  IF Peek(t, pos) # "quote" \/ ~key.ok \/ Peek(t, colon) # ":" \/ ~v.ok THEN Fail
        ELSE CASE Peek(t, more) = "," -> ParseMembers(t, more + 1, depth, all)
               [] Peek(t, more) = "}" -> Read(Object(all), more + 1)
               [] OTHER -> Fail

\* Json::parse(): nothing may follow the value.
Parse(t) ==
    LET v == ParseValue(t, 1, 0)
    IN  IF v.ok /\ SkipWs(t, v.next) = Len(t) + 1 THEN v ELSE Fail
-----------------------------------------------------------------------------
(* Serialiser.                                                             *)

\* Mutant: only the characters that have an escape of one letter are escaped.
EscapeStringLax(s) ==
    FlattenSeq([i \in DOMAIN s |->
        IF s[i] = "nl" THEN <<"bs", "n">> ELSE
        IF s[i] \in Escapes THEN <<"bs", s[i]>> ELSE <<s[i]>>])
EscapeString(s) ==
    FlattenSeq([i \in DOMAIN s |->
        CASE s[i] = "nl" -> <<"bs", "n">>
          [] s[i] = "ctl" -> <<"bs", "u", "hex ctl">>
          [] s[i] \in {"quote", "bs"} -> <<"bs", s[i]>>
          [] OTHER -> <<s[i]>>])
Quoted(s) == <<"quote">> \o EscapeString(s) \o <<"quote">>

\* Of what is not a number, JSON knows nothing.
NotFinite == <<"nan">>
FormatDouble(digits) == IF digits = NotFinite THEN <<"null">> ELSE digits

NewlineIndent(depth, pretty) ==
    IF pretty THEN <<"nl">> \o [i \in 1 .. 2 * depth |-> "sp"] ELSE <<>>

\* The items of an array or an object, each on a line of its own if pretty.
Enclosed(open, items, close, depth, pretty) ==
    IF items = <<>> THEN <<open, close>>
    ELSE <<open>>
         \o FlattenSeq([i \in DOMAIN items |->
                (IF i > 1 THEN <<",">> ELSE <<>>) \o NewlineIndent(depth + 1, pretty) \o items[i]])
         \o NewlineIndent(depth, pretty) \o <<close>>

RECURSIVE DumpTo(_, _, _)
DumpTo(v, depth, pretty) ==
    CASE v[1] = "null" -> <<"null">>
      [] v[1] = "bool" -> IF v[2] THEN <<"true">> ELSE <<"false">>
      [] v[1] = "int" -> v[2]
      [] v[1] = "double" -> FormatDouble(v[2])
      [] v[1] = "string" -> Quoted(v[2])
      [] v[1] = "array" ->
            Enclosed("[", [i \in DOMAIN v[2] |-> DumpTo(v[2][i], depth + 1, pretty)], "]",
                     depth, pretty)
      [] v[1] = "object" ->
            LET keys == SetToSeq(DOMAIN v[2])
            IN  Enclosed("{",
                    [i \in DOMAIN keys |->
                        Quoted(keys[i]) \o <<":">> \o (IF pretty THEN <<"sp">> ELSE <<>>)
                        \o DumpTo(v[2][keys[i]], depth + 1, pretty)],
                    "}", depth, pretty)

Dump(v, pretty) == DumpTo(v, 0, pretty)
-----------------------------------------------------------------------------
(* What the functions are applied to.                                      *)

JsonInit ==
    /\ from \in Fragments
    /\ text = <<>> /\ typed = 0
    /\ doc = Null

TypePiece(piece) ==
    /\ typed < MaxPieces /\ doc = Null
    /\ text' = text \o piece /\ typed' = typed + 1
    /\ UNCHANGED <<from, doc>>

RECURSIVE Leaves(_)
Leaves(v) ==
    CASE v[1] = "array" -> 1 + FoldLeft(LAMBDA n, w : n + Leaves(w), 0, v[2])
      [] v[1] = "object" -> 1 + FoldSet(LAMBDA k, n : n + Leaves(v[2][k]), 0, DOMAIN v[2])
      [] OTHER -> 1

\* A document is built while no text is typed.
Build(v) ==
    /\ text = <<>> /\ Leaves(v) <= MaxLeaves
    /\ doc' = v
    /\ UNCHANGED <<from, text, typed>>

Elements(v) == IF v[1] = "array" THEN v[2] ELSE <<>>
Members(v) == IF v[1] = "object" THEN v[2] ELSE <<>>

\* pushBack() and set(): what was there is lost if it is of another type.
PushBack(v) == Build(Array(Append(Elements(doc), v)))
Set(key, v) == Build(Object((key :> v) @@ Members(doc)))
\* operator[](i): nulls up to the index that is written.
SetAt(i, v) ==
    LET old == Elements(doc)
    IN  Build(Array([j \in 1 .. IF i > Len(old) THEN i ELSE Len(old) |->
                        IF j = i THEN v ELSE IF j \in DOMAIN old THEN old[j] ELSE Null]))

\* The document becomes a part of a new one.
Wrap == Build(Array(<<doc>>)) \/ \E key \in Keys : Build(Object(key :> doc))

Next ==
    \/ \E piece \in from : TypePiece(piece)
    \/ \E v \in Atoms :
          \/ PushBack(v)
          \/ \E key \in Keys : Set(key, v)
          \/ \E i \in 1 .. 2 : SetAt(i, v)
    \/ Wrap
-----------------------------------------------------------------------------
(* A definition of the language (RFC 8259) by decomposition, to compare    *)
(* the parser with.                                                        *)

Trim(t) ==
    LET inner == {i \in DOMAIN t : t[i] \notin Space}
    IN  IF inner = {} THEN <<>> ELSE SubSeq(t, Min(inner), Max(inner))

\* t is a sequence of parts, each of which has the property.
Parts(t, P(_)) ==
    \E cuts \in SUBSET (1 .. Len(t)) :
        LET ends == cuts \cup {Len(t)}
        IN  \A i \in ends \ {0} :
                P(SubSeq(t, Max({j \in ends \cup {0} : j < i}) + 1, i))

\* t is a list of parts with the property, with a comma between two of them.
Separated(t, P(_)) ==
    \E commas \in SUBSET {i \in DOMAIN t : t[i] = ","} :
        \A i \in commas \cup {Len(t) + 1} :
            P(SubSeq(t, Max({j \in commas \cup {0} : j < i}) + 1, i - 1))

DigitsOnly(t) == t # <<>> /\ ToSet(t) \subseteq Digit

IsNumber(t) ==
    \E i, j \in 0 .. Len(t) :
        LET int == SubSeq(t, 1, i)
            frac == SubSeq(t, i + 1, j)
            exp == SubSeq(t, j + 1, Len(t))
            digits == IF IsPrefix(<<"-">>, int) THEN Tail(int) ELSE int
            power == IF Len(exp) > 1 /\ exp[2] \in {"+", "-"} THEN 3 ELSE 2
        IN  /\ i <= j
            /\ DigitsOnly(digits) /\ (digits[1] = "0" => Len(digits) = 1)
            /\ frac # <<>> => frac[1] = "." /\ DigitsOnly(Tail(frac))
            /\ exp # <<>> =>
                  /\ exp[1] = "e" /\ DigitsOnly(SubSeq(exp, power, Len(exp)))
                  /\ \/ exp[2] = "-" \/ "1" \notin ToSet(int \o frac)
                     \/ \A n \in power .. Len(exp) - MaxExponent : exp[n] = "0"

IsCharacter(t) ==
    \/ Len(t) = 1 /\ t[1] \notin {"quote", "bs"} \cup Control
    \/ Len(t) = 2 /\ t[1] = "bs" /\ t[2] \in Escapes
    \/ t \in {<<"bs", "u", "bmp">>, <<"bs", "u", "hex ctl">>,
              <<"bs", "u", "hi", "bs", "u", "lo">>}

IsString(t) ==
    /\ Len(t) >= 2 /\ t[1] = "quote" /\ t[Len(t)] = "quote"
    /\ Len(t) = 2 \/ Parts(SubSeq(t, 2, Len(t) - 1), IsCharacter)

RECURSIVE IsValue(_, _)
IsMember(t, depth) ==
    \E i \in DOMAIN t :
        /\ t[i] = ":"
        /\ IsString(Trim(SubSeq(t, 1, i - 1))) /\ IsValue(SubSeq(t, i + 1, Len(t)), depth)

\* A value with at most `depth` levels of arrays and objects.
IsValue(whole, depth) ==
    LET t == Trim(whole)
        inner == SubSeq(t, 2, Len(t) - 1)
        Encloses(open, close) == depth > 0 /\ Len(t) >= 2 /\ t[1] = open /\ t[Len(t)] = close
    IN  \/ Len(t) = 1 /\ t[1] \in {"true", "false", "null"}
        \/ IsNumber(t)
        \/ IsString(t)
        \/ /\ Encloses("[", "]")
           /\ Trim(inner) = <<>> \/ Separated(inner, LAMBDA e : IsValue(e, depth - 1))
        \/ /\ Encloses("{", "}")
           /\ Trim(inner) = <<>> \/ Separated(inner, LAMBDA m : IsMember(m, depth - 1))
-----------------------------------------------------------------------------
(* Properties.                                                             *)

\* The parser accepts the texts of the language that are not nested too deep,
\* and no others (json.h, 3; json.cpp, 2 to 4).
AcceptsTheGrammar == text # <<>> => (Parse(text).ok <=> IsValue(text, MaxDepth))

RECURSIVE Depth(_)
Depth(v) ==
    CASE v[1] = "array" -> 1 + Max({Depth(v[2][i]) : i \in DOMAIN v[2]} \cup {0})
      [] v[1] = "object" -> 1 + Max({Depth(v[2][k]) : k \in DOMAIN v[2]} \cup {0})
      [] OTHER -> 0

\* What the type of a number becomes on the way: of a double without a fraction
\* an integer is left, of minus zero not the sign, of NaN nothing.
RECURSIVE Kept(_)
Kept(v) ==
    CASE v = Double(NotFinite) -> Null
      [] v = Double(<<"-", "0">>) -> Int64(<<"0">>)
      [] v[1] = "double" /\ v[2] # NotFinite /\ "." \notin ToSet(v[2]) -> Int64(v[2])
      [] v[1] = "array" -> Array([i \in DOMAIN v[2] |-> Kept(v[2][i])])
      [] v[1] = "object" -> Object([k \in DOMAIN v[2] |-> Kept(v[2][k])])
      [] OTHER -> v

\* A document that is written out, compact or pretty, and read again is the same
\* document, whatever its strings hold (json.h, 4 and 5).
RoundTrip ==
    Depth(doc) <= MaxDepth =>
        \A pretty \in BOOLEAN :
            LET again == Parse(Dump(doc, pretty)) IN again.ok /\ again.value = Kept(doc)
=============================================================================
