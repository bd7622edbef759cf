------------------------------- MODULE FmtParse -------------------------------
(***************************************************************************)
(* fmt: how a format string is read.  The string is read in four ways: by  *)
(* the plain loop of parse_format_string (strings below 32 characters), by *)
(* its loop with memchr (longer ones; here both read every string), with   *)
(* references resolved later (dynamic_specs_handler, as a precompiled      *)
(* format does), and by the compile-time checker of FMT_STRING, which does *)
(* not know the values.  A character is a member of Alphabet; "d" stands   *)
(* for the letters (a type, or the name of the first argument) and "lead"  *)
(* for the first unit of a code point of two.                              *)
(***************************************************************************)
EXTENDS Integers, Sequences, FiniteSets

CONSTANTS Alphabet, ArgLists,   \* characters; argument lists, records [type, value]
          MaxInt,               \* max_value<int>()
          Seeds, MaxMore        \* how strings begin, characters added at most

VARIABLES str, args, more   \* the format string, the arguments, characters added
vars == <<str, args, more>>

Init == str \in Seeds /\ args \in ArgLists /\ more = 0

\* The string is input: it may be any.
Type(c) == more < MaxMore /\ more' = more + 1 /\ str' = Append(str, c) /\ UNCHANGED args
Next == \E c \in Alphabet : Type(c)
Spec == Init /\ [][Next]_vars

Digits == {"0", "1"}
Value(c) == IF c = "1" THEN 1 ELSE 0
None == -2        \* no reference (arg_id_kind::none)
Unknown == -1     \* a name no argument has

\* basic_format_specs, dynamic_format_specs: as they are constructed.
DefaultSpecs == [width |-> 0, precision |-> -1, type |-> "", align |-> "none", sign |-> "none",
                 alt |-> FALSE, fill |-> <<" ">>, width_ref |-> None, precision_ref |-> None]

\* A reader: at, the position; begin, where the text that is not yet copied starts; next,
\* basic_format_parse_context::next_arg_id_; id, the argument found last; ok, no error was
\* thrown.
Reader(how) == [how |-> how, at |-> 1, begin |-> 1, next |-> 0, id |-> None, specs |-> DefaultSpecs,
                out |-> <<>>, ok |-> TRUE]
on_error(p) == [p EXCEPT !.ok = FALSE]
CharAt(i) == IF i <= Len(str) THEN str[i] ELSE "end"
Peek(p) == CharAt(p.at)
Skip(p, n) == [p EXCEPT !.at = @ + n]
Exists(id) == id \in 0..(Len(args) - 1)
Arg(id) == args[id + 1]

\* next_arg_id, of compile_parse_context too.
next_arg_id(p) ==
    IF p.next < 0 \/ (p.how = "check" /\ ~Exists(p.next)) THEN on_error(p)
    ELSE [p EXCEPT !.next = @ + 1, !.id = p.next]

\* check_arg_id: a number switches to manual indexing for good.
check_arg_id(p, id) ==
    IF p.next > 0 \/ (p.how = "check" /\ ~Exists(id)) THEN on_error(p)
    ELSE [p EXCEPT !.next = -1, !.id = id]

\* parse_nonnegative_int, which stops before the value leaves unsigned.
RECURSIVE NumberFrom(_, _)
NumberFrom(at, value) ==
    IF CharAt(at) \notin Digits THEN [value |-> value, at |-> at]
    ELSE IF value > MaxInt \div 10 THEN [value |-> MaxInt + 1, at |-> at]
    ELSE NumberFrom(at + 1, value * 10 + Value(CharAt(at)))
Number(p, n) == IF n.value > MaxInt THEN on_error(p) ELSE [p EXCEPT !.at = n.at, !.id = n.value]
parse_nonnegative_int(p) == Number(p, NumberFrom(p.at, 0))

NameEnd(at) ==
    CHOOSE e \in (at + 1)..(Len(str) + 1) :
        CharAt(e) \notin Digits \cup {"d"} /\ \A i \in (at + 1)..(e - 1) : CharAt(i) \in Digits \cup {"d"}

\* on_arg_id(name): format_handler must know the name, the checker refuses all names.
format_handler_name(p, id) == IF id = Unknown THEN on_error(p) ELSE [p EXCEPT !.id = id]
format_string_checker(p, id) == IF p.how = "check" THEN on_error(p) ELSE format_handler_name(p, id)

\* parse_arg_id with the adapter's call for what it finds, a number (Indexed) or a name;
\* field: id_adapter.
Indexed(p) == IF ~p.ok \/ Peek(p) \notin {"}", ":"} THEN on_error(p) ELSE check_arg_id(p, p.id)
parse_arg_id(p, field) ==
    LET c == Peek(p)
        e == NameEnd(p.at)
        id == IF SubSeq(str, p.at, e - 1) = <<"d">> THEN 0 ELSE Unknown
    IN IF c \in {"}", ":"} THEN next_arg_id(p)
       ELSE IF c \in Digits
       THEN Indexed(IF c = "0" THEN [Skip(p, 1) EXCEPT !.id = 0] ELSE parse_nonnegative_int(p))
       ELSE IF c # "d" THEN on_error(p)
       ELSE IF field THEN format_string_checker([p EXCEPT !.at = e], id)
       ELSE [p EXCEPT !.at = e, !.id = id]

\* width_checker, precision_checker: an integer that is not negative; get_dynamic_spec:
\* that fits an int.
width_checker(arg) == arg.type \in {"int", "uint"} /\ arg.value >= 0
get_dynamic_spec(id) == Exists(id) /\ width_checker(Arg(id)) /\ Arg(id).value <= MaxInt

\* specs_setter.
specs_setter(p, field, value) == [p EXCEPT !.specs[field] = value]

\* on_dynamic_width, on_dynamic_precision: specs_handler looks the argument up,
\* dynamic_specs_handler keeps the reference.
specs_handler(p, field) ==
    IF get_dynamic_spec(p.id) THEN specs_setter(p, field, Arg(p.id).value) ELSE on_error(p)
dynamic_specs_handler(p, field) ==
    specs_setter(p, IF field = "width" THEN "width_ref" ELSE "precision_ref", p.id)
on_dynamic(p, field) ==
    IF ~p.ok THEN p
    ELSE IF p.how = "now" THEN specs_handler(p, field) ELSE dynamic_specs_handler(p, field)

\* numeric_specs_checker.
is_integral(t) == t \in {"int", "uint"}
is_arithmetic(t) == is_integral(t) \/ t = "double"
check_sign(t) == is_arithmetic(t) /\ t # "uint"
check_precision(t) == ~is_integral(t)

\* The types of the alphabet: "d" is one of the integers'.
handle_int_type_spec(c) == c \in {"", "d"}
parse_float_type_spec(c) == c = ""
check_string_type_spec(c) == c = ""
TypeAllowed(t, c) ==
    CASE is_integral(t) -> handle_int_type_spec(c)
      [] t = "double" -> parse_float_type_spec(c)
      [] t = "string" -> check_string_type_spec(c)

code_point_length(c) == IF c = "lead" THEN 2 ELSE 1

\* parse_align: a fill is a code point with an alignment behind it; that is looked for
\* first.
parse_align(p) ==
    LET there == p.at + code_point_length(Peek(p))
        q == IF there > Len(str) THEN p.at ELSE there
    IN IF q # p.at /\ CharAt(q) = "<"
       THEN IF Peek(p) = "{" THEN on_error(p)
            ELSE [p EXCEPT !.specs.fill = SubSeq(str, p.at, q - 1), !.specs.align = "left", !.at = q + 1]
       ELSE IF Peek(p) = "<" THEN [Skip(p, 1) EXCEPT !.specs.align = "left"]
       ELSE p

\* A flag c that the argument's type allows or not.
Flag(p, c, allowed, specs) ==
    IF ~p.ok \/ Peek(p) # c THEN p
    ELSE IF ~allowed THEN on_error(p) ELSE [Skip(p, 1) EXCEPT !.specs = specs]

\* "{" id "}" inside a replacement field.
Closed(p) == IF ~p.ok \/ Peek(p) # "}" THEN on_error(p) ELSE Skip(p, 1)
Reference(p, field) ==
    IF p.at = Len(str) THEN on_error(p)
    ELSE Closed(on_dynamic(parse_arg_id(Skip(p, 1), FALSE), field))

\* A number, or a reference to an argument; neither is other.
NumberOrReference(p, field, other) ==
    IF Peek(p) \in Digits THEN LET n == parse_nonnegative_int(p) IN specs_setter(n, field, n.id)
    ELSE IF Peek(p) = "{" THEN Reference(p, field)
    ELSE other
parse_width(p) == IF ~p.ok THEN p ELSE NumberOrReference(p, "width", p)

end_precision(p, t) == IF p.ok /\ ~check_precision(t) THEN on_error(p) ELSE p
parse_precision(p, t) ==
    LET q == Skip(p, 1)
    IN IF ~p.ok \/ Peek(p) # "." THEN p
       ELSE end_precision(NumberOrReference(q, "precision", on_error(q)), t)

\* The flags with specs_checker; "0" writes over the first unit of the fill.
on_plus(p, t) == Flag(p, "+", check_sign(t), [p.specs EXCEPT !.sign = "plus"])
on_hash(p, t) == Flag(p, "#", is_arithmetic(t), [p.specs EXCEPT !.alt = TRUE])
on_zero(p, t) ==
    Flag(p, "0", is_arithmetic(t), [p.specs EXCEPT !.align = "numeric", !.fill[1] = "0"])
on_type(p) ==
    IF ~p.ok \/ Peek(p) \in {"end", "}"} THEN p ELSE specs_setter(Skip(p, 1), "type", Peek(p))

parse_format_specs(p, t) ==
    on_type(parse_precision(
        parse_width(on_zero(on_hash(on_plus(parse_align(p), t), t), t)), t))

\* handle_dynamic_spec: the references are looked up when the value is formatted.
handle_dynamic_specs(p) ==
    LET s == p.specs
        width == IF s.width_ref = None THEN s.width ELSE Arg(s.width_ref).value
        precision == IF s.precision_ref = None THEN s.precision ELSE Arg(s.precision_ref).value
    IN IF ~p.ok \/ p.how # "later" THEN p
       ELSE IF \E ref \in {s.width_ref, s.precision_ref} : ref # None /\ ~get_dynamic_spec(ref)
       THEN on_error(p)
       ELSE [p EXCEPT !.specs = [s EXCEPT !.width = width, !.precision = precision,
                                          !.width_ref = None, !.precision_ref = None]]

\* format_handler::on_format_specs, with its short cut for a letter alone.
format_handler_specs(p, t) ==
    IF Peek(p) = "d" /\ CharAt(p.at + 1) = "}" THEN specs_setter(Skip(p, 1), "type", "d")
    ELSE parse_format_specs(p, t)

\* formatter::parse, and formatter::format of what it parsed.
formatter(p, t) == handle_dynamic_specs(parse_format_specs(p, t))

\* on_format_specs, and the value formatted with its type once the specs end in "}".
FormatField(p, id) ==
    IF ~p.ok \/ Peek(p) # "}" \/ ~TypeAllowed(Arg(id).type, p.specs.type) THEN on_error(p)
    ELSE [p EXCEPT !.out = Append(@, [arg |-> id, specs |-> p.specs])]
on_format_specs(p, id) ==
    LET t == Arg(id).type
        start == [p EXCEPT !.specs = DefaultSpecs]
    IN FormatField(IF p.how = "now" THEN format_handler_specs(start, t) ELSE formatter(start, t), id)

\* parse_replacement_field, from its "{"; p.id is the argument's index.
on_replacement_field(p) == [p EXCEPT !.out = Append(@, [arg |-> p.id, specs |-> DefaultSpecs])]
AfterId(p) ==
    IF ~p.ok \/ ~Exists(p.id) THEN on_error(p)
    ELSE IF Peek(p) = "}" THEN Skip(on_replacement_field(p), 1)
    ELSE IF Peek(p) = ":" THEN Skip(on_format_specs(Skip(p, 1), p.id), 1)
    ELSE on_error(p)
parse_replacement_field(p) ==
    LET q == Skip(p, 1)
    IN IF Peek(q) = "{" THEN [Skip(q, 1) EXCEPT !.out = Append(@, [char |-> "{"])]
       ELSE IF Peek(q) = "end" THEN on_error(p)
       ELSE AfterId(parse_arg_id(q, TRUE))

\* on_text: characters are copied.
Text(t) == [i \in DOMAIN t |-> [char |-> t[i]]]
on_text(p, from, to) == [p EXCEPT !.out = @ \o Text(SubSeq(str, from, to - 1))]

\* The loop of parse_format_string for short strings; one turn of it.
Begin(p) == [p EXCEPT !.begin = p.at]
ShortTurn(p) ==
    IF Peek(p) = "{" THEN Begin(parse_replacement_field(on_text(p, p.begin, p.at)))
    ELSE IF Peek(p) # "}" THEN Skip(p, 1)
    ELSE IF CharAt(p.at + 1) # "}" THEN on_error(p)
    ELSE Begin(Skip(on_text(p, p.begin, p.at + 1), 2))
RECURSIVE Short(_)
Short(p) ==
    IF ~p.ok THEN p
    ELSE IF Peek(p) = "end" THEN on_text(p, p.begin, p.at)
    ELSE Short(ShortTurn(p))

\* find: the first c at from or behind it, to if there is none before to.
find(c, from, to) ==
    CHOOSE i \in from..to :
        (i = to \/ CharAt(i) = c) /\ \A j \in from..(i - 1) : CharAt(j) # c

\* writer: text up to to, with its doubled closing braces.
RECURSIVE Write(_, _, _)
Write(p, from, to) ==
    LET i == find("}", from, to)
    IN IF from = to THEN p
       ELSE IF i = to THEN on_text(p, from, to)
       ELSE IF i + 1 = to \/ CharAt(i + 1) # "}" THEN on_error(p)
       ELSE Write(on_text(p, from, i + 1), i + 2, to)

\* The loop with memchr; i, the next opening brace; the text before it is written.
Field(p, i) ==
    IF ~p.ok THEN p
    ELSE IF i > Len(str) THEN [p EXCEPT !.at = i]
    ELSE parse_replacement_field([p EXCEPT !.at = i])
RECURSIVE Long(_)
Long(p) ==
    LET i == IF Peek(p) = "{" THEN p.at ELSE find("{", p.at + 1, Len(str) + 1)
    IN IF ~p.ok \/ Peek(p) = "end" THEN p ELSE Long(Field(Write(p, p.at, i), i))

-----------------------------------------------------------------------------
(***************************************************************************)
(* The reference: every way to split the string into text and replacement  *)
(* fields, and the fields into their parts.                                *)
(***************************************************************************)
RECURSIVE Numeral(_)
Numeral(t) == IF t = <<>> THEN 0 ELSE 10 * Numeral(SubSeq(t, 1, Len(t) - 1)) + Value(t[Len(t)])
IsNumber(t) == t # <<>> /\ (\A i \in DOMAIN t : t[i] \in Digits) /\ Numeral(t) <= MaxInt
IsIndex(t) == IsNumber(t) /\ (t[1] = "0" => Len(t) = 1)
IsId(t) == t = <<>> \/ IsIndex(t) \/ t = <<"d">>
IsBraced(t) == Len(t) >= 2 /\ t[1] = "{" /\ t[Len(t)] = "}" /\ IsId(SubSeq(t, 2, Len(t) - 1))
Inner(t) == SubSeq(t, 2, Len(t) - 1)

IsAlign(t) ==
    \/ t = <<>> \/ t = <<"<">>
    \/ /\ t # <<>> /\ t[Len(t)] = "<" /\ Len(t) = 1 + code_point_length(t[1])
       /\ t[1] # "{"

\* [[fill]align][sign]["#"]["0"][width]["." precision][type]: part k may read t.
PartOk(k, t) ==
    CASE k = 1 -> IsAlign(t)
      [] k = 2 -> t \in {<<>>, <<"+">>}
      [] k = 3 -> t \in {<<>>, <<"#">>}
      [] k = 4 -> t \in {<<>>, <<"0">>}
      [] k = 5 -> t = <<>> \/ IsNumber(t) \/ IsBraced(t)
      [] k = 6 -> t = <<>> \/ (t[1] = "." /\ (IsNumber(Tail(t)) \/ IsBraced(Tail(t))))
      [] k = 7 -> t \in {<<>>, <<"d">>}

RECURSIVE PartsFrom(_, _)
PartsFrom(k, t) ==
    IF k = 8 THEN {r \in {<<>>} : t = <<>>}
    ELSE UNION {{<<SubSeq(t, 1, i)>> \o r : r \in PartsFrom(k + 1, SubSeq(t, i + 1, Len(t)))} :
                  i \in {j \in 0..Len(t) : PartOk(k, SubSeq(t, 1, j))}}

\* A "0" before the width is the flag.
SpecParts(t) == {r \in PartsFrom(1, t) : r[5] # <<>> /\ r[5][1] = "0" => r[4] # <<>>}

\* What stands between the braces of a field: the id, and the parts behind a colon.
FieldReadings(t) ==
    {[id |-> t, parts |-> [k \in 1..7 |-> <<>>]] : i \in {j \in {1} : IsId(t)}}
      \cup UNION {{[id |-> SubSeq(t, 1, i - 1), parts |-> r] : r \in SpecParts(SubSeq(t, i + 1, Len(t)))} :
                    i \in {j \in DOMAIN t : t[j] = ":" /\ IsId(SubSeq(t, 1, j - 1))}}

\* A closing brace before an alignment is a fill, so it does not end an empty
\* specification.
Ends(at, e) ==
    /\ e <= Len(str) /\ str[e] = "}"
    /\ ~(str[e - 1] = ":" /\ e - 1 > at /\ CharAt(e + 1) = "<"
           /\ \A i \in (at + 1)..(e - 2) : str[i] # ":")

RECURSIVE Readings(_)
Readings(at) ==
    IF at > Len(str) THEN {<<>>}
    ELSE IF str[at] \notin {"{", "}"} THEN {Text(<<str[at]>>) \o r : r \in Readings(at + 1)}
    ELSE IF CharAt(at + 1) = str[at] THEN {Text(<<str[at]>>) \o r : r \in Readings(at + 2)}
    ELSE IF str[at] = "}" THEN {}
    ELSE UNION {LET after == Readings(e + 1)
                IN UNION {{<<f>> \o r : r \in after} : f \in FieldReadings(SubSeq(str, at + 1, e - 1))} :
                    e \in {i \in (at + 1)..Len(str) : Ends(at, i)}}

IsField(x) == "char" \notin DOMAIN x

\* The ids of a reading in their order: the field's, its width's, its precision's.
Refs(f) ==
    <<f.id>> \o (IF IsBraced(f.parts[5]) THEN <<Inner(f.parts[5])>> ELSE <<>>)
             \o (IF f.parts[6] # <<>> /\ IsBraced(Tail(f.parts[6]))
                 THEN <<Inner(Tail(f.parts[6]))>> ELSE <<>>)
RECURSIVE AllRefs(_)
AllRefs(r) == IF r = <<>> THEN <<>> ELSE (IF IsField(r[1]) THEN Refs(r[1]) ELSE <<>>) \o AllRefs(Tail(r))

\* The argument of the n-th id: the automatic ones are counted.
Named(id) == IF id = <<"d">> THEN 0 ELSE Numeral(id)
Target(refs, n) ==
    IF refs[n] # <<>> THEN Named(refs[n]) ELSE Cardinality({i \in 1..(n - 1) : refs[i] = <<>>})

\* Whether the field whose first id is number n is allowed, and what it asks for.
FieldOk(f, refs, n) ==
    LET t == Arg(Target(refs, n)).type
        m == Len(Refs(f))
    IN /\ \A i \in n..(n + m - 1) : Exists(Target(refs, i))
       /\ \A i \in (n + 1)..(n + m - 1) : get_dynamic_spec(Target(refs, i))
       /\ f.parts[2] # <<>> => check_sign(t)
       /\ f.parts[3] # <<>> \/ f.parts[4] # <<>> => is_arithmetic(t)
       /\ f.parts[6] # <<>> => check_precision(t)
       /\ f.parts[7] # <<>> => is_integral(t)
FieldMeaning(f, refs, n) ==
    LET p == f.parts
        fill == IF Len(p[1]) > 1 THEN SubSeq(p[1], 1, Len(p[1]) - 1) ELSE <<" ">>
        last == n + Len(Refs(f)) - 1
    IN [arg |-> Target(refs, n),
        specs |-> [width |-> IF p[5] = <<>> THEN 0 ELSE IF IsBraced(p[5]) THEN Arg(Target(refs, n + 1)).value
                             ELSE Numeral(p[5]),
                   precision |-> IF p[6] = <<>> THEN -1
                                 ELSE IF IsBraced(Tail(p[6])) THEN Arg(Target(refs, last)).value
                                 ELSE Numeral(Tail(p[6])),
                   type |-> IF p[7] = <<>> THEN "" ELSE p[7][1],
                   align |-> IF p[4] # <<>> THEN "numeric" ELSE IF p[1] # <<>> THEN "left" ELSE "none",
                   sign |-> IF p[2] # <<>> THEN "plus" ELSE "none",
                   alt |-> p[3] # <<>>,
                   fill |-> IF p[4] # <<>> THEN [fill EXCEPT ![1] = "0"] ELSE fill,
                   width_ref |-> None, precision_ref |-> None]]

\* A reading is allowed when automatic and numbered ids are not mixed and every field is.
First(r, k) == 1 + Len(AllRefs(SubSeq(r, 1, k - 1)))
Allowed(r) ==
    LET refs == AllRefs(r)
    IN /\ ~\E i, j \in DOMAIN refs : refs[i] = <<>> /\ refs[j] # <<>> /\ refs[j] # <<"d">>
       /\ \A k \in DOMAIN r : IsField(r[k]) => FieldOk(r[k], refs, First(r, k))
Meaning(r) ==
    [k \in DOMAIN r |-> IF IsField(r[k]) THEN FieldMeaning(r[k], AllRefs(r), First(r, k)) ELSE r[k]]

Meanings == {Meaning(r) : r \in {q \in Readings(1) : Allowed(q)}}

Result(p) == IF p.ok THEN {p.out} ELSE {}
HasReference(p) ==
    \E k \in DOMAIN p.out :
        IsField(p.out[k]) /\ (p.out[k].specs.width_ref # None \/ p.out[k].specs.precision_ref # None)
UsesName == \E i \in 1..(Len(str) - 1) : str[i] = "{" /\ str[i + 1] = "d"

\* Both loops, and references resolved now or later, read every string alike: they accept
\* exactly what can be split into text and well-formed fields whose arguments exist, have
\* the right type and are not numbered in two ways, with that meaning.  What FMT_STRING's
\* checker accepts can be formatted unless an argument is no width, and it accepts all
\* that can be formatted without names.
ReadAlike(short, long, later, check, meanings) ==
    /\ Result(short) = meanings
    /\ Result(long) = meanings
    /\ Result(later) = meanings
    /\ (check.ok /\ ~HasReference(check)) => short.ok
    /\ (short.ok /\ ~UsesName) => check.ok
FmtParseSound ==
    ReadAlike(Short(Reader("now")), Long(Reader("now")), Short(Reader("later")),
              Short(Reader("check")), Meanings)
==============================================================================
