------------------------------ MODULE Selectors ------------------------------
(***************************************************************************)
(* The label_selector parser and the SubscribeFilter of Subscribe          *)
(* (konfig/grpc/subscribe/filter.rs).                                      *)
(*                                                                         *)
(* A selector is text: a sequence of tokens, where a token is one of the   *)
(* punctuation characters the parser looks at, a blank, or a word.  Words  *)
(* that touch run together, so a key or a value is a sequence of tokens.   *)
(* "==" and "!=" are two tokens each.                                      *)
(***************************************************************************)
EXTENDS Integers, Sequences, FiniteSets, SequencesExt

CONSTANTS
    Keys,       \* one-word label keys
    Values,     \* one-word label values
    Names       \* config names

Blank == " "

(***************************************************************************)
(* Text helpers: str::trim, split at a set of positions, split_once.       *)
(***************************************************************************)
Solid(s) == {i \in DOMAIN s : s[i] # Blank}

Trim(s) ==
    IF Solid(s) = {} THEN <<>> ELSE SubSeq(s, Min(Solid(s)), Max(Solid(s)))

\* The numbers of a set in increasing order.
Ordered(S) == [k \in 1 .. Cardinality(S) |-> CHOOSE x \in S : Cardinality({y \in S : y <= x}) = k]

SplitAt(s, cuts) ==
    LET ends == Ordered(cuts \cup {0, Len(s) + 1})
    IN  [i \in 1 .. Len(ends) - 1 |-> SubSeq(s, ends[i] + 1, ends[i + 1] - 1)]

Places(s, sep) ==
    {i \in DOMAIN s : i + Len(sep) - 1 <= Len(s) /\ SubSeq(s, i, i + Len(sep) - 1) = sep}

Before(s, sep) == SubSeq(s, 1, Min(Places(s, sep)) - 1)
After(s, sep)  == SubSeq(s, Min(Places(s, sep)) + Len(sep), Len(s))

(***************************************************************************)
(* split_top_level_requirements: commas outside parentheses separate.  The *)
(* result is empty for unbalanced parentheses, and only then.              *)
(***************************************************************************)
Depth(s, i) ==
    Cardinality({j \in 1 .. i : s[j] = "("}) - Cardinality({j \in 1 .. i : s[j] = ")"})

Balanced(s) == Depth(s, Len(s)) = 0 /\ \A i \in DOMAIN s : Depth(s, i) >= 0

(***************************************************************************)
(* A slip: a comma inside a value list also separates requirements.        *)
(***************************************************************************)
SplitEverywhere(s) ==
    IF Balanced(s) THEN SplitAt(s, Places(s, <<",">>)) ELSE <<>>

split_top_level_requirements(s) ==
    IF Balanced(s) THEN SplitAt(s, {i \in Places(s, <<",">>) : Depth(s, i) = 0}) ELSE <<>>

(***************************************************************************)
(* Expression values: an operator, a key, and the values it names.  The    *)
(* INVALID_ARGUMENT a malformed requirement is answered with is a value    *)
(* of the same shape.                                                      *)
(***************************************************************************)
Expression(op, key, values) == [op |-> op, key |-> key, values |-> values]

Malformed == Expression("Malformed", <<>>, {})

parse_key(s)   == Trim(s)
parse_value(s) == Trim(s)

parse_value_set(s) ==
    LET parts == SplitAt(s, Places(s, <<",">>))
    IN  {parse_value(parts[i]) : i \in DOMAIN parts}

SetOp(word) == CASE word = <<"in">>    -> "In"
                 [] word = <<"notin">> -> "NotIn"
                 [] OTHER              -> "unknown"

\* The operator is what follows the last blank of the head.
split_set_head(head) ==
    IF Places(head, <<Blank>>) = {} THEN [key |-> <<>>, op |-> "unknown"]
    ELSE LET cut == Max(Places(head, <<Blank>>))
         IN  [key |-> parse_key(SubSeq(head, 1, cut - 1)),
              op  |-> SetOp(Trim(SubSeq(head, cut + 1, Len(head))))]

SetRequirement(req) ==
    LET open   == Min(Places(req, <<"(">>))
        closes == Places(req, <<")">>)
        head   == split_set_head(Trim(SubSeq(req, 1, open - 1)))
        values == parse_value_set(SubSeq(req, open + 1, Max(closes) - 1))
    IN  IF \/ closes = {}
           \/ Max(closes) < open
           \/ head.op = "unknown"
           \/ head.key = <<>>
           \/ <<>> \in values
        THEN Malformed
        ELSE Expression(head.op, head.key, values)

Equality(op, req, sep) ==
    LET key   == parse_key(Before(req, sep))
        value == parse_value(After(req, sep))
    IN  IF key = <<>> \/ value = <<>> THEN Malformed ELSE Expression(op, key, {value})

Existence(op, key) == IF key = <<>> THEN Malformed ELSE Expression(op, key, {})

parse_requirement(req) ==
    CASE req = <<>>                     -> Malformed
      [] Places(req, <<"(">>) # {}      -> SetRequirement(req)
      [] OTHER ->
    CASE Places(req, <<"=", "=">>) # {} -> Equality("Equal", req, <<"=", "=">>)
      [] OTHER ->
    CASE Places(req, <<"!", "=">>) # {} -> Equality("NotEqual", req, <<"!", "=">>)
      [] OTHER ->
    CASE Places(req, <<"=">>) # {}      -> Equality("Equal", req, <<"=">>)
      [] OTHER ->
    CASE req[1] = "!"                   -> Existence("DoesNotExist", parse_key(Tail(req)))
      [] OTHER                          -> Existence("Exists", parse_key(req))

\* A malformed requirement, or a malformed split, makes the whole selector malformed.
parse_label_selector(input) ==
    LET reqs  == split_top_level_requirements(Trim(input))
        exprs == {parse_requirement(Trim(reqs[i])) : i \in DOMAIN reqs}
    IN  CASE Trim(input) = <<>>                   -> {}
          [] Trim(input) # <<>> /\ (reqs = <<>> \/ Malformed \in exprs) -> {Malformed}
          [] OTHER                                -> exprs

(***************************************************************************)
(* kube's Selector::matches.  A label map is a set of key/value pairs.     *)
(***************************************************************************)
Holds(e, labels) ==
    LET had == {l.value : l \in {m \in labels : m.key = e.key}}
    IN  CASE e.op \in {"In", "Equal"}       -> had \cap e.values # {}
          [] e.op \in {"NotIn", "NotEqual"} -> had \cap e.values = {}
          [] e.op = "Exists"                -> had # {}
          [] e.op = "DoesNotExist"          -> had = {}

SelectorMatches(exprs, labels) == \A e \in exprs : Holds(e, labels)

SubscribeFilter(names, selector) ==
    [names |-> names, selector |-> parse_label_selector(selector)]

allow(filter, name, labels) ==
    (filter.names = {} \/ name \in filter.names) /\ SelectorMatches(filter.selector, labels)

\* An event without an inner Config has no name and is never let through.
filter_allows_event(filter, name, labels) ==
    name \in Names /\ allow(filter, name, labels)

(***************************************************************************)
(* What a subscriber writes: requirements, and the text they are written   *)
(* as, with or without blanks and with at most one defect.                 *)
(***************************************************************************)
Requirements ==
    [op : {"In", "NotIn"}, key : Keys, values : (SUBSET Values) \ {{}}]
        \cup [op : {"Equal", "EqualEqual", "NotEqual"}, key : Keys, values : {{v} : v \in Values}]
        \cup [op : {"Exists", "DoesNotExist"}, key : Keys, values : {{}}]

\* Only a list has parentheses to lose, and only an operator that takes a value lacks one.
DefectsOf(r) ==
    {"none", "no requirement"}
        \cup (IF r.op # "Exists" THEN {"no key"} ELSE {})
        \cup (IF r.values # {} THEN {"no value"} ELSE {})
        \cup (IF r.op \in {"In", "NotIn"} THEN {"no open", "no close"} ELSE {})

Written(r, spaced, defect) ==
    LET gap    == IF spaced THEN <<Blank>> ELSE <<>>
        key    == IF defect = "no key" THEN <<>> ELSE <<r.key>>
        comma  == <<",">> \o gap
        values == IF defect = "no value" THEN <<>>
                  ELSE LET vs == SetToSeq(r.values)
                       IN  FoldLeft(\o, <<>>,
                                    [i \in DOMAIN vs |-> IF i = 1 THEN <<vs[i]>>
                                                         ELSE comma \o <<vs[i]>>])
        list(w) == key \o <<Blank, w>> \o gap
                       \o (IF defect = "no open" THEN <<>> ELSE <<"(">>) \o gap \o values \o gap
                       \o (IF defect = "no close" THEN <<>> ELSE <<")">>)
        infix(sep) == key \o gap \o sep \o gap \o values
    IN  CASE defect = "no requirement" -> gap
          [] OTHER ->
        CASE r.op = "In"           -> list("in")
          [] r.op = "NotIn"        -> list("notin")
          [] r.op = "Equal"        -> infix(<<"=">>)
          [] r.op = "EqualEqual"   -> infix(<<"=", "=">>)
          [] r.op = "NotEqual"     -> infix(<<"!", "=">>)
          [] r.op = "DoesNotExist" -> <<"!">> \o gap \o key
          [] r.op = "Exists"       -> key

\* One requirement with a defect or without, and possibly a sound one before it.
Selection(before, req, defect, spaced, names) ==
    [before |-> before, req |-> req, defect |-> defect, spaced |-> spaced, names |-> names]

Selections ==
    UNION {{Selection(<<>>, r, d, b, n) :
                d \in DefectsOf(r) \ {"no requirement"}, b \in BOOLEAN, n \in SUBSET Names} :
           r \in Requirements}
    \cup UNION {{Selection(<<q>>, r, d, b, {}) : d \in DefectsOf(r), b \in BOOLEAN} :
                q, r \in Requirements}

SelectionText(s) ==
    (IF s.before = <<>> THEN <<>> ELSE Written(s.before[1], s.spaced, "none") \o <<",">>)
        \o Written(s.req, s.spaced, s.defect)

(***************************************************************************)
(* Every label map and every event name, including an event with no        *)
(* Config.                                                                 *)
(***************************************************************************)
Labels(key, value) == [key |-> <<key>>, value |-> <<value>>]

LabelMaps ==
    {m \in SUBSET {Labels(k, v) : k \in Keys, v \in Values} :
        \A a, b \in m : a.key = b.key => a = b}

NoConfig == "no config"

\* What the requirement says of a label map, from the Kubernetes documentation's words.
Says(r, labels) ==
    LET has(v) == Labels(r.key, v) \in labels
        one    == \E v \in r.values : has(v)
    IN  CASE r.op \in {"In", "Equal", "EqualEqual"} -> one
          [] r.op \in {"NotIn", "NotEqual"}         -> ~one
          [] r.op = "Exists"                        -> \E v \in Values : has(v)
          [] r.op = "DoesNotExist"                  -> \A v \in Values : ~has(v)

\* The parser and the filter on selection s: an error, or the events let through.
Selected(s) ==
    LET filter == SubscribeFilter(s.names, SelectionText(s))
    IN  IF filter.selector = {Malformed} THEN {Malformed}
        ELSE {e \in [name : Names \cup {NoConfig}, labels : LabelMaps] :
                  filter_allows_event(filter, e.name, e.labels)}

(***************************************************************************)
(* A subscription lets through exactly the events its names and its        *)
(* requirements describe, however the selector is spaced and although      *)
(* commas separate both requirements and the values of one; a selector     *)
(* with a defect (a key, value, parenthesis or requirement missing) is     *)
(* refused and never read as a wider or a narrower filter (filter.rs).     *)
(***************************************************************************)
SelectorMeansWhatItSays(s, selected) ==
    selected =
        IF s.defect # "none" THEN {Malformed}
        ELSE {e \in [name : Names, labels : LabelMaps] :
                /\ s.names = {} \/ e.name \in s.names
                /\ Says(s.req, e.labels)
                /\ s.before # <<>> => Says(s.before[1], e.labels)}
=============================================================================
