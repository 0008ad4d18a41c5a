--------------------------- MODULE JsonManipulator ---------------------------
(****************************************************************************)
(* The JSON manipulator (json-manipulator/src/lib.rs): a request is data    *)
(* and a sequence of operations, each made on what the one before it left.  *)
(*                                                                          *)
(* A value is a record of one field that tells its type; the members of an  *)
(* object are a function of their keys.  A path is a sequence of keys, "*"  *)
(* for all elements of an array; what a path selects is external.  A        *)
(* template is a sequence of texts and placeholders, and no value has the   *)
(* text of a placeholder.                                                   *)
(****************************************************************************)
EXTENDS Integers, Sequences, SequencesExt, FiniteSetsExt, TLC

CONSTANTS
    Inputs,        \* data of requests
    Operations,    \* operations of requests
    MaxOperations, \* operations of one request
    Alphabet,      \* all texts there are, in their order
    Known          \* all values but strings that a text may be read as

ASSUME ManipulatorAssumption == MaxOperations \in Nat

VARIABLES
    data,         \* what the operations so far made of the data
    steps         \* what each of them was, was given and made

jsonVars == <<data, steps>>

Str(s) == [str |-> s]
Num(n) == [num |-> n]
Bool(b) == [bool |-> b]
Arr(elements) == [arr |-> elements]
Obj(members) == [obj |-> members]
Err == [err |-> TRUE]

Is(v, t) == t \in DOMAIN v
Has(v, key) == Is(v, "obj") /\ key \in DOMAIN v.obj
With(members, key, v) == (key :> v) @@ members
------------------------------------------------------------------------------
\* jsonpath_lib::select (external).
OneStep(values, key) ==
    FlattenSeq([i \in DOMAIN values |->
        IF key = "*" /\ Is(values[i], "arr") THEN values[i].arr
        ELSE IF Has(values[i], key) THEN <<values[i].obj[key]>>
        ELSE <<>>])

\* evaluate_jsonpath: always an array, of what was found.
EvaluateJsonpath(v, path) == FoldLeft(OneStep, <<v>>, path)

\* value_to_string: strings as they are, JSON of the others.
ValueToString(v) ==
    IF Is(v, "str") THEN v.str
    ELSE IF Is(v, "num") THEN ToString(v.num)
    ELSE IF Is(v, "bool") THEN ToString(v.bool)
    ELSE ToString(v)

\* The text read as JSON, where it is; a string where it is not.
FromStr(text) ==
    IF \E v \in Known : ValueToString(v) = text
    THEN CHOOSE v \in Known : ValueToString(v) = text
    ELSE Str(text)

Concat(texts) == FoldLeft(LAMBDA a, b : a \o b, "", texts)

JoinTexts(texts, delimiter) ==
    Concat([i \in DOMAIN texts |-> IF i = 1 THEN texts[i] ELSE delimiter \o texts[i]])

\* process_template: placeholders without a member stay.
ProcessTemplate(template, v) ==
    Concat([i \in DOMAIN template |->
        IF template[i].key = "" THEN template[i].text
        ELSE IF Has(v, template[i].key) THEN ValueToString(v.obj[template[i].key])
        ELSE "{" \o template[i].key \o "}"])
------------------------------------------------------------------------------
\* set_path_value: objects are made on the way, anything else is an error.
SetPathValue(v, path, value) ==
    LET Down[k \in 0..Len(path)] ==
            \* what is there before step k + 1
            IF k = 0 THEN v
            ELSE LET above == Down[k - 1]
                 IN  IF ~Is(above, "obj") THEN Err
                     ELSE IF Has(above, path[k]) THEN above.obj[path[k]] ELSE Obj(<<>>)
        Up[k \in 0..Len(path)] ==
            \* what is there after it
            IF k = Len(path) THEN value ELSE Obj(With(Down[k].obj, path[k + 1], Up[k + 1]))
    IN  IF \A k \in 0..(Len(path) - 1) : Is(Down[k], "obj") THEN Up[0] ELSE Err
------------------------------------------------------------------------------
HandleJoin(v, op) ==
    LET elements == EvaluateJsonpath(v, op.source)
        joined == Str(JoinTexts([i \in DOMAIN elements |-> ValueToString(elements[i])], op.delimiter))
    IN  IF elements = <<>> THEN Str("")
        ELSE IF op.target = <<>> THEN joined
        ELSE SetPathValue(v, op.target, joined)

\* Numbers are integers here.  (A threshold of "NaN" is a number as well, by which
\* neither == nor != takes anything: lib.rs:635, :636.)
\* evaluate_comparison: the member is there, and the operator and the threshold
\* go with its type ...
Comparable(item, c) ==
    /\ Has(item, c.field)
    /\ LET v == item.obj[c.field]
       IN  \/ Is(v, "num") /\ Is(c.threshold, "num")
           \/ Is(v, "str") /\ c.operator \in {"==", "!="}
           \/ Is(v, "bool") /\ Is(c.threshold, "bool") /\ c.operator \in {"==", "!="}

\* ... and the comparison.
Holds(item, c) ==
    LET v == item.obj[c.field]
    IN  CASE c.operator = ">" -> v.num > c.threshold.num
          [] c.operator = "<" -> v.num < c.threshold.num
          [] c.operator = "==" -> ValueToString(v) = ValueToString(c.threshold)
          [] c.operator = "!=" -> ValueToString(v) # ValueToString(c.threshold)

\* One item that cannot be compared fails them all.
HandleFilter(v, op) ==
    LET elements == EvaluateJsonpath(v, op.source)
    IN  IF \A i \in DOMAIN elements : Comparable(elements[i], op.condition)
        THEN Arr(SelectSeq(elements, LAMBDA item : Holds(item, op.condition)))
        ELSE Err
------------------------------------------------------------------------------
Rank(text) == SelectInSeq(Alphabet, LAMBDA t : t = text)
Bit(b) == IF b THEN 1 ELSE 0

\* How two items compare by a key, as the sign of a number: values of one type
\* by their order, others by their texts, and nothing with what has no such key.
Compare(a, b, key) ==
    IF ~Has(a, key) \/ ~Has(b, key) THEN 0
    ELSE LET x == a.obj[key]
             y == b.obj[key]
         IN  IF Is(x, "num") /\ Is(y, "num") THEN x.num - y.num
             ELSE IF Is(x, "bool") /\ Is(y, "bool") THEN Bit(x.bool) - Bit(y.bool)
             ELSE Rank(ValueToString(x)) - Rank(ValueToString(y))

Directed(a, b, op) == IF op.ascending THEN Compare(a, b, op.key) ELSE Compare(b, a, op.key)

\* No order of the items: some have no key, or texts are among numbers.
IsOrder(items, op) ==
    \A i, j, k \in DOMAIN items :
       /\ Directed(items[i], items[j], op) <= 0 /\ Directed(items[j], items[k], op) <= 0
       => Directed(items[i], items[k], op) <= 0

\* Mutant: the order of equal items is turned with the direction.
Turned(items, op, j, i) ==
    LET c == Compare(items[j], items[i], op.key)
    IN  IF op.ascending THEN c < 0 \/ (c = 0 /\ j < i) ELSE c > 0 \/ (c = 0 /\ j > i)

Precedes(items, op, j, i) ==
    LET c == Directed(items[j], items[i], op) IN c < 0 \/ (c = 0 /\ j < i)

\* sort_by is stable; without an order it leaves some order of the items, for
\* which two stand here, or panics.
HandleSort(v, op) ==
    LET items == EvaluateJsonpath(v, op.source)
        Place(i) == 1 + Cardinality({j \in DOMAIN items : Precedes(items, op, j, i)})
    IN  IF IsOrder(items, op)
        THEN {Arr([k \in DOMAIN items |-> items[CHOOSE i \in DOMAIN items : Place(i) = k]])}
        ELSE {Arr(items), Arr(Reverse(items)), Err}

GroupOf(items, key, text) ==
    Arr(SelectSeq(items, LAMBDA item : Has(item, key) /\ ValueToString(item.obj[key]) = text))

\* Items without the key are left out; a number and its text are one group.
HandleGroup(v, op) ==
    LET items == EvaluateJsonpath(v, op.source)
        keyed == {i \in DOMAIN items : Has(items[i], op.key)}
        groups == {ValueToString(items[i].obj[op.key]) : i \in keyed}
    IN  Obj([text \in groups |-> GroupOf(items, op.key, text)])

HandleTransform(v, op) ==
    LET items == EvaluateJsonpath(v, op.source)
    IN  Arr([i \in DOMAIN items |-> FromStr(ProcessTemplate(op.value, items[i]))])

\* Both are arrays, of what was found: merged objects are a list of the two.
HandleMerge(v, op) == Arr(EvaluateJsonpath(v, op.source) \o EvaluateJsonpath(v, op.target))

HandleExtract(v, op) == Arr(OneStep(EvaluateJsonpath(v, op.source), op.key))

\* The length of an array that always is one.
HandleCount(v, op) == Num(Len(EvaluateJsonpath(v, op.source)))

Handle(v, op) ==
    CASE op.type = "select" -> {Arr(EvaluateJsonpath(v, op.source))}
      [] op.type = "join" -> {HandleJoin(v, op)}
      [] op.type = "filter" -> {HandleFilter(v, op)}
      [] op.type = "sort" -> HandleSort(v, op)
      [] op.type = "group" -> {HandleGroup(v, op)}
      [] op.type = "transform" -> {HandleTransform(v, op)}
      [] op.type = "merge" -> {HandleMerge(v, op)}
      [] op.type = "extract" -> {HandleExtract(v, op)}
      [] op.type = "count" -> {HandleCount(v, op)}
      [] op.type = "format" -> {Obj(op.key :> v)}
------------------------------------------------------------------------------
JsonInit == data \in Inputs /\ steps = <<>>

\* work: the next operation of the request; the first error ends it.
Operate ==
    /\ ~Is(data, "err") /\ Len(steps) < MaxOperations
    /\ \E op \in Operations : \E result \in Handle(data, op) :
          /\ data' = result
          /\ steps' = Append(steps, [op |-> op, on |-> EvaluateJsonpath(data, op.source), made |-> result])

JsonNext == Operate
------------------------------------------------------------------------------
\* The items of a sequence, each with how often it is there.
SameItems(s, t) ==
    /\ Len(s) = Len(t)
    /\ \A i \in DOMAIN s :
          Cardinality({j \in DOMAIN s : s[j] = s[i]}) = Cardinality({j \in DOMAIN t : t[j] = s[i]})
\* In order, and what is equal in the order it was in.
Stable(items, sorted, op) ==
    /\ \A i \in 1..(Len(sorted) - 1) : Directed(sorted[i], sorted[i + 1], op) <= 0
    /\ \A i \in DOMAIN items :
          LET Equal(item) == Directed(item, items[i], op) = 0
          IN  SelectSeq(items, Equal) = SelectSeq(sorted, Equal)

Opposite(op) ==
    [op EXCEPT !.condition.operator = CASE @ = "==" -> "!=" [] @ = "!=" -> "=="]

Keeps(op, on, made) ==
    CASE op.type = "sort" ->
           SameItems(on, made.arr) /\ (IsOrder(on, op) => Stable(on, made.arr, op))
      [] op.type = "group" ->
           LET groups == [t \in DOMAIN Alphabet |->
                            IF Has(made, Alphabet[t]) THEN made.obj[Alphabet[t]].arr ELSE <<>>]
           IN  SameItems(SelectSeq(on, LAMBDA item : Has(item, op.key)), FlattenSeq(groups))
      [] op.type = "filter" /\ op.condition.operator \in {"==", "!="} ->
           LET others == HandleFilter(Arr(on), [Opposite(op) EXCEPT !.source = <<"*">>])
           IN  SameItems(on, made.arr \o others.arr)
      [] OTHER -> TRUE

(****************************************************************************)
(* Whatever operations were made before, sorting keeps the items of an      *)
(* array, and the order of those the key does not tell apart; the groups of *)
(* an array share out those of its items that have the key; and what a      *)
(* filter takes and what its opposite takes are the items (handle_sort,     *)
(* handle_group, handle_filter).                                            *)
(****************************************************************************)
ItemsKept ==
    \A k \in DOMAIN steps :
       Is(steps[k].made, "err") \/ Keeps(steps[k].op, steps[k].on, steps[k].made)
==============================================================================
