----------------------------- MODULE Expressions -----------------------------
(***************************************************************************)
(* The `${{ }}' language (crates/expressions): the recursive-descent       *)
(* parser over lexed tokens, the lazy evaluator with its coercions, and    *)
(* the text a step's display name shows for an expression that cannot be   *)
(* evaluated yet.  Two scenes: token sequences of every shape are parsed;  *)
(* expression trees are evaluated.                                         *)
(*                                                                         *)
(* An expression is a tagged tuple: <<"lit", v>>, <<"ctx", name>>,         *)
(* <<"prop", e, name>>, <<"index", e, i>>, <<"wild", e>>, <<"not", e>>,    *)
(* <<"bin", op, l, r>>, <<"call", name, args>>.  A string is a sequence of *)
(* letters.  The recursion is over data: this module is for TLC alone.     *)
(***************************************************************************)
EXTENDS Naturals, Integers, Sequences, SequencesExt, FiniteSets

CONSTANTS Alphabets,   \* sets of tokens the inputs are made of
          Names,       \* identifier tokens
          Quoted,      \* literal tokens -> the identifier their text is
          MaxTokens,   \* bound: the length of an input
          Contexts,    \* name -> value of the named contexts
          Trees        \* the expressions that are evaluated

VARIABLES alphabet, typed,    \* the input typed so far
          tree, value         \* what is evaluated, and its value
exprVars == <<alphabet, typed, tree, value>>

----------------------------------------------------------------------------
(* The parser *)

Operators == <<{"||"}, {"&&"}, {"==", "!="}, {"<", "<=", ">", ">="}>>
Unary     == Len(Operators) + 1

At(ts, i)      == IF i <= Len(ts) THEN ts[i] ELSE "end"
Failed         == [ok |-> FALSE, ast |-> <<>>, next |-> 0]
Parsed(e, i)   == [ok |-> TRUE, ast |-> e, next |-> i]
Closed(ts, r, t) == r.ok /\ At(ts, r.next) = t   \* expect_token

RECURSIVE ParseBinary(_, _, _), MoreOperands(_, _, _), ParseUnary(_, _),
          MoreAccess(_, _), ParseArgs(_, _, _)

\* parse_or, parse_and, parse_equality, parse_comparison: one level each.
ParseBinary(ts, level, i) ==
  IF level = Unary THEN ParseUnary(ts, i)
  ELSE MoreOperands(ts, level, ParseBinary(ts, level + 1, i))

Mutant_MoreOperands(ts, level, left) ==
  IF ~left.ok \/ At(ts, left.next) \notin Operators[level] THEN left
  ELSE LET right == ParseBinary(ts, level, left.next + 1)
       IN  IF right.ok
           THEN Parsed(<<"bin", At(ts, left.next), left.ast, right.ast>>, right.next)
           ELSE Failed
MoreOperands(ts, level, left) ==
  IF ~left.ok \/ At(ts, left.next) \notin Operators[level] THEN left
  ELSE LET right == ParseBinary(ts, level + 1, left.next + 1)
       IN  IF right.ok
           THEN MoreOperands(ts, level,
                  Parsed(<<"bin", At(ts, left.next), left.ast, right.ast>>, right.next))
           ELSE Failed

\* parse_args, after the opening parenthesis.
ParseArgs(ts, args, i) ==
  IF args = <<>> /\ At(ts, i) = ")" THEN Parsed(<<>>, i)
  ELSE LET e == ParseBinary(ts, 1, i)
       IN  CASE ~e.ok -> Failed
             [] e.ok /\ At(ts, e.next) = "," -> ParseArgs(ts, Append(args, e.ast), e.next + 1)
             [] OTHER -> Parsed(Append(args, e.ast), e.next)

\* parse_primary and parse_ident_expr.
ParsePrimary(ts, i) ==
  CASE At(ts, i) \in DOMAIN Quoted -> Parsed(<<"lit", ts[i]>>, i + 1)
    [] At(ts, i) = "(" ->
         LET e == ParseBinary(ts, 1, i + 1)
         IN  IF Closed(ts, e, ")") THEN Parsed(e.ast, e.next + 1) ELSE Failed
    [] At(ts, i) \in Names /\ At(ts, i + 1) = "(" ->
         LET r == ParseArgs(ts, <<>>, i + 2)
         IN  IF Closed(ts, r, ")") THEN Parsed(<<"call", ts[i], r.ast>>, r.next + 1) ELSE Failed
    [] At(ts, i) \in Names /\ At(ts, i + 1) # "(" -> Parsed(<<"ctx", ts[i]>>, i + 1)
    [] OTHER -> Failed

\* The loop of parse_postfix, with parse_dot_access.
MoreAccess(ts, e) ==
  LET t == At(ts, e.next)  u == At(ts, e.next + 1)
  IN  CASE ~e.ok -> Failed
        [] e.ok /\ t = "." ->
             CASE u = "*"      -> MoreAccess(ts, Parsed(<<"wild", e.ast>>, e.next + 2))
               [] u \in Names  -> MoreAccess(ts, Parsed(<<"prop", e.ast, u>>, e.next + 2))
               [] OTHER        -> Failed
        [] e.ok /\ t = "[" /\ u = "*" ->
             LET w == Parsed(<<"wild", e.ast>>, e.next + 2)
             IN  IF Closed(ts, w, "]") THEN MoreAccess(ts, [w EXCEPT !.next = @ + 1]) ELSE Failed
        [] e.ok /\ t = "[" /\ u # "*" ->
             LET x == ParseBinary(ts, 1, e.next + 1)
             IN  IF Closed(ts, x, "]")
                 THEN MoreAccess(ts, Parsed(<<"index", e.ast, x.ast>>, x.next + 1))
                 ELSE Failed
        [] OTHER -> e

\* A literal is not indexed directly.
ParseUnary(ts, i) ==
  CASE At(ts, i) = "!" ->
         LET e == ParseUnary(ts, i + 1)
         IN  IF e.ok THEN Parsed(<<"not", e.ast>>, e.next) ELSE Failed
    [] At(ts, i) \in DOMAIN Quoted /\ At(ts, i + 1) \in {".", "["} -> Failed
    [] OTHER -> MoreAccess(ts, ParsePrimary(ts, i))

\* parse: all of the input.
Parse(ts) ==
  LET e == ParseBinary(ts, 1, 1)
  IN  IF e.ok /\ e.next = Len(ts) + 1 THEN e ELSE Failed

----------------------------------------------------------------------------
(* The grammar the parser is for, as an ambiguous-until-shown-otherwise set  *)
(* of derivations of ts[i .. j-1].                                           *)

RECURSIVE Derive(_, _, _, _), DeriveArgs(_, _, _)

Accesses(ts, i, j) ==
  LET objects(k) == IF k = i + 1 /\ ts[i] \in DOMAIN Quoted THEN {} ELSE Derive(ts, Unary + 1, i, k)
      ends(s)    == j - i > Len(s) /\ SubSeq(ts, j - Len(s), j - 1) = s
  IN  (IF ends(<<".", "*">>) THEN {<<"wild", o>> : o \in objects(j - 2)} ELSE {})
      \cup (IF ends(<<"[", "*", "]">>) THEN {<<"wild", o>> : o \in objects(j - 3)} ELSE {})
      \cup (IF j - i > 2 /\ ts[j - 2] = "." /\ ts[j - 1] \in Names
            THEN {<<"prop", o, ts[j - 1]>> : o \in objects(j - 2)} ELSE {})
      \cup (IF ends(<<"]">>)
            THEN UNION {{<<"index", o, x>> : o \in objects(k), x \in Derive(ts, 1, k + 1, j - 1)} :
                        k \in {k \in (i + 1)..(j - 2) : ts[k] = "["}} ELSE {})

Primaries(ts, i, j) ==
  CASE j = i + 1 -> IF ts[i] \in DOMAIN Quoted THEN {<<"lit", ts[i]>>}
                    ELSE IF ts[i] \in Names THEN {<<"ctx", ts[i]>>} ELSE {}
    [] j > i + 1 /\ ts[i] = "(" /\ ts[j - 1] = ")" -> Derive(ts, 1, i + 1, j - 1)
    [] j > i + 2 /\ ts[i] \in Names /\ ts[i + 1] = "(" /\ ts[j - 1] = ")" ->
         {<<"call", ts[i], args>> : args \in DeriveArgs(ts, i + 2, j - 1)}
    [] OTHER -> {}

DeriveArgs(ts, i, j) ==
  IF i = j THEN {<<>>}
  ELSE {<<e>> : e \in Derive(ts, 1, i, j)}
       \cup UNION {{Append(args, e) : args \in DeriveArgs(ts, i, k) \ {<<>>}, e \in Derive(ts, 1, k + 1, j)} :
                   k \in {k \in i..(j - 1) : ts[k] = ","}}

Derive(ts, level, i, j) ==
  CASE i >= j -> {}
    [] i < j /\ level < Unary ->
         Derive(ts, level + 1, i, j)
         \cup UNION {{<<"bin", ts[k], l, r>> : l \in Derive(ts, level, i, k), r \in Derive(ts, level + 1, k + 1, j)} :
                     k \in {k \in (i + 1)..(j - 2) : ts[k] \in Operators[level]}}
    [] i < j /\ level = Unary ->
         Derive(ts, Unary + 1, i, j)
         \cup (IF ts[i] = "!" THEN {<<"not", e>> : e \in Derive(ts, Unary, i + 1, j)} ELSE {})
    [] OTHER -> Accesses(ts, i, j) \cup Primaries(ts, i, j)

----------------------------------------------------------------------------
(* The display text *)

RECURSIVE ToExpression(_), Joined(_), Shaky(_), Plain(_)

\* to_expression: fully parenthesised; an index by a keyword shows as a property.
Mutant_ToExpression(e) ==
  CASE e[1] = "lit"   -> <<e[2]>>
    [] e[1] = "ctx"   -> <<e[2]>>
    [] e[1] = "prop"  -> ToExpression(e[2]) \o <<".", e[3]>>
    [] e[1] = "index" -> IF e[3][1] = "lit" THEN ToExpression(e[2]) \o <<".", Quoted[e[3][2]]>>
                         ELSE ToExpression(e[2]) \o <<"[">> \o ToExpression(e[3]) \o <<"]">>
    [] e[1] = "wild"  -> ToExpression(e[2]) \o <<".", "*">>
    [] e[1] = "call"  -> <<e[2], "(">> \o Joined(e[3]) \o <<")">>
    [] e[1] = "not"   -> <<"!">> \o ToExpression(e[2])
    [] e[1] = "bin"   -> ToExpression(e[3]) \o <<e[2]>> \o ToExpression(e[4])
ToExpression(e) ==
  CASE e[1] = "lit"   -> <<e[2]>>
    [] e[1] = "ctx"   -> <<e[2]>>
    [] e[1] = "prop"  -> ToExpression(e[2]) \o <<".", e[3]>>
    [] e[1] = "index" -> IF e[3][1] = "lit" THEN ToExpression(e[2]) \o <<".", Quoted[e[3][2]]>>
                         ELSE ToExpression(e[2]) \o <<"[">> \o ToExpression(e[3]) \o <<"]">>
    [] e[1] = "wild"  -> ToExpression(e[2]) \o <<".", "*">>
    [] e[1] = "call"  -> <<e[2], "(">> \o Joined(e[3]) \o <<")">>
    [] e[1] = "not"   -> <<"!">> \o ToExpression(e[2])
    [] e[1] = "bin"   -> <<"(">> \o ToExpression(e[3]) \o <<e[2]>> \o ToExpression(e[4]) \o <<")">>

Joined(args) ==
  CASE args = <<>>     -> <<>>
    [] Len(args) = 1   -> ToExpression(args[1])
    [] Len(args) > 1   -> Joined(Front(args)) \o <<",">> \o ToExpression(Last(args))

\* format_parameter: one group loses its parentheses.
FormatParameter(e) ==
  LET ts == ToExpression(e)
      inner == Tail(Front(ts))
  IN  IF Head(ts) = "(" /\ Last(ts) = ")" /\ ToSet(inner) \cap {"(", ")"} = {} THEN inner ELSE ts

\* A parenthesised negation or literal that is then indexed: the text has no
\* parentheses for it.
Shaky(e) ==
  CASE e[1] \in {"lit", "ctx"}   -> FALSE
    [] e[1] \in {"prop", "wild"} -> e[2][1] \in {"lit", "not"} \/ Shaky(e[2])
    [] e[1] = "index" -> e[2][1] \in {"lit", "not"} \/ Shaky(e[2]) \/ Shaky(e[3])
    [] e[1] = "not"   -> Shaky(e[2])
    [] e[1] = "bin"   -> Shaky(e[3]) \/ Shaky(e[4])
    [] e[1] = "call"  -> \E i \in 1..Len(e[3]) : Shaky(e[3][i])

\* a['k'] and a.k are the same expression.
Plain(e) ==
  CASE e[1] \in {"lit", "ctx"} -> e
    [] e[1] = "prop"  -> <<"prop", Plain(e[2]), e[3]>>
    [] e[1] = "wild"  -> <<"wild", Plain(e[2])>>
    [] e[1] = "index" -> IF e[3][1] = "lit" THEN <<"prop", Plain(e[2]), Quoted[e[3][2]]>>
                         ELSE <<"index", Plain(e[2]), Plain(e[3])>>
    [] e[1] = "not"   -> <<"not", Plain(e[2])>>
    [] e[1] = "bin"   -> <<"bin", e[2], Plain(e[3]), Plain(e[4])>>
    [] e[1] = "call"  -> <<"call", e[2], [i \in 1..Len(e[3]) |-> Plain(e[3][i])]>>

----------------------------------------------------------------------------
(* Templates: characters, "q" being the single quote *)

RECURSIVE ExpressionEnd(_, _, _), LexString(_, _), Lexed(_, _)

\* expression_end: where the closing braces are, 0 without any.
Mutant_ExpressionEnd(s, i, quoted) ==
  CASE i > Len(s) -> 0
    [] i <= Len(s) /\ s[i] = "}" /\ At(s, i + 1) = "}" -> i
    [] OTHER -> ExpressionEnd(s, i + 1, quoted)
ExpressionEnd(s, i, quoted) ==
  CASE i > Len(s) -> 0
    [] i <= Len(s) /\ s[i] = "q" ->
         IF quoted /\ At(s, i + 1) = "q" THEN ExpressionEnd(s, i + 2, quoted)
         ELSE ExpressionEnd(s, i + 1, ~quoted)
    [] i <= Len(s) /\ s[i] = "}" /\ ~quoted /\ At(s, i + 1) = "}" -> i
    [] OTHER -> ExpressionEnd(s, i + 1, quoted)

\* lex_string: past the quote that ends the literal, 0 when none does.
LexString(s, i) ==
  CASE i > Len(s) -> 0
    [] i <= Len(s) /\ s[i] = "q" -> IF At(s, i + 1) = "q" THEN LexString(s, i + 2) ELSE i + 1
    [] OTHER -> LexString(s, i + 1)

\* lex, as far as literals go: each one it meets is terminated.
Lexed(s, i) ==
  CASE i > Len(s) -> TRUE
    [] i <= Len(s) /\ s[i] = "q" -> LexString(s, i + 1) > 0 /\ Lexed(s, LexString(s, i + 1))
    [] OTHER -> Lexed(s, i + 1)

----------------------------------------------------------------------------
(* Values: <<"null">>, <<"bool", b>>, <<"num", n>>, <<"str", letters>>,      *)
(* <<"arr", identity, items, filtered>>, <<"obj", identity, key -> value>>   *)

Null      == <<"null">>
Error     == <<"error">>
Bool(b)   == <<"bool", b>>
Str(s)    == <<"str", s>>
NaN       == -1
Filtered(items) == <<"arr", 0, items, TRUE>>   \* a new array, equal to no other

Primitive(v) == v[1] \notin {"arr", "obj"}

\* is_truthy.
Truthy(v) ==
  CASE v[1] = "null" -> FALSE
    [] v[1] = "bool" -> v[2]
    [] v[1] = "num"  -> v[2] \notin {0, NaN}
    [] v[1] = "str"  -> v[2] # <<>>
    [] OTHER         -> TRUE

Digits(n) == IF n = NaN THEN <<"NaN">> ELSE IF n = 0 THEN <<"0">> ELSE <<"1">>

\* coerce_to_string.
ToText(v) ==
  CASE v[1] = "null" -> <<>>
    [] v[1] = "bool" -> IF v[2] THEN <<"true">> ELSE <<"false">>
    [] v[1] = "num"  -> Digits(v[2])
    [] v[1] = "str"  -> v[2]
    [] v[1] = "arr"  -> <<"Array">>
    [] v[1] = "obj"  -> <<"Object">>

\* coerce_to_number and parse_number.
ToNumber(v) ==
  CASE v[1] = "null" -> 0
    [] v[1] = "bool" -> IF v[2] THEN 1 ELSE 0
    [] v[1] = "num"  -> v[2]
    [] v[1] = "str"  -> CASE v[2] \in {<<>>, <<"0">>} -> 0 [] v[2] = <<"1">> -> 1 [] OTHER -> NaN
    [] OTHER         -> NaN

\* ordinal_upper.
Upper(s) == [i \in 1..Len(s) |-> IF s[i] = "x" THEN "X" ELSE s[i]]

SameNumber(a, b) == a # NaN /\ a = b

\* loose_eq: arrays and objects are equal to themselves alone.
LooseEq(a, b) ==
  CASE a[1] # b[1]  -> SameNumber(ToNumber(a), ToNumber(b))
    [] a[1] = b[1] /\ a[1] = "num" -> SameNumber(a[2], b[2])
    [] a[1] = b[1] /\ a[1] = "str" -> Upper(a[2]) = Upper(b[2])
    [] a[1] = b[1] /\ a[1] \in {"arr", "obj"} -> a[2] # 0 /\ a[2] = b[2]
    [] OTHER -> a = b

\* ordinal_compare, on the letters there are.
Collation == <<"0", "1", "X", "{0}", "{1}">>
Before(s, t) ==
  \/ IsStrictPrefix(s, t)
  \/ \E i \in 1..Len(s) :
       /\ i <= Len(t) /\ SubSeq(s, 1, i - 1) = SubSeq(t, 1, i - 1)
       /\ \E m, n \in 1..Len(Collation) : m < n /\ s[i] = Collation[m] /\ t[i] = Collation[n]

\* ordered, for Less.
Less(a, b) ==
  IF a[1] = "str" /\ b[1] = "str" THEN Before(Upper(a[2]), Upper(b[2]))
  ELSE LET m == ToNumber(a)  n == ToNumber(b) IN m # NaN /\ n # NaN /\ m < n

\* eval_comparison.
Compare(op, a, b) ==
  CASE op = "==" -> LooseEq(a, b)
    [] op = "!=" -> ~LooseEq(a, b)
    [] op = "<"  -> Less(a, b)
    [] op = "<=" -> LooseEq(a, b) \/ Less(a, b)
    [] op = ">"  -> Less(b, a)
    [] op = ">=" -> LooseEq(a, b) \/ Less(b, a)

\* lookup: the value, as a sequence of none or one.
Lookup(v, index) ==
  CASE v[1] = "obj" /\ Primitive(index) ->
         LET k == Upper(ToText(index)) IN IF k \in DOMAIN v[3] THEN <<v[3][k]>> ELSE <<>>
    [] v[1] = "arr" ->
         LET n == ToNumber(index) IN IF n # NaN /\ n < Len(v[3]) THEN <<v[3][n + 1]>> ELSE <<>>
    [] OTHER -> <<>>

Members(v) ==
  CASE v[1] = "arr" -> v[3]
    [] v[1] = "obj" -> SetToSeq({v[3][k] : k \in DOMAIN v[3]})
    [] OTHER -> <<>>

\* access: an index, or `*'; over what an earlier `*' selected, member by member.
Access(v, index) ==
  LET one(m) == IF index = <<"*">> THEN Members(m) ELSE Lookup(m, index)
  IN  CASE v[1] = "arr" /\ v[4] -> Filtered(FoldLeft(LAMBDA acc, m : acc \o one(m), <<>>, v[3]))
        [] ~(v[1] = "arr" /\ v[4]) /\ index = <<"*">> -> Filtered(Members(v))
        [] OTHER -> IF one(v) = <<>> THEN Null ELSE one(v)[1]

\* fn_contains, fn_starts_with, fn_ends_with.
ContainsFn(a, b) ==
  CASE Primitive(a) -> Primitive(b) /\ \E i \in 0..Len(ToText(a)) :
                         IsPrefix(Upper(ToText(b)), SubSeq(Upper(ToText(a)), i + 1, Len(ToText(a))))
    [] a[1] = "arr" -> \E i \in 1..Len(a[3]) : LooseEq(a[3][i], b)
    [] OTHER        -> FALSE
StartsWithFn(a, b) == Primitive(a) /\ Primitive(b) /\ IsPrefix(Upper(ToText(b)), Upper(ToText(a)))
EndsWithFn(a, b)   == Primitive(a) /\ Primitive(b) /\ IsSuffix(Upper(ToText(b)), Upper(ToText(a)))

\* fn_join.
JoinFn(args) ==
  LET sep == IF Len(args) = 2 /\ Primitive(args[2]) THEN ToText(args[2]) ELSE <<",">>
      glue(acc, v) == [n |-> acc.n + 1, s |-> IF acc.n = 0 THEN ToText(v) ELSE acc.s \o sep \o ToText(v)]
  IN  CASE args[1][1] = "arr" -> FoldLeft(glue, [n |-> 0, s |-> <<>>], args[1][3]).s
        [] args[1][1] = "obj" -> <<>>
        [] OTHER -> ToText(args[1])

----------------------------------------------------------------------------
(* The evaluator *)

\* validate_arity, and what the call of each function computes from values.
Arity == [contains |-> 2..2, startsWith |-> 2..2, endsWith |-> 2..2, join |-> 1..2,
          case |-> {3, 5}, format |-> 1..3, always |-> {0}, unreadable |-> {0}]

RECURSIVE Valid(_)
\* validate: names and arities, in branches that will not be taken too.
Valid(e) ==
  CASE e[1] = "lit" -> TRUE
    [] e[1] = "ctx" -> e[2] \in DOMAIN Contexts
    [] e[1] \in {"prop", "wild", "not"} -> Valid(e[2])
    [] e[1] = "index" -> Valid(e[2]) /\ Valid(e[3])
    [] e[1] = "bin"   -> Valid(e[3]) /\ Valid(e[4])
    [] e[1] = "call"  -> /\ e[2] \in DOMAIN Arity /\ Len(e[3]) \in Arity[e[2]]
                         /\ \A i \in 1..Len(e[3]) : Valid(e[3][i])

\* call_function; `unreadable' stands for a call that fails (hashFiles without
\* a workspace, fromJSON of nothing).
CallFunction(name, args) ==
  CASE name = "contains"   -> Bool(ContainsFn(args[1], args[2]))
    [] name = "startsWith" -> Bool(StartsWithFn(args[1], args[2]))
    [] name = "endsWith"   -> Bool(EndsWithFn(args[1], args[2]))
    [] name = "join"       -> Str(JoinFn(args))
    [] name = "always"     -> Bool(TRUE)
    [] name = "unreadable" -> Error

\* unused_second: the first argument settles the call.
Mutant_UnusedSecond(name, first) ==
  CASE name = "contains" -> ~Primitive(first) /\ ~(first[1] = "arr" /\ first[3] # <<>>)
    [] name \in {"startsWith", "endsWith"} -> ~Primitive(first)
    [] name = "join" -> ~(first[1] = "arr" /\ Len(first[3]) > 2)
    [] OTHER -> FALSE
UnusedSecond(name, first) ==
  CASE name = "contains" -> ~Primitive(first) /\ ~(first[1] = "arr" /\ first[3] # <<>>)
    [] name \in {"startsWith", "endsWith"} -> ~Primitive(first)
    [] name = "join" -> ~(first[1] = "arr" /\ Len(first[3]) > 1)
    [] OTHER -> FALSE

\* format: a template is a sequence of text letters and placeholders {0}, {1};
\* one without its argument is refused before anything is evaluated.
Slots == [s \in {"{0}", "{1}"} |-> IF s = "{0}" THEN 1 ELSE 2]
Render(template, texts) ==
  FoldLeft(LAMBDA acc, s : acc \o (IF s \in DOMAIN Slots THEN texts[Slots[s]] ELSE <<s>>), <<>>, template)

RECURSIVE EvalExpr(_, _), EvalCase(_, _)

\* eval_case, by pairs.
EvalCase(args, lazy) ==
  IF Len(args) = 1 THEN EvalExpr(args[1], lazy)
  ELSE LET p == EvalExpr(args[1], lazy)
       IN  CASE p[1] # "bool" -> Error
             [] p[1] = "bool" /\ p[2]  -> EvalExpr(args[2], lazy)
             [] p[1] = "bool" /\ ~p[2] -> EvalCase(Tail(Tail(args)), lazy)

\* eval_format: the arguments the template names.
EvalFormat(args, lazy) ==
  LET template == ToText(EvalExpr(args[1], lazy))
      named    == {Slots[s] : s \in ToSet(template) \cap DOMAIN Slots}
      got      == [k \in 1..(Len(args) - 1) |-> IF k \in named THEN EvalExpr(args[k + 1], lazy) ELSE Null]
  IN  IF EvalExpr(args[1], lazy) = Error \/ ~(named \subseteq DOMAIN got) \/ (\E k \in named : got[k] = Error)
      THEN Error
      ELSE Str(Render(template, [k \in DOMAIN got |-> ToText(got[k])]))

EvalCall(name, args, lazy) ==
  LET values == [i \in 1..Len(args) |->
                   IF i = 2 /\ lazy /\ LET f == EvalExpr(args[1], lazy)
                                       IN  f # Error /\ UnusedSecond(name, f)
                   THEN Null ELSE EvalExpr(args[i], lazy)]
  IN  IF \E i \in DOMAIN values : values[i] = Error THEN Error ELSE CallFunction(name, values)

\* eval_expr; with lazy = FALSE, the reference that evaluates every operand.
EvalExpr(e, lazy) ==
  LET sub(i) == EvalExpr(e[i], lazy)
      all    == lazy \/ e[1] # "call" \/ \A i \in 1..Len(e[3]) : EvalExpr(e[3][i], lazy) # Error
  IN  CASE e[1] = "lit"  -> e[2]
        [] e[1] = "ctx"  -> Contexts[e[2]]
        [] e[1] = "prop" -> IF sub(2) = Error THEN Error ELSE Access(sub(2), Str(e[3]))
        [] e[1] = "wild" -> IF sub(2) = Error THEN Error ELSE Access(sub(2), <<"*">>)
        [] e[1] = "index" ->
             CASE sub(2) = Error -> Error
               [] sub(2) # Error /\ lazy /\ Primitive(sub(2)) -> Null
               [] OTHER -> IF sub(3) = Error THEN Error ELSE Access(sub(2), sub(3))
        [] e[1] = "not" -> IF sub(2) = Error THEN Error ELSE Bool(~Truthy(sub(2)))
        [] e[1] = "bin" ->
             LET skip == Truthy(sub(3)) = (e[2] = "||")
             IN  CASE sub(3) = Error -> Error
                   [] sub(3) # Error /\ ~lazy /\ sub(4) = Error -> Error
                   [] sub(3) # Error /\ (lazy \/ sub(4) # Error) /\ e[2] \in {"&&", "||"} ->
                        IF skip THEN sub(3) ELSE sub(4)
                   [] OTHER -> IF sub(4) = Error THEN Error ELSE Bool(Compare(e[2], sub(3), sub(4)))
        [] e[1] = "call" /\ ~all -> Error
        [] e[1] = "call" /\ all ->
             CASE e[2] = "case"   -> EvalCase(e[3], lazy)
               [] e[2] = "format" -> EvalFormat(e[3], lazy)
               [] OTHER           -> EvalCall(e[2], e[3], lazy)

----------------------------------------------------------------------------
Pending == <<"pending">>

\* The next token of an input.
Type(t) ==
  /\ Len(typed) < MaxTokens /\ typed' = Append(typed, t)
  /\ UNCHANGED <<alphabet, tree, value>>

\* evaluate.
Evaluate ==
  /\ value = Pending
  /\ value' = IF Valid(tree) THEN EvalExpr(tree, TRUE) ELSE Error
  /\ UNCHANGED <<alphabet, typed, tree>>

ExprInit ==
  /\ typed = <<>>
  /\ \/ alphabet \in Alphabets /\ tree = <<"lit", Null>> /\ value = Null
     \/ alphabet = {} /\ tree \in Trees /\ value = Pending
ExprNext == Evaluate \/ \E t \in alphabet : Type(t)

----------------------------------------------------------------------------
(* Properties *)

\* The parser accepts an input exactly when the grammar derives it, and its
\* tree is the only one the grammar has for it: precedence, associativity, the
\* greedy loops and the refusals lose nothing and add nothing.
ParsesGrammar ==
  typed # <<>> =>
    Derive(typed, 1, 1, Len(typed) + 1) = IF Parse(typed).ok THEN {Parse(typed).ast} ELSE {}

\* The text shown for an expression reads back as that expression, without its
\* outermost parentheses too (but for an indexed negation or literal).
DisplayReadsBack ==
  LET p == Parse(typed)
      back == Parse(FormatParameter(p.ast))
  IN  p.ok /\ ~Shaky(p.ast) => back.ok /\ Plain(back.ast) = Plain(p.ast)

\* Where a template's expression ends and where the lexer sees its literals end
\* agree: the text between the braces is cut at the first closing braces that
\* no literal contains, never inside one and never behind a later pair.
TemplateEndsRight ==
  LET closing(k) == /\ typed[k] = "}" /\ At(typed, k + 1) = "}"
                    /\ Lexed(SubSeq(typed, 1, k - 1), 1)
      ends       == {k \in 1..Len(typed) : closing(k)}
      n          == ExpressionEnd(typed, 1, FALSE)
  IN  IF ends = {} THEN n = 0 ELSE n \in ends /\ \A k \in ends : n <= k

\* What the evaluator leaves out does not matter: whenever every operand can be
\* evaluated, the lazy result is the one all of them give.
LazyIsSound ==
  value # Pending /\ Valid(tree) /\ EvalExpr(tree, FALSE) # Error => value = EvalExpr(tree, FALSE)

(* The expression language does what its definition says: the parser against
   the grammar, the display text against the parser, the template scanner
   against the lexer, the lazy evaluator against the eager one. *)
ExpressionsAgree == ParsesGrammar /\ DisplayReadsBack /\ TemplateEndsRight /\ LazyIsSound
=============================================================================
