---------------------------- MODULE FormulaLanguage ----------------------------
(* The language of formulas: its parser, its evaluator, and the grammar they
   should agree with.  A formula is the sequence of its tokens: the scanning of
   characters is left out.  The tree the parser builds is written as a visit
   leaves it, operands before their operation; the evaluator visits the tree in
   this order.  Where the program computes with doubles the model computes with
   integers, and an operation whose result is not one is rounded down: what
   matters here is which operations are applied to what, and which fail.       *)
EXTENDS Integers, Sequences, SequencesExt

\* The tokens that are numbers.  A token that is neither a number, a mark nor an
\* invalid character is an identifier.
NumberTokens == [t \in {"0", "1", "2", "8"} |->
                   CASE t = "0" -> 0 [] t = "1" -> 1 [] t = "2" -> 2 [] t = "8" -> 8]
Marks == {"+", "-", "*", "/", "(", ")", ",", "invalid", "end"}
IsNumber(t) == t \in DOMAIN NumberTokens
IsIdentifier(t) == ~IsNumber(t) /\ t \notin Marks

TokenAt(ts, i) == IF i <= Len(ts) THEN ts[i] ELSE "end"

-----------------------------------------------------------------------------
(* The parser. *)

\* An operation, what it is applied to by name, and the number of its operands.
Node(op, at, operands) == [op |-> op, at |-> at, operands |-> operands]

Rules == {"expression", "terms", "term", "factors", "unary", "primary", "arguments"}

\* What a method returns for the tokens from one on: nothing when it fails, or
\* the nodes it made, the token it stopped at and the arguments it counted.
Made(nodes, next) == {[nodes |-> nodes, next |-> next, count |-> 0]}
Skipped(results, n) == {[r EXCEPT !.next = @ + n] : r \in results}
Closed(results, ts) == Skipped({r \in results : TokenAt(ts, r.next) = ")"}, 1)
WithNode(results, op, at, operands) ==
  {[r EXCEPT !.nodes = Append(@, Node(op, at, operands))] : r \in results}

\* `parse` of a rule that goes on where the results before it stopped.
Followed(results, parse, rule) ==
  UNION {{[b EXCEPT !.nodes = a.nodes \o @] : b \in parse[<<rule, a.next>>]} : a \in results}

\* The loops of parseExpression() and parseTerm().
Repeated(ts, i, parse, ops, operand, rule) ==
  IF TokenAt(ts, i) \in ops
  THEN Followed(WithNode(parse[<<operand, i + 1>>], TokenAt(ts, i), "", 2), parse, rule)
  ELSE Made(<<>>, i)

Sum(ts, i, parse) == Followed(parse[<<"term", i>>], parse, "terms")
Product(ts, i, parse) == Followed(parse[<<"unary", i>>], parse, "factors")

\* A sign before a sign, as before anything else.
Unary_OneSign(ts, i, parse) ==
  CASE TokenAt(ts, i) = "+" -> parse[<<"primary", i + 1>>]
    [] TokenAt(ts, i) = "-" -> WithNode(parse[<<"primary", i + 1>>], "negate", "", 1)
    [] OTHER -> parse[<<"primary", i>>]
Unary(ts, i, parse) ==
  CASE TokenAt(ts, i) = "+" -> parse[<<"unary", i + 1>>]
    [] TokenAt(ts, i) = "-" -> WithNode(parse[<<"unary", i + 1>>], "negate", "", 1)
    [] OTHER -> parse[<<"primary", i>>]

\* The arguments from the one at i, with the parenthesis that closes them.
Arguments(ts, i, parse) ==
  LET first == parse[<<"expression", i>>]
      more(a) == {[b EXCEPT !.nodes = a.nodes \o @] :
                    b \in IF TokenAt(ts, a.next) = "," THEN parse[<<"arguments", a.next + 1>>]
                                                      ELSE {}}
  IN {[r EXCEPT !.count = @ + 1] :
        r \in Closed(first, ts) \cup UNION {more(a) : a \in first}}

FunctionCall(ts, i, parse) ==
  LET arguments == IF TokenAt(ts, i + 2) = ")" THEN Made(<<>>, i + 3)
                                               ELSE parse[<<"arguments", i + 2>>]
  IN UNION {WithNode(Made(r.nodes, r.next), "call", ts[i], r.count) : r \in arguments}

Primary(ts, i, parse) ==
  LET t == TokenAt(ts, i)
  IN CASE IsNumber(t) -> WithNode(Made(<<>>, i + 1), "number", t, 0)
       [] IsIdentifier(t) /\ TokenAt(ts, i + 1) # "(" ->
            WithNode(Made(<<>>, i + 1), "signal", t, 0)
       [] IsIdentifier(t) /\ TokenAt(ts, i + 1) = "(" -> FunctionCall(ts, i, parse)
       [] t = "(" -> Closed(parse[<<"expression", i + 1>>], ts)
       [] OTHER -> {}

\* The method of a rule, called at a token.
ParseFrom(ts, parse, rule, i) ==
  CASE rule = "expression" -> Sum(ts, i, parse)
    [] rule = "terms"      -> Repeated(ts, i, parse, {"+", "-"}, "term", "terms")
    [] rule = "term"       -> Product(ts, i, parse)
    [] rule = "factors"    -> Repeated(ts, i, parse, {"*", "/"}, "unary", "factors")
    [] rule = "unary"      -> Unary(ts, i, parse)
    [] rule = "primary"    -> Primary(ts, i, parse)
    [] rule = "arguments"  -> Arguments(ts, i, parse)

\* parse(): the whole formula is one expression, or there is none.
Parsed(ts) ==
  LET parse[p \in Rules \X Nat] == ParseFrom(ts, parse, p[1], p[2])
  IN {r.nodes : r \in {q \in parse[<<"expression", 1>>] : q.next = Len(ts) + 1}}

-----------------------------------------------------------------------------
(* The evaluator.  It yields one value, or none when it fails. *)

Divided(a, b) == IF b > 0 THEN a \div b ELSE (-a) \div (-b)
Greatest(xs) == CHOOSE x \in ToSet(xs) : \A y \in ToSet(xs) : y <= x
Least(xs) == CHOOSE x \in ToSet(xs) : \A y \in ToSet(xs) : x <= y
Root(x) == CHOOSE r \in 0..x : r * r <= x /\ x < (r + 1) * (r + 1)

\* The functions the calculator registers, with the arguments each asks for.  An
\* unknown name and a wrong number of arguments are failures of the evaluation.
Called(name, xs) ==
  CASE name = "abs"  /\ Len(xs) = 1 -> {IF xs[1] < 0 THEN -xs[1] ELSE xs[1]}
    [] name = "sqrt" /\ Len(xs) = 1 -> IF xs[1] < 0 THEN {} ELSE {Root(xs[1])}
    [] name = "max"  /\ Len(xs) >= 2 -> {Greatest(xs)}
    [] name = "min"  /\ Len(xs) >= 2 -> {Least(xs)}
    [] OTHER -> {}

\* One node of the tree, given the values of its operands and of the signals.
NodeValue(node, xs, values) ==
  CASE node.op = "number" -> {NumberTokens[node.at]}
    [] node.op = "signal" -> {values[node.at]}
    [] node.op = "+" -> {xs[1] + xs[2]}
    [] node.op = "-" -> {xs[1] - xs[2]}
    [] node.op = "*" -> {xs[1] * xs[2]}
    [] node.op = "/" -> IF xs[2] = 0 THEN {} ELSE {Divided(xs[1], xs[2])}
    [] node.op = "negate" -> {-xs[1]}
    [] node.op = "call" -> Called(node.at, xs)

Evaluated(nodes, values) ==
  LET visit(stacks, node) ==
        UNION {LET rest == Len(s) - node.operands
               IN {Append(SubSeq(s, 1, rest), v) :
                     v \in NodeValue(node, SubSeq(s, rest + 1, Len(s)), values)} : s \in stacks}
  IN {s[1] : s \in FoldLeft(visit, {<<>>}, nodes)}

-----------------------------------------------------------------------------
(* The grammar, to judge the parser by.  A formula is read by splitting it at
   any operator that leaves two readable parts: a sum at + and - whose right part
   is a product, a product at * and / whose right part is signed, and so on.
   Every reading has an outcome: the set of its value, empty if it has none.   *)

Both(a, b, op, values) ==
  UNION {NodeValue(Node(op, "", 2), <<x, y>>, values) : x \in a, y \in b}

Phrases == {"sum", "product", "signed", "primary", "list"}

\* The tokens from i to j - 1, split at an operator with a part on either side.
Splits(read, ts, values, i, j, ops, left, right) ==
  UNION {{Both(a, b, ts[k], values) : a \in read[<<left, i, k>>], b \in read[<<right, k + 1, j>>]} :
           k \in {m \in i + 1..j - 2 : ts[m] \in ops}}

SignedFrom(read, ts, i, j) ==
  CASE ts[i] = "+" -> read[<<"signed", i + 1, j>>]
    [] ts[i] = "-" -> {{-x : x \in a} : a \in read[<<"signed", i + 1, j>>]}
    [] OTHER -> read[<<"primary", i, j>>]

\* A call of a function, with the arguments between its parentheses.
CallFrom(read, ts, i, j) ==
  {UNION {Called(ts[i], xs) : xs \in a} :
     a \in read[<<"list", i + 2, j - 1>>] \cup IF j = i + 3 THEN {{<<>>}} ELSE {}}

PrimaryFrom(read, ts, values, i, j) ==
  CASE j = i + 1 /\ IsNumber(ts[i]) -> {{NumberTokens[ts[i]]}}
    [] j = i + 1 /\ IsIdentifier(ts[i]) -> {{values[ts[i]]}}
    [] j > i + 1 /\ ts[i] = "(" /\ ts[j - 1] = ")" -> read[<<"sum", i + 1, j - 1>>]
    [] j > i + 2 /\ IsIdentifier(ts[i]) /\ ts[i + 1] = "(" /\ ts[j - 1] = ")" ->
         CallFrom(read, ts, i, j)
    [] OTHER -> {}

ListFrom(read, ts, i, j) ==
  {{<<x>> : x \in a} : a \in read[<<"sum", i, j>>]} \cup
  UNION {{{Append(xs, x) : xs \in a, x \in b} :
            a \in read[<<"list", i, k>>], b \in read[<<"sum", k + 1, j>>]} :
           k \in {m \in i + 1..j - 2 : ts[m] = ","}}

ReadFrom(read, ts, values, kind, i, j) ==
  IF i >= j THEN {}
  ELSE CASE kind = "sum" ->
              read[<<"product", i, j>>] \cup
              Splits(read, ts, values, i, j, {"+", "-"}, "sum", "product")
         [] kind = "product" ->
              read[<<"signed", i, j>>] \cup
              Splits(read, ts, values, i, j, {"*", "/"}, "product", "signed")
         [] kind = "signed"  -> SignedFrom(read, ts, i, j)
         [] kind = "primary" -> PrimaryFrom(read, ts, values, i, j)
         [] kind = "list"    -> ListFrom(read, ts, i, j)

Meanings(ts, values) ==
  LET read[p \in Phrases \X Nat \X Nat] == ReadFrom(read, ts, values, p[1], p[2], p[3])
  IN read[<<"sum", 1, Len(ts) + 1>>]

\* The signals a formula names.
NamesIn(ts) == {ts[i] : i \in {k \in DOMAIN ts : IsIdentifier(ts[k]) /\ TokenAt(ts, k + 1) # "("}}
==============================================================================
