----------------------------- MODULE CronSyntax -----------------------------
(* How a cron expression becomes seven fields: the lexer, the parser and the *)
(* validator of chronographer-utils, from_str of TaskScheduleCron, and the   *)
(* tokeniser of the cron! macro, which shares the parser and the validator.  *)
(* Positions and the kinds of errors are left out: a reading is either the   *)
(* fields or Rejected.                                                       *)
EXTENDS Integers, Sequences, SequencesExt

Rejected == <<>>
Ch(s, i) == IF i <= Len(s) THEN SubSeq(s, i, i) ELSE ""
CharsOf(s) == [i \in 1..Len(s) |-> Ch(s, i)]
UpperCase == CharsOf("ABCDEFGHIJKLMNOPQRSTUVWXYZ")
LowerCase == CharsOf("abcdefghijklmnopqrstuvwxyz")
Digits == CharsOf("0123456789")
Alphabetic(c) == Contains(UpperCase, c) \/ Contains(LowerCase, c)
Digit(c) == Contains(Digits, c)
Upper(s) == FoldLeft(LAMBDA a, c : a \o IF Contains(LowerCase, c)
                                         THEN UpperCase[SelectInSeq(LowerCase, LAMBDA x : x = c)] ELSE c,
                     "", CharsOf(s))
Weekdays == <<"SUN", "MON", "TUE", "WED", "THU", "FRI", "SAT">>
Months == <<"JAN", "FEB", "MAR", "APR", "MAY", "JUN", "JUL", "AUG", "SEP", "OCT", "NOV", "DEC">>

(* A token is <<"V", n>> or the symbol alone. *)
Value(n) == <<"V", n>>
Symbols == {"-", "*", ",", "?", "/", "L", "W", "#"}
Number(s) == FoldLeft(LAMBDA a, c : 10 * a + SelectInSeq(Digits, LAMBDA x : x = c) - 1, 0, CharsOf(s))

(* ------------------------------ the lexer ------------------------------ *)
(* `buf' collects letters, `num' digits; fields are numbered from 0 as in the code. *)
Lexer == [field |-> 0, toks |-> [f \in 0..5 |-> <<>>], num |-> "", buf |-> "", ok |-> TRUE]
Failed(st) == [st EXCEPT !.ok = FALSE]
Emit(st, tok) == [st EXCEPT !.toks[st.field] = Append(@, tok)]
Flush(st) == IF st.num = "" THEN st ELSE [Emit(st, Value(Number(st.num))) EXCEPT !.num = ""]

(* A name counts in its own field only; a number before it stays pending. *)
Named(st, name) ==
  LET table == CASE st.field = 5 -> Weekdays [] st.field = 4 -> Months [] OTHER -> <<>>
  IN IF Contains(table, Upper(name))
       THEN [Emit(st, Value(SelectInSeq(table, LAMBDA x : x = Upper(name)))) EXCEPT !.buf = ""]
       ELSE Failed(st)

EndField(st) ==
  LET f == Flush(st)
  IN IF f.buf # "" \/ f.field >= 5 \/ (f.toks[f.field] = <<>> /\ f.field > 0)
       THEN Failed(f) ELSE [f EXCEPT !.field = @ + 1]

LexChar(st, c, next) ==
  LET buf == IF Alphabetic(c) \/ st.buf # "" THEN st.buf \o c ELSE ""
      lone == c = "L" \/ (c = "W" /\ next \notin {"E", "e"})
  IN IF Len(buf) = 3 THEN Named(st, buf)
     ELSE IF Len(buf) = 2 \/ (Len(buf) = 1 /\ ~lone) THEN [st EXCEPT !.buf = buf]
     ELSE IF Digit(c) THEN [st EXCEPT !.num = @ \o c, !.buf = buf]
     ELSE IF c \in Symbols THEN [Emit(Flush(st), <<c>>) EXCEPT !.buf = ""]
     ELSE Failed(st)

tokenize_from_str(s) ==
  LET Step(st, i) == IF ~st.ok THEN st
                     ELSE IF Ch(s, i) = " " THEN EndField(st)
                     ELSE LexChar(st, Ch(s, i), Ch(s, i + 1))
      end == FoldLeft(Step, Lexer, [i \in 1..Len(s) |-> i])
  IN IF end.ok /\ end.field \in {4, 5} /\ end.buf = "" THEN Flush(end).toks ELSE Rejected

(* ----------------------------- the cron! macro -------------------------- *)
(* External: the token trees Rust makes of the text of a macro call. *)
TokenTrees(s) ==
  LET Cut(st, c) ==
        IF Alphabetic(c) \/ Digit(c) THEN [st EXCEPT !.word = @ \o c]
        ELSE LET w == IF st.word = "" THEN st.trees ELSE Append(st.trees, st.word)
             IN [word |-> "", trees |-> IF c = " " THEN w ELSE Append(w, c)]
  IN Cut(FoldLeft(Cut, [word |-> "", trees |-> <<>>], CharsOf(s)), " ").trees

IsLiteral(t) == Digit(Ch(t, 1))
IsIdent(t) == Alphabetic(Ch(t, 1))
\* A tokeniser that loses the suffix of a literal.
LiteralTokensBare(t) ==
  LET mark == Upper(Ch(t, Len(t)))
  IN <<Value(Number(IF mark \in {"L", "W"} THEN SubSeq(t, 1, Len(t) - 1) ELSE t))>>
LiteralTokens(t) ==
  LET mark == Upper(Ch(t, Len(t)))
      body == IF mark \in {"L", "W"} THEN SubSeq(t, 1, Len(t) - 1) ELSE t
  IN IF \A i \in 1..Len(body) : Digit(Ch(body, i))
       THEN <<Value(Number(body))>> \o (IF mark \in {"L", "W"} THEN <<<<mark>>>> ELSE <<>>)
       ELSE Rejected
IdentTokens(t) ==
  LET u == Upper(t)
  IN CASE u = "LW" -> <<<<"L">>, <<"W">>>>
       [] u \in {"L", "W"} -> <<<<u>>>>
       [] Contains(Weekdays, u) -> <<Value(SelectInSeq(Weekdays, LAMBDA x : x = u))>>
       [] Contains(Months, u) -> <<Value(SelectInSeq(Months, LAMBDA x : x = u))>>
       [] OTHER -> Rejected

(* A value after a value opens the next field; what comes after the sixth piles up in it. *)
tokenize_from_tokens(trees) ==
  LET TokensOf(t) == IF IsLiteral(t) THEN LiteralTokens(t)
                     ELSE IF IsIdent(t) THEN IdentTokens(t)
                     ELSE IF t \in Symbols THEN <<<<t>>>> ELSE Rejected
      IsValue(t) == IsLiteral(t) \/ IsIdent(t) \/ t \in {"*", "?"}
      Step(st, t) ==
        LET f == IF IsValue(t) /\ st.after /\ st.field < 5 THEN st.field + 1 ELSE st.field
        IN [field |-> f, after |-> IsValue(t), ok |-> st.ok /\ TokensOf(t) # Rejected,
            toks |-> [st.toks EXCEPT ![f] = @ \o TokensOf(t)]]
      end == FoldLeft(Step, [field |-> 0, after |-> FALSE, ok |-> TRUE,
                             toks |-> [f \in 0..5 |-> <<>>]], trees)
  IN IF end.ok THEN end.toks ELSE Rejected

(* ------------------------------ the parser ------------------------------ *)
(* Nodes are tuples that start with the name of their variant. *)
Wildcard == <<"Wildcard">>
Unspecified == <<"Unspecified">>
Exact(n) == <<"Exact", n>>
LastOf(n) == <<"LastOf", n>>    \* <<"LastOf">> alone is LastOf(None)
IsA(node, kind) == node # Rejected /\ node[1] = kind

parse_atom(tok) ==
  CASE tok[1] = "V" -> Exact(tok[2])
    [] tok[1] = "*" -> Wildcard
    [] tok[1] = "?" -> Unspecified
    [] tok[1] = "L" -> <<"LastOf">>
    [] OTHER -> Rejected

parse_base(ts) ==
  LET a == parse_atom(ts[1])
  IN IF Len(ts) = 1 \/ a = Rejected THEN a
     ELSE LET b == parse_atom(ts[3])
          IN IF b = Rejected THEN Rejected
             ELSE IF a = <<"LastOf">> THEN (IF IsA(b, "Exact") THEN LastOf(b[2]) ELSE Rejected)
             ELSE <<"Range", a, b>>

(* A base, then at most one of: / step, # nth, W, L. *)
parse_segment(ts) ==
  IF ts = <<>> THEN Rejected ELSE
  LET n == IF Len(ts) >= 3 /\ ts[2] = <<"-">> THEN 3 ELSE 1
      base == parse_base(SubSeq(ts, 1, n))
      rest == SubSeq(ts, n + 1, Len(ts))
      arg == IF Len(rest) = 2 THEN parse_atom(rest[2]) ELSE Rejected
  IN IF base = Rejected THEN Rejected
     ELSE IF rest = <<>> THEN base
     ELSE CASE rest[1] = <<"/">> /\ IsA(arg, "Exact") -> <<"Step", base, arg[2]>>
            [] rest[1] = <<"#">> /\ IsA(arg, "Exact") /\ IsA(base, "Exact") -> <<"NthWeekday", base[2], arg[2]>>
            [] rest = <<<<"W">>>> /\ (IsA(base, "Exact") \/ base = <<"LastOf">>) -> <<"NearestWeekday", base>>
            [] rest = <<<<"L">>>> /\ IsA(base, "Exact") -> LastOf(base[2])
            [] rest = <<<<"L">>>> /\ base = <<"LastOf">> -> base
            [] OTHER -> Rejected

(* The segments of parse_list are what lies between the commas. *)
parse_field(toks) ==
  LET Cut(acc, tok) == IF tok = <<",">> THEN Append(acc, <<>>)
                       ELSE [acc EXCEPT ![Len(acc)] = Append(@, tok)]
      cut == FoldLeft(Cut, <<<<>>>>, toks)
      nodes == [i \in 1..Len(cut) |-> parse_segment(cut[i])]
  IN IF Contains(nodes, Rejected) THEN Rejected
     ELSE IF Len(nodes) = 1 THEN nodes[1] ELSE <<"List", nodes>>

(* ----------------------------- the validator ---------------------------- *)
RANGES == <<0..59, 0..59, 0..23, 1..31, 1..12, 1..7, 2026..2099>>

RECURSIVE validate_ast_node(_, _)
validate_ast_node(node, f) ==
  LET range == RANGES[f + 1]
  IN CASE node[1] = "Exact" -> node[2] \in range
       [] node[1] = "Range" -> /\ IsA(node[2], "Exact") /\ IsA(node[3], "Exact")
                               /\ node[2][2] <= node[3][2]
                               /\ {node[2][2], node[3][2]} \subseteq range
       [] node[1] = "Step" -> node[2][1] # "LastOf" /\ validate_ast_node(node[2], f) /\ node[3] # 0
       [] node[1] = "List" -> \A i \in DOMAIN node[2] : validate_ast_node(node[2][i], f)
       [] node[1] = "LastOf" -> /\ f \in {3, 5}
                                /\ Len(node) = 2 => node[2] \in IF f = 3 THEN 1..30 ELSE 1..7
       [] node[1] = "NearestWeekday" -> f = 3
       [] node[1] = "NthWeekday" -> f = 5 /\ node[3] \in 1..5 /\ node[2] \in 1..7
       [] node[1] = "Unspecified" -> f \in {3, 5}
       [] OTHER -> TRUE

(* --------------------------- the seven fields --------------------------- *)
RECURSIVE ast_to_cron_field(_)
ast_to_cron_field(node) ==
  CASE node[1] = "Range" -> <<"Range", node[2][2], node[3][2]>>
    [] node[1] = "Step" -> <<"Step", ast_to_cron_field(node[2]), node[3]>>
    [] node[1] = "List" -> <<"List", [i \in DOMAIN node[2] |-> ast_to_cron_field(node[2][i])]>>
    [] node[1] = "LastOf" -> IF Len(node) = 2 THEN <<"Last", node[2]>> ELSE <<"Last">>
    [] node[1] = "NearestWeekday" -> <<"NearestWeekday", IF Len(node[2]) = 2 THEN node[2][2] ELSE 0>>
    [] OTHER -> node

RECURSIVE ast_node_to_tokens(_)
ast_node_to_tokens(node) ==
  CASE node[1] = "Wildcard" -> Wildcard
    [] node[1] = "Exact" -> Exact(node[2])
    [] node[1] = "Unspecified" -> Unspecified
    [] node[1] = "Range" -> <<"Range", node[2][2], node[3][2]>>
    [] node[1] = "Step" -> <<"Step", ast_node_to_tokens(node[2]), node[3]>>
    [] node[1] = "List" -> <<"List", [i \in DOMAIN node[2] |-> ast_node_to_tokens(node[2][i])]>>
    [] node = <<"LastOf">> -> <<"Last">>
    [] node[1] = "LastOf" -> <<"Last", node[2]>>
    [] node[1] = "NearestWeekday" -> <<"NearestWeekday", IF node[2] = <<"LastOf">> THEN 0 ELSE node[2][2]>>
    [] node[1] = "NthWeekday" -> <<"NthWeekday", node[2], node[3]>>

Accepted(ast) ==
  /\ \A f \in 0..5 : ast[f] # Rejected /\ validate_ast_node(ast[f], f)
  /\ ~(ast[3] = Unspecified /\ ast[5] = Unspecified)

(* The array handed to TaskScheduleCron::new, indices from 1; the year stays a wildcard. *)
Fields(nodes) == [i \in 1..7 |-> IF i = 7 THEN Wildcard ELSE nodes[i - 1]]

from_str(s) ==
  LET toks == tokenize_from_str(s)
      ast == [f \in 0..5 |-> IF toks[f] = <<>> THEN Wildcard ELSE parse_field(toks[f])]
  IN IF toks # Rejected /\ Accepted(ast)
     THEN Fields([f \in 0..5 |-> ast_to_cron_field(ast[f])]) ELSE Rejected

cron(s) ==
  LET toks == tokenize_from_tokens(TokenTrees(s))
      ast == [f \in 0..5 |-> parse_field(toks[f])]
  IN IF toks # Rejected /\ Accepted(ast)
     THEN Fields([f \in 0..5 |-> ast_node_to_tokens(ast[f])]) ELSE Rejected
=============================================================================
