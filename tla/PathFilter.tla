----------------------------- MODULE PathFilter -----------------------------
(***************************************************************************)
(* Ordered --allow and --deny globs.  The reference turns a glob into a    *)
(* regular expression (glob.zig) that PCRE2 matches; the Rust port         *)
(* compiles it to tokens and fills two rows of a dynamic program           *)
(* (path_filter.rs).  The port runs step by step here: a token at a time,  *)
(* then a row at a time.  Characters are strings of length one; "n" is the *)
(* newline and "e" the backslash.                                          *)
(***************************************************************************)
EXTENDS Naturals, Sequences, SequencesExt

CONSTANTS
    RuleLists,      \* sequences of [action, pattern]
    TestPaths       \* valid paths to ask about

Newline == "n"
Escape == "e"

VARIABLES
    rules, path,
    pc,             \* "compile", "class", "match" or "done"
    rule,           \* the rule the port is at
    index,          \* the next character of its pattern; its next token when matching
    classes,        \* classes_remain
    scan,           \* the class being read: where, and what it has so far
    tokens,         \* tokens[r]: what rule r was compiled to so far
    row,            \* row[j]: do the tokens done so far match the path from j on?
    included,
    error

vars == <<rules, path, pc, rule, index, classes, scan, tokens, row, included, error>>

-----------------------------------------------------------------------------
(* Rules.                                                                  *)

Opposite(action) == IF action = "include" THEN "exclude" ELSE "include"

Negated(r) == r.pattern # <<>> /\ r.pattern[1] = "!"
Pattern(r) == IF Negated(r) THEN Tail(r.pattern) ELSE r.pattern
ActionOf(r) == IF Negated(r) THEN Opposite(r.action) ELSE r.action

DefaultIncluded(rs) == \A i \in DOMAIN rs : rs[i].action # "include"

-----------------------------------------------------------------------------
(* The reference: toRegex, and what PCRE2 makes of its pieces.             *)

Piece(kind, char, members, negated) ==
    [kind |-> kind, char |-> char, members |-> members, negated |-> negated]
Literal(c) == Piece("literal", c, {}, FALSE)
AnyChar == Piece("any", "", {}, FALSE)
Star(cross) == Piece(IF cross THEN "deep" ELSE "star", "", {}, FALSE)
TreePrefix == Piece("prefix", "", {}, FALSE)
Class(members, negated) == Piece("class", "", members, negated)

IsAt(g, i, c) == i <= Len(g) /\ g[i] = c

\* The members of a class from j on, and where it ends; 0 if it does not.
RECURSIVE ClassFrom(_, _, _)
ClassFrom(g, j, members) ==
    CASE j > Len(g) -> [end |-> 0, members |-> members]
      [] j <= Len(g) /\ g[j] = "]" -> [end |-> j, members |-> members]
      [] j < Len(g) /\ g[j] = Escape -> ClassFrom(g, j + 2, members \cup {g[j + 1]})
      [] OTHER -> ClassFrom(g, j + 1, members \cup {g[j]})

\* The class that opens at i.
ClassAt(g, i) ==
    LET negated == IsAt(g, i + 1, "!") \/ IsAt(g, i + 1, "^")
        j == IF negated THEN i + 2 ELSE i + 1
        c == IF IsAt(g, j, "]") THEN ClassFrom(g, j + 1, {"]"}) ELSE ClassFrom(g, j, {})
    IN  [end |-> c.end, piece |-> Class(c.members, negated)]

RECURSIVE ToRegex(_, _)
ToRegex(g, i) ==
    CASE i > Len(g) -> <<>>
      [] i < Len(g) /\ g[i] = Escape -> <<Literal(g[i + 1])>> \o ToRegex(g, i + 2)
      [] IsAt(g, i, "*") /\ IsAt(g, i + 1, "*") /\ IsAt(g, i + 2, "/") ->
            <<TreePrefix>> \o ToRegex(g, i + 3)
      [] IsAt(g, i, "*") /\ IsAt(g, i + 1, "*") /\ ~IsAt(g, i + 2, "/") ->
            <<Star(TRUE)>> \o ToRegex(g, i + 2)
      [] IsAt(g, i, "*") /\ ~IsAt(g, i + 1, "*") -> <<Star(FALSE)>> \o ToRegex(g, i + 1)
      [] IsAt(g, i, "?") -> <<AnyChar>> \o ToRegex(g, i + 1)
      [] IsAt(g, i, "[") /\ ClassAt(g, i).end # 0 ->
            <<ClassAt(g, i).piece>> \o ToRegex(g, ClassAt(g, i).end + 1)
      [] OTHER -> <<Literal(g[i])>> \o ToRegex(g, i + 1)

\* Where a match of a piece that starts after k characters of p may end.
Without(p, k, m, c) == \A x \in (k + 1)..m : p[x] # c
Ends(piece, p, k) ==
    LET n == Len(p)
        one(ok) == IF k < n /\ ok THEN {k + 1} ELSE {}
    IN  CASE piece.kind = "literal" -> one(k < n /\ p[k + 1] = piece.char)
          [] piece.kind = "any" -> one(k < n /\ p[k + 1] # "/")
          [] piece.kind = "class" -> one(k < n /\ (p[k + 1] \in piece.members) # piece.negated)
          [] piece.kind = "star" -> {m \in k..n : Without(p, k, m, "/")}
          [] piece.kind = "deep" -> {m \in k..n : Without(p, k, m, Newline)}
          [] piece.kind = "prefix" ->
                {k} \cup {m \in (k + 1)..n : p[m] = "/" /\ Without(p, k, m, Newline)}

\* Do these pieces match all of p after its first k characters?
MatchesFrom(pieces, p, k) ==
    Len(p) \in FoldLeft(LAMBDA S, piece : UNION {Ends(piece, p, x) : x \in S}, {k}, pieces)

\* Filter.includes: the last rule that matches decides.
Included(rs, p) ==
    FoldLeft(LAMBDA b, r : IF MatchesFrom(ToRegex(Pattern(r), 1), p, 0)
                           THEN ActionOf(r) = "include" ELSE b,
             \A i \in DOMAIN rs : rs[i].action # "include", rs)

-----------------------------------------------------------------------------
(* The port.                                                               *)

Glob == Pattern(rules[rule])
NoScan == [at |-> 0, negated |-> FALSE, members |-> {}]

\* Is the first character of a class, at j, a "]" that belongs to it?
FirstMember(j) == IF IsAt(Glob, j, "]") THEN 1 ELSE 0

\* The token at index that is no class, and the last character it takes.
TokenAt ==
    LET g == Glob
        skip == IF index < Len(g) THEN 1 ELSE 0
    IN  CASE g[index] = Escape -> [token |-> Literal(g[index + skip]), last |-> index + skip]
          [] g[index] = "*" /\ IsAt(g, index + 1, "*") /\ IsAt(g, index + 2, "/") ->
                [token |-> TreePrefix, last |-> index + 2]
          [] g[index] = "*" /\ IsAt(g, index + 1, "*") /\ ~IsAt(g, index + 2, "/") ->
                [token |-> Star(TRUE), last |-> index + 1]
          [] g[index] = "*" /\ ~IsAt(g, index + 1, "*") -> [token |-> Star(FALSE), last |-> index]
          [] g[index] = "?" -> [token |-> AnyChar, last |-> index]
          [] OTHER -> [token |-> Literal(g[index]), last |-> index]

OpensClass == Glob[index] = "[" /\ classes

CompileToken ==
    /\ pc = "compile" /\ rule <= Len(rules) /\ index <= Len(Glob) /\ ~OpensClass
    /\ tokens' = [tokens EXCEPT ![rule] = Append(@, TokenAt.token)]
    /\ index' = TokenAt.last + 1
    /\ UNCHANGED <<rules, path, pc, rule, classes, scan, row, included, error>>

OpenClass ==
    /\ pc = "compile" /\ rule <= Len(rules) /\ index <= Len(Glob) /\ OpensClass
    /\ LET negated == IsAt(Glob, index + 1, "!") \/ IsAt(Glob, index + 1, "^")
           j == IF negated THEN index + 2 ELSE index + 1
       IN  scan' = [at |-> j + FirstMember(j), negated |-> negated,
                    members |-> IF FirstMember(j) = 1 THEN {"]"} ELSE {}]
    /\ pc' = "class"
    /\ UNCHANGED <<rules, path, rule, index, classes, tokens, row, included, error>>

\* One more member, after its backslash if it has one.
ScanClass ==
    /\ pc = "class" /\ scan.at <= Len(Glob) /\ Glob[scan.at] # "]"
    /\ LET j == IF Glob[scan.at] = Escape /\ scan.at < Len(Glob) THEN scan.at + 1 ELSE scan.at
       IN  scan' = [scan EXCEPT !.at = j + 1, !.members = @ \cup {Glob[j]}]
    /\ UNCHANGED <<rules, path, pc, rule, index, classes, tokens, row, included, error>>

\* A class that is not closed is a "[", and so is every later one.
EndClass ==
    /\ pc = "class" /\ IF scan.at <= Len(Glob) THEN Glob[scan.at] = "]" ELSE TRUE
    /\ IF scan.at <= Len(Glob)
       THEN /\ tokens' = [tokens EXCEPT ![rule] = Append(@, Class(scan.members, scan.negated))]
            /\ index' = scan.at + 1 /\ UNCHANGED classes
       ELSE /\ tokens' = [tokens EXCEPT ![rule] = Append(@, Literal("["))]
            /\ index' = index + 1 /\ classes' = FALSE
    /\ pc' = "compile" /\ scan' = NoScan
    /\ UNCHANGED <<rules, path, rule, row, included, error>>

CompileRule ==
    /\ pc = "compile" /\ rule <= Len(rules) /\ index = Len(Glob) + 1
    /\ IF Glob = <<>>
       THEN pc' = "done" /\ error' = "EmptyPattern" /\ UNCHANGED rule
       ELSE rule' = rule + 1 /\ UNCHANGED <<pc, error>>
    /\ index' = 1 /\ classes' = TRUE
    /\ UNCHANGED <<rules, path, scan, tokens, row, included>>

LastRow(p) == [j \in 0..Len(p) |-> j = Len(p)]

\* includes for some path.
Ask ==
    /\ pc = "compile" /\ rule = Len(rules) + 1
    /\ \E p \in TestPaths :
          path' = p /\ row' = LastRow(p)
    /\ included' = DefaultIncluded(rules)
    /\ rule' = 1 /\ index' = IF rules = <<>> THEN 0 ELSE Len(tokens[1])
    /\ pc' = IF rules = <<>> THEN "done" ELSE "match"
    /\ UNCHANGED <<rules, classes, scan, tokens, error>>

\* Fault: a star takes at most one character.
StarRowOnce(stop) ==
    [j \in 0..Len(path) |-> row[j] \/ (j < Len(path) /\ path[j + 1] # stop /\ row[j + 1])]

\* A star: the row's own next entry, so that it may take any number.
StarRow(stop) ==
    LET r[j \in 0..Len(path)] ==
            row[j] \/ (j < Len(path) /\ path[j + 1] # stop /\ r[j + 1])
    IN  r

\* directory_prefix, from the end of the path backwards.
PrefixRow ==
    LET d[j \in 0..Len(path)] ==
            /\ j < Len(path) /\ path[j + 1] # Newline
            /\ (path[j + 1] = "/" /\ row[j + 1]) \/ d[j + 1]
    IN  [j \in 0..Len(path) |-> row[j] \/ d[j]]

\* Literals, ? and classes take one character.
CharRow(t) ==
    [j \in 0..Len(path) |->
        /\ j < Len(path) /\ row[j + 1]
        /\ CASE t.kind = "literal" -> path[j + 1] = t.char
             [] t.kind = "any" -> path[j + 1] # "/"
             [] t.kind = "class" -> (path[j + 1] \in t.members) # t.negated]

NextRow(t) ==
    CASE t.kind = "star" -> StarRow("/")
      [] t.kind = "deep" -> StarRow(Newline)
      [] t.kind = "prefix" -> PrefixRow
      [] OTHER -> CharRow(t)

FillRow ==
    /\ pc = "match" /\ index > 0
    /\ row' = NextRow(tokens[rule][index])
    /\ index' = index - 1
    /\ UNCHANGED <<rules, path, pc, rule, classes, scan, tokens, included, error>>

Decide ==
    /\ pc = "match" /\ index = 0
    /\ included' = IF row[0] THEN ActionOf(rules[rule]) = "include" ELSE included
    /\ IF rule = Len(rules) THEN pc' = "done" /\ UNCHANGED <<rule, index>>
       ELSE rule' = rule + 1 /\ index' = Len(tokens[rule + 1]) /\ UNCHANGED pc
    /\ row' = LastRow(path)
    /\ UNCHANGED <<rules, path, classes, scan, tokens, error>>

Terminated == pc = "done" /\ UNCHANGED vars

Init ==
    /\ rules \in RuleLists /\ path = <<>>
    /\ pc = "compile" /\ rule = 1 /\ index = 1 /\ classes = TRUE /\ scan = NoScan
    /\ tokens = [r \in DOMAIN rules |-> <<>>]
    /\ row = LastRow(<<>>) /\ included = FALSE /\ error = ""

Next ==
    \/ CompileToken \/ OpenClass \/ ScanClass \/ EndClass \/ CompileRule
    \/ Ask \/ FillRow \/ Decide \/ Terminated

Spec == Init /\ [][Next]_vars

-----------------------------------------------------------------------------
TypeOK ==
    /\ pc \in {"compile", "class", "match", "done"} /\ rule \in 1..(Len(rules) + 1)
    /\ pc \in {"compile", "class"} /\ rule <= Len(rules) => index \in 1..(Len(Glob) + 1)
    /\ pc = "match" => index \in 0..Len(tokens[rule])
    /\ DOMAIN row = 0..Len(path) /\ included \in BOOLEAN /\ classes \in BOOLEAN

\* The port includes the paths that the reference includes, through escapes,
\* globstars, classes and the shortcut of classes_remain, which stops looking
\* for a class after one that was not closed, and whatever the rules' order.
FilterAgrees ==
    pc = "done" =>
        IF \E r \in DOMAIN rules : Pattern(rules[r]) = <<>> THEN error = "EmptyPattern"
        ELSE error = "" /\ included = Included(rules, path)
=============================================================================
