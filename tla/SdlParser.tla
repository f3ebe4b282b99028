----------------------------- MODULE SdlParser -----------------------------
(***************************************************************************)
(* The reader of SDL files: the scanner that cuts a line into tokens       *)
(* (SdlParser.cpp, next), the automaton that turns tokens into             *)
(* descriptors (parse and parse_default), and the database of descriptors  *)
(* the files of a directory fill (DescriptorDb.cpp).                       *)
(*                                                                         *)
(* A file is a sequence of lines, a line a sequence of lexemes             *)
(* [type, value]: what the scanner recognises by the first character of a  *)
(* run of characters.  "#" starts a comment and "?" is a character no      *)
(* token starts with.                                                      *)
(***************************************************************************)
EXTENDS Integers, Sequences, SequencesExt

\* The keywords that name the type of a variable.
TypeNames == {"INT", "FLOAT", "BOOL", "STRING32", "PLKEY", "CREATABLE",
              "DOUBLE", "TIME", "BYTE", "SHORT", "AGETIMEOFDAY", "VECTOR3",
              "POINT3", "QUATERNION", "RGB", "RGB8", "RGBA", "RGBA8"}

Keywords == TypeNames \cup {"STATEDESC", "VERSION", "VAR", "DEFAULT",
                            "DEFAULTOPTION", "DISPLAYOPTION"}

\* A word is its keyword, and any other word an identifier.
str_to_toktype(word) ==
    [type |-> IF word \in Keywords THEN word ELSE "Ident", value |-> word]

\* The tokens next() delivers for one line: a comment ends the line, and so
\* does a character that starts no token, after an error token.
NextLine(line) ==
    LET Stops  == {i \in DOMAIN line : line[i].type \in {"#", "?"}}
        cut    == IF Stops = {} THEN Len(line) + 1 ELSE Min(Stops)
        Tok(i) == IF line[i].type = "word" THEN str_to_toktype(line[i].value)
                                           ELSE line[i]
        whole  == [i \in 1 .. cut - 1 |-> Tok(i)]
    IN  IF cut <= Len(line) /\ line[cut].type = "?"
        THEN Append(whole, [type |-> "Error", value |-> "?"])
        ELSE whole

\* A descriptor and a variable as clear() leaves them.  The value of a
\* default is the sequence of its components, empty where there is none.
NoVar == [type |-> "Invalid", typeName |-> "", name |-> "", size |-> 0,
          valid |-> FALSE, default |-> <<>>]

NoDesc == [name |-> "", version |-> -1, vars |-> <<>>]

Numeric(tok) == tok.type = "Numeric"

\* What parse_default makes of the values it collected: the default of a
\* variable of this type, or a complaint that ends the file.
ParseValues(type, values) ==
    LET Numbers(n) == Len(values) = n /\ \A i \in 1 .. n : Numeric(values[i])
        number     == [i \in DOMAIN values |-> values[i].value]
        Bad        == [ok |-> FALSE, value |-> <<>>]
        Good(v)    == [ok |-> TRUE, value |-> v]
        word       == values[1].value
    IN  CASE type = "BOOL" ->
               IF Numbers(1) THEN Good(<<word # 0>>)
               ELSE IF Len(values) = 1 /\ values[1].type = "Ident"
                       /\ word \in {"true", "false"}
                    THEN Good(<<word = "true">>) ELSE Bad
          [] type \in {"INT", "BYTE", "SHORT", "FLOAT", "DOUBLE", "TIME"} ->
               IF Numbers(1) THEN Good(number) ELSE Bad
          [] type = "STRING32" ->
               IF Len(values) = 1 /\ values[1].type \in {"Ident", "Quoted"}
               THEN Good(number) ELSE Bad
          [] type \in {"VECTOR3", "POINT3"} ->
               IF Numbers(3) THEN Good(number) ELSE Bad
          [] type \in {"QUATERNION", "RGBA", "RGBA8"} ->
               IF Numbers(4) THEN Good(number) ELSE Bad
          [] type \in {"RGB", "RGB8"} ->
               IF Numbers(3) THEN Good(Append(number, IF type = "RGB" THEN 1 ELSE 255))
               ELSE Bad
          [] type = "PLKEY" ->
               IF Len(values) = 1 /\ values[1].type = "Ident" /\ word = "nil"
               THEN Good(<<>>) ELSE Bad
          [] OTHER -> Good(<<>>)

\* BAD_TOK and an error token: parse() ends with the descriptors it closed.
BadToken(p) == [p EXCEPT !.state = "Stop"]

\* One token inside a default: a single value, or a list of numbers in
\* parentheses.  The last token converts the values.
parse_default(p, tok) ==
    LET Take(values) ==
          LET d == ParseValues(p.var.type, values)
          IN  IF d.ok THEN [p EXCEPT !.state = "Var", !.values = <<>>,
                                     !.var.valid = TRUE, !.var.default = d.value]
                      ELSE BadToken(p)
    IN  CASE p.state = "Default" /\ tok.type = "(" -> [p EXCEPT !.state = "LS_I"]
          [] p.state = "Default" /\ tok.type \in {"Numeric", "Ident", "Quoted"} ->
               Take(<<tok>>)
          [] p.state = "LS_I" /\ Numeric(tok) ->
               [p EXCEPT !.state = "LS_X", !.values = Append(@, tok)]
          [] p.state = "LS_X" /\ tok.type = "," -> [p EXCEPT !.state = "LS_I"]
          [] p.state = "LS_X" /\ tok.type = ")" -> Take(p.values)
          [] OTHER -> BadToken(p)

\* The states that end a variable's clause, and so allow what may follow it.
InBody == {"Statedesc", "Var"}

\* Variant: the last variable before a brace or a VERSION is forgotten.
WithVar_forgets(p) == p.desc

\* descBuffer with the variable that a VAR, a VERSION or a brace completes.
WithVar(p) ==
    IF p.state = "Var" THEN [p.desc EXCEPT !.vars = Append(@, p.var)] ELSE p.desc

\* One turn of parse()'s loop on the tokens that build the frame of a
\* descriptor: its head, its version, its variables' heads and its end.
ParseFrame(p, tok) ==
    LET t == tok.type  s == p.state
    IN  CASE t = "STATEDESC" /\ s = "File" ->
               [p EXCEPT !.state = "Statedesc_ID", !.desc = NoDesc]
          [] t = "Ident" /\ s = "Statedesc_ID" ->
               [p EXCEPT !.state = "Statedesc_BR", !.desc.name = tok.value]
          [] t = "{" /\ s = "Statedesc_BR" -> [p EXCEPT !.state = "Statedesc"]
          [] t = "}" /\ s \in InBody ->
               [p EXCEPT !.state = "File", !.desc = WithVar(p),
                         !.out = Append(@, WithVar(p))]
          [] t = "VERSION" /\ s \in InBody ->
               [p EXCEPT !.state = "Version_N", !.desc = WithVar(p)]
          [] t = "Numeric" /\ s = "Version_N" ->
               [p EXCEPT !.state = "Statedesc", !.desc.version = tok.value]
          [] t = "VAR" /\ s \in InBody ->
               [p EXCEPT !.state = "Var_TP", !.desc = WithVar(p), !.var = NoVar]
          [] OTHER -> BadToken(p)

\* One turn of parse()'s loop on the tokens of a variable: its type, its
\* name, its size and its options.
ParseVar(p, tok) ==
    LET t == tok.type  s == p.state
    IN  CASE t \in TypeNames /\ s = "Var_TP" ->
               [p EXCEPT !.state = "Var_ID", !.var.type = t]
          [] t = "Typename" /\ s = "Var_TP" ->
               [p EXCEPT !.state = "Var_ID", !.var.type = "StateDesc",
                         !.var.typeName = tok.value]
          [] t = "Ident" /\ s = "Var_ID" ->
               [p EXCEPT !.state = "Var_SZ", !.var.name = tok.value]
          [] t = "[" /\ s = "Var_SZ" -> [p EXCEPT !.state = "SZ_N"]
          [] t = "Numeric" /\ s = "SZ_N" ->
               [p EXCEPT !.state = "SZ_X", !.var.size = tok.value]
          [] t = "]" /\ s = "SZ_N" -> [p EXCEPT !.state = "Var", !.var.size = -1]
          [] t = "]" /\ s = "SZ_X" -> [p EXCEPT !.state = "Var"]
          [] t \in {"DEFAULT", "DEFAULTOPTION", "DISPLAYOPTION"} /\ s = "Var" ->
               [p EXCEPT !.state = IF t = "DEFAULT" THEN "Default_EQ" ELSE "Option_EQ"]
          [] t = "=" /\ s = "Default_EQ" -> [p EXCEPT !.state = "Default"]
          [] t = "=" /\ s = "Option_EQ" -> [p EXCEPT !.state = "Option"]
          [] t = "Ident" /\ s = "Option" -> [p EXCEPT !.state = "Var"]
          [] OTHER -> BadToken(p)

ParseToken(p, tok) ==
    IF p.state = "Stop" \/ tok.type = "Error" THEN BadToken(p)
    ELSE IF \/ p.state \in {"LS_I", "LS_X"}
            \/ p.state = "Default" /\ tok.type \in {"(", "Ident", "Numeric", "Quoted"}
         THEN parse_default(p, tok)
    ELSE IF tok.type = ";" THEN p
    ELSE IF \/ p.state \in {"File", "Statedesc_ID", "Statedesc_BR", "Statedesc", "Version_N"}
            \/ tok.type \in {"}", "VERSION", "VAR", "STATEDESC"}
         THEN ParseFrame(p, tok)
    ELSE ParseVar(p, tok)

\* parse(): the closed descriptors in order, without those that have no version.
Parse(file) ==
    LET tokens == FlattenSeq([i \in DOMAIN file |-> NextLine(file[i])])
        start  == [state |-> "File", desc |-> NoDesc, var |-> NoVar,
                   values |-> <<>>, out |-> <<>>]
        Versioned(d) == d.version >= 0
    IN  SelectSeq(FoldLeft(ParseToken, start, tokens).out, Versioned)

----------------------------------------------------------------------------
\* The database: a function from <<name, version>>; version -1 keeps a copy of
\* the newest one read so far.
LoadDescriptor(db, d) ==
    LET Put(f, v) == [k \in DOMAIN f \cup {<<d.name, v>>} |->
                        IF k = <<d.name, v>> THEN d ELSE f[k]]
        newest    == <<d.name, -1>>
        with      == Put(db, d.version)
    IN  IF newest \notin DOMAIN db \/ db[newest].version < d.version
        THEN Put(with, -1) ELSE with

\* The files in the order of their names.
LoadDescriptors(files) ==
    FoldLeft(LoadDescriptor, << >>, FlattenSeq([i \in DOMAIN files |-> Parse(files[i])]))

Versions(db, name) == {k[2] : k \in {x \in DOMAIN db : x[1] = name}}

\* A descriptor is identified by its key; null stands for no descriptor.
FindDescriptor(db, name, version) ==
    IF <<name, version>> \in DOMAIN db THEN db[<<name, version>>] ELSE NoDesc

FindLatestDescriptor(db, name) ==
    IF Versions(db, name) = {} THEN NoDesc
    ELSE db[<<name, Max(Versions(db, name))>>]

----------------------------------------------------------------------------
\* A second reading of the text, without an automaton: a descriptor is what
\* stands between STATEDESC and the next closing brace, its version the number
\* behind its last VERSION, its variables what follows each VAR up to the next.
Shape(d) ==
    [name |-> d.name, version |-> d.version,
     vars |-> [i \in DOMAIN d.vars |->
                 [type |-> d.vars[i].type, name |-> d.vars[i].name,
                  size |-> d.vars[i].size, valid |-> d.vars[i].valid]]]

Blocks(file) ==
    LET t == FlattenSeq([i \in DOMAIN file |-> NextLine(file[i])])
        At(type) == {i \in DOMAIN t : t[i].type = type}
        Ordered(S) == SetToSortSeq(S, <)
        EndOf(h) == Min({i \in At("}") : i > h})
        Word(i)  == IF i \in DOMAIN t /\ t[i].type = "Ident" THEN t[i].value ELSE ""
        Number(i, else) == IF i \in DOMAIN t /\ Numeric(t[i]) THEN t[i].value ELSE else
        Type(i)  == IF t[i].type = "Typename" THEN "StateDesc" ELSE t[i].type
        Clauses(h) == {i \in At("VAR") \cup At("VERSION") \cup At("}") : i > h}
        Variable(v) ==
            [type |-> Type(v + 1), name |-> Word(v + 2), size |-> Number(v + 4, -1),
             valid |-> \E i \in At("DEFAULT") : v < i /\ i < Min(Clauses(v))]
        Block(h) ==
            LET Within(type) == {i \in At(type) : h < i /\ i < EndOf(h)}
                vs == Ordered(Within("VAR"))
            IN  [name    |-> Word(h + 1),
                 version |-> IF Within("VERSION") = {} THEN -1
                             ELSE Number(Max(Within("VERSION")) + 1, -1),
                 vars    |-> [i \in DOMAIN vs |-> Variable(vs[i])]]
        heads == Ordered({h \in At("STATEDESC") : \E i \in At("}") : i > h})
    IN  [i \in DOMAIN heads |-> Block(heads[i])]

\* A database holds, under its name and version, the last block read of them,
\* and under the version -1 the first block of the newest version.
Holds(db, blocks) ==
    LET Key(i) == <<blocks[i].name, blocks[i].version>>
        Of(name) == {i \in DOMAIN blocks : blocks[i].name = name}
        Newest(name) == {i \in Of(name) : \A j \in Of(name) : blocks[j].version <= blocks[i].version}
    IN  /\ DOMAIN db = {Key(i) : i \in DOMAIN blocks}
                       \cup {<<blocks[i].name, -1>> : i \in DOMAIN blocks}
        /\ \A i \in DOMAIN blocks :
              (\A j \in DOMAIN blocks : j > i => Key(j) # Key(i)) => Shape(db[Key(i)]) = blocks[i]
        /\ \A i \in DOMAIN blocks :
              Shape(db[<<blocks[i].name, -1>>]) = blocks[Min(Newest(blocks[i].name))]
=============================================================================
