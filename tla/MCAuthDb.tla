------------------------------ MODULE MCAuthDb ------------------------------
(* AuthDb with small SDL files: an age with an integer, a flag, a text of no    *)
(* fixed size and a float, in three versions; an object with a number and two   *)
(* nested variables.  The damaged files are those of another descriptor, with   *)
(* one token replaced, left out, or the last one: they only matter to the       *)
(* parser.                                                                      *)
EXTENDS AuthDb

W(word) == [type |-> "word", value |-> word]
N(n) == [type |-> "Numeric", value |-> n]
P(c) == [type |-> c, value |-> c]
Sub(name) == [type |-> "Typename", value |-> name]

Head_(name, version) == <<W("STATEDESC"), W(name), P("{"), W("VERSION"), N(version)>>
Var(type, name, n) == <<W("VAR"), type, W(name), P("["), N(n), P("]")>>
Is(value) == <<W("DEFAULT"), P("="), value>>
List(type, name) == <<W("VAR"), type, W(name), P("["), P("]")>>

AgeV1 == << Head_("Age", 1), Var(W("INT"), "a", 1) \o Is(N(3)) \o <<P(";")>>,
            Var(W("BOOL"), "b", 1) \o Is(W("true")),
            List(W("STRING32"), "s"), Var(W("FLOAT"), "f", 1), <<P("}")>> >>
AgeV2 == << Head_("Age", 2), Var(W("BYTE"), "n", 1) \o Is(N(7)),
            Var(W("INT"), "a", 2) \o Is(N(4)), Var(W("BOOL"), "b", 1) \o Is(W("false")),
            <<P("}")>> >>
AgeV3 == << Head_("Age", 3), Var(W("STRING32"), "a", 1), <<P("}")>> >>
Objects == << Head_("Sub", 1), Var(W("INT"), "z", 1) \o Is(N(0)), <<P("}")>>,
              Head_("Obj", 1), Var(W("INT"), "x", 1) \o Is(N(0)),
              Var(Sub("Sub"), "p", 1), Var(Sub("Sub"), "q", 2), <<P("}")>> >>

\* Two descriptors of one name: every kind of default, a comment, options.
Text == << <<P("#"), W("VAR")>>, Head_("Else", 1) \o <<P("#"), P("?")>>,
           Var(W("RGB"), "c", 1) \o <<W("DEFAULT"), P("="), P("("), N(1), P(","), N(2),
                                      P(","), N(3), P(")"), W("DISPLAYOPTION"), P("="), W("hidden")>>,
           Var(W("STRING32"), "t", 1), <<P("}")>>,
           Head_("Else", 2), Var(Sub("Else"), "e", 2), Var(W("PLKEY"), "k", 1) \o Is(W("nil")),
           <<W("VERSION"), N(3), P("}")>> >>

Flat == FlattenSeq(Text)
Spoils == <<W("STATEDESC"), W("VAR"), W("VERSION"), W("other"), N(9), P("}"), P("("),
            P("]"), P(";"), P("?")>>

\* A line break after every token, so that a comment hides one token.
Lines(tokens) == [i \in DOMAIN tokens |-> <<tokens[i]>>]

\* The directories by number: 1 is whole, the others are damaged at one place.
Damaged(text, i) ==
    LET n     == Len(text)
        place == ((i - 2) % n) + 1
        kind  == ((i - 2) \div n) + 1
    IN  IF kind <= Len(Spoils) THEN <<Lines([text EXCEPT ![place] = Spoils[kind]])>>
        ELSE IF kind = Len(Spoils) + 1 THEN <<Lines(RemoveAt(text, place))>>
        ELSE <<Lines(SubSeq(text, 1, place - 1)), Text>>
MCFirstFiles ==
    LET text == Flat
    IN  [i \in 1 .. 1 + (Len(Spoils) + 2) * Len(text) |->
           IF i = 1 THEN <<AgeV1, Objects>> ELSE Damaged(text, i)]
MCLaterFiles == << <<AgeV1, Objects>>, <<AgeV1 \o AgeV2, Objects>>, <<AgeV1, AgeV3>>, <<AgeV3>> >>

MCGlobalChanges == << [var |-> "a", value |-> <<5>>], [var |-> "a", value |-> <<>>],
                      [var |-> "b", value |-> <<0>>], [var |-> "s", value |-> <<"hi">>],
                      [var |-> "f", value |-> <<1>>] >>

\* The blobs of an object whose client changed only these parts.
New(n) == [flags |-> {"HasDirtyFlag", "WantTimeStamp"}, time |-> 0, data |-> <<<<n>>>>]
Count(n) == Field("count", n)
Node(size) == Field("nested", [flags |-> {}, size |-> size])
Leaf(n) == Count(1) \o Field("var", New(n)) \o Count(0)
Blob(fields) == [name |-> "Obj", version |-> 1, fields |-> fields]
MCObjectBlobs ==
    << Blob(Count(1) \o Field("var", New(1)) \o Count(0)),
       Blob(Count(0) \o Count(1) \o Field("index", 1) \o Node(1) \o Count(1) \o Leaf(2)),
       Blob(Count(0) \o Count(1) \o Field("index", 2) \o Node(2) \o Count(2) \o Leaf(3) \o Leaf(4)),
       Blob(Count(0) \o Count(1) \o Field("index", 2) \o Node(2) \o Count(1)
            \o Field("index", 2) \o Leaf(5)),
       Blob(Count(0) \o Count(2) \o Node(1) \o Count(1) \o Leaf(6)
            \o Node(2) \o Count(2) \o Leaf(7) \o Leaf(8)) >>

MCStaticAges == << [uuid |-> 0, file |-> "city"], [uuid |-> -2, file |-> "Garden"] >>
MCClientUuids == {-1, -2}
MCAmounts == {-4, 1, 3}
MCMaxRequests == [global |-> 3, object |-> 4, vault |-> 3, scores |-> 3]
=============================================================================
