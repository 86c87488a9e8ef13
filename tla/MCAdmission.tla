---------------------------- MODULE MCAdmission ----------------------------
EXTENDS Admission, TLC

a == <<"a">>
padded == <<Blank, "a", Blank>>
b == <<"b">>
blank == <<Blank>>
ab == <<"a", "b">>
likeA == <<bearer, "a">>

Provider == [name |-> <<"p">>, key |-> <<>>, env |-> Unnamed, models |-> 1,
             priority |-> 0, retries |-> -1]

Plain ==
    [valid |-> <<b>>, validEnv |-> Unnamed, tokens |-> <<>>, providers |-> <<Provider>>,
     num |-> [port |-> 8080, server |-> 1, other |-> 0, db |-> 0, qps |-> 1, burst |-> 1,
              rate |-> 0, size |-> 0, retries |-> 1, ratio |-> 1, minimum |-> 0, halfOpen |-> 0],
     wellFormed |-> TRUE]

Entry(name, env, disabled) ==
    [name |-> name, env |-> env, value |-> <<>>, disabled |-> disabled, limit |-> 1]

\* Structured entries: named or not, with a token, padded, blank or missing,
\* disabled, with a token in the file, or with a negative limit.
Entries ==
    {Entry(<<"n">>, e, FALSE) : e \in {a, padded, b, blank, Unset, Unnamed}}
    \cup {Entry(<<"m", Blank>>, e, FALSE) : e \in {a, b}}
    \cup {Entry(<<>>, a, FALSE), Entry(<<>>, Unset, TRUE)}
    \cup {[Entry(<<"n">>, a, d) EXCEPT !.value = a] : d \in BOOLEAN}
    \cup {[Entry(<<"n">>, a, FALSE) EXCEPT !.limit = -1]}
    \cup {Entry(<<"n">>, ab, FALSE), Entry(<<"n">>, likeA, FALSE)}

Lists == BoundedSeq({a, padded, b, blank}, 2)

\* Every list, every variable, and up to two entries; every two numbers away
\* from their defaults; every way in which a provider can be refused.
MCFiles ==
    {[Plain EXCEPT !.valid = v, !.validEnv = e, !.tokens = t] :
        v \in Lists, e \in {Unnamed, Unset, <<>>, <<a>>, <<padded, b>>, <<blank>>},
        t \in BoundedSeq(Entries, 2)}
    \cup {[Plain EXCEPT !.num[f] = v, !.num[g] = w] :
            f \in DOMAIN Plain.num, g \in DOMAIN Plain.num, v \in -1 .. 3, w \in -1 .. 3}
    \cup {[Plain EXCEPT !.providers = p, !.wellFormed = wf] :
            p \in BoundedSeq({Provider, [Provider EXCEPT !.name = <<Blank, "p">>],
                              [Provider EXCEPT !.name = <<"q">>, !.env = a],
                              [Provider EXCEPT !.env = blank], [Provider EXCEPT !.key = a],
                              [Provider EXCEPT !.models = 0]}, 2),
            wf \in BOOLEAN}

MCHeaders ==
    {<<>>, blank, <<Bearer>>, <<Bearer, "a">>, <<Blank, Bearer, "a", Blank>>,
     <<bearer, "a">>, <<Bearer, "b">>, <<Bearer, "c">>, <<"a">>,
     <<Bearer, "a", "b">>, <<Bearer, bearer, "a">>}
=============================================================================
