--------------------------- MODULE MCHeaderParser ---------------------------
(* Instances of HeaderParser small enough for TLC: streams of up to 17     *)
(* bytes with the letters G (GET), H (HTTP), k and l (known keys, l the    *)
(* content length) and u (an unknown key); a body and a key with a NUL.    *)
EXTENDS HeaderParser

Get == <<71>>
Post == <<80>>
Http == <<72>>
k == <<107, COLON>>
l == <<108, COLON>>
u == <<117, COLON>>
LengthKey == <<108>>
Keys == {<<107>>, LengthKey}

Lf == <<LF>>
CrLf == <<CR, LF>>
a == <<97>>
Sp == <<SP>>

Windows == Get \o CrLf \o k \o Sp \o a \o CrLf \o l \o <<49, 50>> \o CrLf \o CrLf
Unix == Get \o a \o Lf \o k \o a \o a \o Lf \o u \o a \o Lf \o l \o <<51>> \o Lf \o Lf
WithBody == Post \o Lf \o l \o <<49, 50, 55>> \o Lf \o l \o <<50, 48, 48>> \o Lf \o Lf \o <<NUL>>
EmptyValues == Get \o Lf \o k \o Lf \o k \o Sp \o Sp \o Lf \o u \o Lf \o Lf \o a
Answer == Http \o Sp \o Sp \o <<50, 48, 52>> \o Lf \o k \o a \o a \o a \o Lf \o Lf
NoColon == Get \o Lf \o k \o a \o Lf \o a \o a \o Lf \o Lf
NulInKey == Get \o Lf \o LengthKey \o <<NUL, 120, COLON, 53>> \o Lf \o Lf
CutShort == Get \o CrLf \o k \o a

In(kind, stream_, peer, beyond) ==
    [kind |-> kind, stream |-> stream_, peer |-> peer, beyond |-> beyond]

AllInputs ==
    {In("request", s, 0, NUL) : s \in {Unix, EmptyValues, NoColon, NulInKey, CutShort, <<>>}}
      \union {In("request", WithBody, Silent, b) : b \in {NUL, COLON}}
      \union {In("opening", s, p, NUL) : s \in {Windows}, p \in {Silent, -1}}
      \union {In("reply", Answer, p, NUL) : p \in {Silent, 0}}
      \union {In("request", Windows, Silent, NUL)}

SplitLine == {In("request", Get \o Lf \o k \o a \o Lf \o Lf, 0, NUL)}
=============================================================================
