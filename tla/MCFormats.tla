------------------------------ MODULE MCFormats -----------------------------
EXTENDS Formats

int(n) == Item("int", <<n>>)
str(s) == Item("str", s)
True == Item("bool", <<1>>)
(* Equal to each other, without a sign, with one, without room for one, of *)
(* characters of two bytes, and all the other types.                       *)
Scalars == {int(1), True, str(<<97>>)}
Numbers == {int(n) : n \in {0, -1, 127, 128, -128, -129, 255, 256, 32767, 32768, -32768, -32769}}
Others ==
  {str(<<>>), str(<<233>>), str(<<233, 97>>), Item("none", <<>>), Item("bytes", <<1, 255>>),
   Item("bool", <<0>>)} \cup {Item("float", <<x>>) : x \in {Nan, Inf, NegInf, 3}}

Seqs(S) == {<<>>} \cup {<<a>> : a \in S} \cup {<<a, b>> : a, b \in S}
List(s) == Node("list", <<>>, s)
Dict(keys, s) == Node("dict", keys, s)
x == <<120>>
y == <<121>>

SmallHeaps ==
  {<<List(s), List(r)>> : s \in Seqs(Scalars \cup {Ref(1), Ref(2)}),
                          r \in {<<>>, <<int(1)>>, <<True>>, <<Ref(1)>>, <<Ref(2)>>, <<Ref(1), Ref(2)>>}}
    \cup {<<List(<<a, b>>)>> : a \in Numbers \cup Others, b \in {int(1), str(<<97>>), str(<<233, 97>>)}}
    \cup {<<List(<<Ref(2), Ref(3)>>), Dict(<<x, y>>, <<a, b>>), Dict(<<y, x>>, <<c, d>>)>> :
            a, b \in {int(1), Ref(1), Ref(2), Ref(3)}, c, d \in {True, Ref(2), Ref(3)}}

SmallMessages ==
  {Message(f, o, m, l, p) : f \in BOOLEAN, o \in Opcodes, m \in BOOLEAN,
                            l \in {0, 1, 125, 126, 127, 65535, 65536},
                            p \in {"clear", "masked"}}
=============================================================================
