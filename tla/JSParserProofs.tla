--------------------------- MODULE JSParserProofs ---------------------------
EXTENDS JSParser, FiniteSetTheorems, TLAPS

\* The context flags a list of statements must find again, save that allowYield may be
\* lost; those of the cover grammars, which every expression may leave otherwise; and all
\* that the proof follows.
Flags == {"isModule", "allowAwait", "allowIn", "allowStrictDirective", "allowYield",
          "inFunctionBody", "inIteration", "inSwitch", "strict"}
Covers == {"firstCoverInitializedNameError", "isAssignmentTarget", "isBindingElement"}
Watched == Flags \cup {"labelSet"}

\* Calls that may come upon a `use strict` directive and so make the rest of the function
\* strict; calls that set or close something and need a place of their own on the stack;
\* calls that run the call they are given.
Unsettling == {"parseFunctionSourceElements", "parseDirectivePrologues", "directive",
               "endDirective", "arrowBody"}
Marked == {"put", "endItem", "removeLabel", "closeHead", "parseScript", "parseModule"}
            \cup Unsettling
Wrappers == {"isolateCoverGrammar", "inheritCoverGrammar"}
Indirect == {"peek", "parseArguments", "firstArgument", "argument", "afterArgument", "nextArgument"}

\* A call that leaves every flag that is followed as it found it, whatever it calls.
Simple(f) == f \notin Marked \cup Wrappers \cup Indirect \cup {"endIsolate"}

\* An instruction that leaves the flags that are followed alone: a simple call, bare or
\* wrapped, or the restoring of cover flags.
Harmless(x) ==
  \/ Simple(x.f)
  \/ x.f \in Wrappers /\ Simple(x.a.f)
  \/ x.f \in Indirect /\ Simple(x.a)
  \/ x.f \in {"put", "endIsolate"} /\ DOMAIN x.a \subseteq Covers
  \/ x.f = "closeHead" /\ \E b : x.a = <<b>> /\ Simple(b.f)
  \/ x.f = "closeHead" /\ \E a, b : x.a = <<a, b>> /\ Simple(a.f) /\ Simple(b.f)

\* An instruction during which the code may become strict.
Unsettles(x) ==
  \/ x.f \in Unsettling
  \/ x.f = "isolateCoverGrammar" /\ x.a.f = "parseFunctionSourceElements"

\* The end of the head of a loop: the body is parsed with inIteration set, and v is put
\* back.
LoopHead(b, v) ==
  CallWith("closeHead", <<Put([inIteration |-> TRUE]), b, Put([inIteration |-> v])>>)

\* What decides the value of a flag below x on the stack, whatever the flag is now: a put
\* that names it, and for `strict` any instruction that may read a directive.
Sets(x, flag) ==
  \/ x.f = "put" /\ flag \in DOMAIN x.a
  \/ flag = "strict" /\ Unsettles(x)

\* The value v of the flag will do where w is wanted back.
Keeps(flag, v, w) == IF flag = "allowYield" THEN v => w ELSE v = w

\* With v for the flag below position i of the stack, each statement item that ends before
\* the flag is set again finds the value it started with.
Meets(flag, v, s, i) ==
  \A j \in DOMAIN s :
    j > i /\ s[j].f = "endItem" /\ (\A k \in (i + 1) .. (j - 1) : ~Sets(s[k], flag)) =>
      Keeps(flag, v, s[j].a[flag])

\* No statement item ends below position i before `strict` is put back.
Unwatched(s, i) ==
  \A j \in DOMAIN s :
    j > i /\ s[j].f = "endItem" => \E k \in (i + 1) .. (j - 1) : Sets(s[k], "strict")

\* The labels of the labelled statements still to be closed below position i, up to the
\* return from the function: the label set that the calls below i count on.
Labels(s, i) ==
  {s[j].a : j \in {l \in DOMAIN s : /\ l > i /\ s[l].f = "removeLabel"
                                   /\ \A k \in (i + 1) .. (l - 1) : ~Sets(s[k], "labelSet")}}

\* The instruction at position i stands where it may: what it puts back is what those
\* below expect, what it removes or compares is there, and it may find a directive only
\* where nobody counts on `strict`.
InPlace(s, i) ==
  \/ Harmless(s[i])
  \/ /\ s[i].f = "put" /\ DOMAIN s[i].a \subseteq Watched \cup Covers
     /\ \A flag \in DOMAIN s[i].a \cap Flags : Meets(flag, s[i].a[flag], s, i)
     /\ "labelSet" \in DOMAIN s[i].a => s[i].a["labelSet"] = Labels(s, i)
  \/ s[i].f = "endItem" /\ s[i].a["labelSet"] = Labels(s, i)
  \/ s[i].f = "removeLabel" /\ s[i].a \notin Labels(s, i)
  \/ Unsettles(s[i]) /\ Unwatched(s, i)
  \/ \E b, v : s[i] = LoopHead(b, v) /\ Harmless(b) /\ Meets("inIteration", v, s, i)
  \/ s[i].f \in {"parseScript", "parseModule"} /\ i = Len(s)

\* The context c fits the stack s: every instruction is in its place and the flags are
\* those that the first of them expect.
Stacked(c, s) ==
  /\ DOMAIN c = Watched \cup Covers
  /\ s \in Seq(Range(s))
  /\ c["labelSet"] = Labels(s, 0)
  /\ \A flag \in Flags : Meets(flag, c[flag], s, 0)
  /\ \A i \in DOMAIN s : InPlace(s, i)

\* The inductive invariant: while the parser runs, the context fits the calls that are
\* still to return, at every depth of the stack and not only for the item that ends next;
\* once it has stopped nothing is left to do.
IInv ==
  /\ status = "parsing" => Stacked(ctx, todo)
  /\ status # "parsing" => todo = <<>>

\* A list of harmless instructions.
AllHarmless(is) == is \in Seq(Range(is)) /\ \A x \in Range(is) : Harmless(x)

-----------------------------------------------------------------------------
(* What a step pushes on the stack leaves what is below as it was. *)

\* A sequence is one over its own elements.
LEMMA OwnRange == ASSUME NEW S, NEW t \in Seq(S) PROVE t \in Seq(Range(t))
BY DEF Range

\* The stack after a step that took the call on top and pushed `is`: element by element.
LEMMA Pushing ==
  ASSUME NEW s, NEW is, NEW t, s \in Seq(Range(s)), is \in Seq(Range(is)), s # <<>>,
         t = is \o Tail(s)
  PROVE  /\ t \in Seq(Range(t))
         /\ Len(is) \in Nat /\ Len(s) \in Nat \ {0} /\ Len(t) = Len(is) + Len(s) - 1
         /\ DOMAIN is = 1 .. Len(is) /\ DOMAIN s = 1 .. Len(s) /\ DOMAIN t = 1 .. Len(t)
         /\ \A i \in 1 .. Len(is) : t[i] = is[i]
         /\ \A i \in (Len(is) + 1) .. Len(t) : t[i] = s[i - Len(is) + 1]
<1> DEFINE S == Range(s) \cup Range(is)
<1>1. s \in Seq(S) /\ is \in Seq(S)
  OBVIOUS
<1>2. /\ Tail(s) \in Seq(S) /\ Len(Tail(s)) = Len(s) - 1
      /\ \A i \in 1 .. Len(s) - 1 : Tail(s)[i] = s[i + 1]
  BY <1>1
<1>3. Len(is) \in Nat /\ Len(s) \in Nat \ {0}
  BY <1>1
<1>4. /\ t \in Seq(S) /\ Len(t) = Len(is) + Len(Tail(s))
      /\ \A i \in 1 .. Len(t) : t[i] = IF i <= Len(is) THEN is[i] ELSE Tail(s)[i - Len(is)]
  BY <1>1, <1>2
<1>5. t \in Seq(Range(t))
  BY <1>4, OwnRange
<1> QED
  BY <1>1, <1>2, <1>3, <1>4, <1>5

\* What stands between two places stands between them after both were shifted.
LEMMA Shifted ==
  ASSUME NEW n \in Int, NEW j \in Nat \ {0}, NEW l \in Int, NEW k \in (j + 1) .. (l - n - 1)
  PROVE  n + k \in (n + j + 1) .. (l - 1) /\ k \in 2 .. (l - n)
OBVIOUS

\* Two stacks that are the same below a place, one of them n higher, have there the same labels
\* and the same flags to meet, and what stands well in one does in the other.
LEMMA Shift ==
  ASSUME NEW s, NEW t, NEW n \in Int, n + 1 \in Nat, Len(s) \in Nat, Len(t) = Len(s) + n,
         DOMAIN s = 1 .. Len(s), DOMAIN t = 1 .. Len(t),
         \A i \in 2 .. Len(s) : t[n + i] = s[i],
         NEW j \in 1 .. Len(s)
  PROVE  /\ \A flag, v : Meets(flag, v, s, j) => Meets(flag, v, t, n + j)
         /\ Unwatched(s, j) => Unwatched(t, n + j)
         /\ Labels(t, n + j) = Labels(s, j)
         /\ j > 1 /\ InPlace(s, j) => InPlace(t, n + j)
<1>2. ASSUME NEW flag, NEW v, Meets(flag, v, s, j) PROVE Meets(flag, v, t, n + j)
  <2> SUFFICES ASSUME NEW l \in DOMAIN t, l > n + j, t[l].f = "endItem",
                      \A k \in (n + j + 1) .. (l - 1) : ~Sets(t[k], flag)
               PROVE  Keeps(flag, v, t[l].a[flag])
    BY DEF Meets
  <2>1. l - n \in DOMAIN s /\ l - n > j /\ t[l] = s[l - n]
    OBVIOUS
  <2>2. ASSUME NEW k \in (j + 1) .. (l - n - 1) PROVE ~Sets(s[k], flag)
    <3>1. n \in Int /\ j \in Nat \ {0} /\ l \in Int
      OBVIOUS
    <3>2. n + k \in (n + j + 1) .. (l - 1) /\ k \in 2 .. (l - n)
      BY <3>1, Shifted
    <3>3. t[n + k] = s[k]
      BY <2>1, <3>2
    <3> QED
      BY <3>2, <3>3
  <2> QED
    BY <1>2, <2>1, <2>2 DEF Meets
<1>3. ASSUME Unwatched(s, j) PROVE Unwatched(t, n + j)
  <2> SUFFICES ASSUME NEW l \in DOMAIN t, l > n + j, t[l].f = "endItem"
               PROVE  \E k \in (n + j + 1) .. (l - 1) : Sets(t[k], "strict")
    BY DEF Unwatched
  <2>1. l - n \in DOMAIN s /\ l - n > j /\ t[l] = s[l - n]
    OBVIOUS
  <2>2. PICK k \in (j + 1) .. (l - n - 1) : Sets(s[k], "strict")
    BY <1>3, <2>1 DEF Unwatched
  <2>3. n \in Int /\ j \in Nat \ {0} /\ l \in Int
    OBVIOUS
  <2>4. n + k \in (n + j + 1) .. (l - 1) /\ k \in 2 .. (l - n)
    BY <2>2, <2>3, Shifted
  <2>5. k \in 2 .. Len(s)
    BY <2>1, <2>4
  <2>6. t[n + k] = s[k]
    BY <2>5
  <2> QED
    BY <2>2, <2>4, <2>6
<1>4. Labels(t, n + j) = Labels(s, j)
  <2>1. ASSUME NEW l \in DOMAIN t, l > n + j, t[l].f = "removeLabel",
               \A k \in (n + j + 1) .. (l - 1) : ~Sets(t[k], "labelSet")
        PROVE  t[l].a \in Labels(s, j)
    <3>1. PICK m \in DOMAIN s : m = l - n /\ m > j /\ t[l] = s[m]
      BY <2>1
    <3>2. ASSUME NEW k \in (j + 1) .. (m - 1) PROVE ~Sets(s[k], "labelSet")
      <4>1. n \in Int /\ j \in Nat \ {0} /\ l \in Int
        OBVIOUS
      <4>2. n + k \in (n + j + 1) .. (l - 1) /\ k \in 2 .. (l - n)
        BY <3>1, <4>1, Shifted
      <4>3. t[n + k] = s[k]
        BY <3>1, <4>2
      <4> QED
        BY <2>1, <4>2, <4>3
    <3> QED
      BY <2>1, <3>1, <3>2 DEF Labels
  <2>2. ASSUME NEW l \in DOMAIN s, l > j, s[l].f = "removeLabel",
               \A k \in (j + 1) .. (l - 1) : ~Sets(s[k], "labelSet")
        PROVE  s[l].a \in Labels(t, n + j)
    <3>1. l \in 2 .. Len(s) /\ n + l \in DOMAIN t /\ n + l > n + j
      BY <2>2
    <3>2. PICK m \in DOMAIN t : m = n + l /\ m > n + j /\ t[m] = s[l]
      BY <3>1
    <3>3. ASSUME NEW k \in (n + j + 1) .. (m - 1) PROVE ~Sets(t[k], "labelSet")
      <4>1. PICK p \in (j + 1) .. (l - 1) : n + p = k
        <5>1. k - n \in (j + 1) .. (l - 1) /\ n + (k - n) = k
          BY <3>1, <3>2
        <5> QED
          BY <5>1
      <4>2. p \in 2 .. Len(s)
        BY <3>1
      <4>3. t[n + p] = s[p]
        BY <4>2
      <4>4. ~Sets(s[p], "labelSet")
        BY <2>2, <4>1, ZenonT(40)
      <4> QED
        BY <4>1, <4>3, <4>4, Zenon
    <3> QED
      BY <2>2, <3>2, <3>3 DEF Labels
  <2> QED
    BY <2>1, <2>2, Zenon DEF Labels
<1>5. ASSUME j > 1, InPlace(s, j) PROVE InPlace(t, n + j)
  <2>1. t[n + j] = s[j]
    BY <1>5
  <2>2. j = Len(s) => n + j = Len(t)
    OBVIOUS
  <2> QED
    BY <1>2, <1>3, <1>4, <1>5, <2>1, <2>2 DEF InPlace
<1> QED
  BY <1>2, <1>3, <1>4, <1>5

\* What is below the pushed instructions has the same labels, the same flags to meet, and
\* stands as well as before.
LEMMA Below ==
  ASSUME NEW s, NEW is, NEW t, s \in Seq(Range(s)), is \in Seq(Range(is)), s # <<>>,
         t = is \o Tail(s), NEW j \in 1 .. Len(s)
  PROVE  /\ \A flag, v : Meets(flag, v, s, j) => Meets(flag, v, t, Len(is) + j - 1)
         /\ Unwatched(s, j) => Unwatched(t, Len(is) + j - 1)
         /\ Labels(t, Len(is) + j - 1) = Labels(s, j)
         /\ j > 1 /\ InPlace(s, j) => InPlace(t, Len(is) + j - 1)
<1> DEFINE n == Len(is) - 1
<1>0. Len(is) \in Nat /\ Len(s) \in Nat /\ j \in Nat
  BY Pushing
<1>1. /\ n \in Int /\ n + 1 \in Nat /\ Len(s) \in Nat /\ Len(t) = Len(s) + n
      /\ DOMAIN s = 1 .. Len(s) /\ DOMAIN t = 1 .. Len(t)
      /\ \A i \in 2 .. Len(s) : t[n + i] = s[i]
  <2>1. /\ Len(t) = Len(is) + Len(s) - 1 /\ DOMAIN s = 1 .. Len(s) /\ DOMAIN t = 1 .. Len(t)
        /\ \A i \in (Len(is) + 1) .. Len(t) : t[i] = s[i - Len(is) + 1]
    BY Pushing
  <2>2. ASSUME NEW i \in 2 .. Len(s) PROVE t[n + i] = s[i]
    <3>1. n + i \in (Len(is) + 1) .. Len(t) /\ n + i - Len(is) + 1 = i
      BY <1>0, <2>1
    <3>2. t[n + i] = s[n + i - Len(is) + 1]
      BY <2>1, <3>1
    <3> QED
      BY <3>1, <3>2
  <2>3. n \in Int /\ n + 1 \in Nat /\ Len(t) = Len(s) + n
    BY <1>0, <2>1
  <2> QED
    BY <1>0, <2>1, <2>2, <2>3, Zenon
<1>2. Len(is) + j - 1 = n + j
  BY <1>0
<1> HIDE DEF n
<1>3. /\ \A flag, v : Meets(flag, v, s, j) => Meets(flag, v, t, n + j)
      /\ Unwatched(s, j) => Unwatched(t, n + j)
      /\ Labels(t, n + j) = Labels(s, j)
      /\ j > 1 /\ InPlace(s, j) => InPlace(t, n + j)
  BY <1>1, Shift, ZenonT(40)
<1> QED
  BY <1>2, <1>3, ZenonT(40)

\* The elements of the short lists that the actions push.
LEMMA Tuples ==
  /\ <<>> \in Seq(Range(<<>>)) /\ Range(<<>>) = {}
  /\ \A a : <<a>> \in Seq(Range(<<a>>))
       /\ Range(<<a>>) = {a}
  /\ \A a, b : <<a, b>> \in Seq(Range(<<a, b>>))
       /\ Range(<<a, b>>) = {a, b}
  /\ \A a, b, c : <<a, b, c>> \in Seq(Range(<<a, b, c>>))
       /\ Range(<<a, b, c>>) = {a, b, c}
  /\ \A a, b, c, d : <<a, b, c, d>> \in Seq(Range(<<a, b, c, d>>))
       /\ Range(<<a, b, c, d>>) = {a, b, c, d}
  /\ \A a, b, c, d, e : <<a, b, c, d, e>> \in Seq(Range(<<a, b, c, d, e>>))
       /\ Range(<<a, b, c, d, e>>) = {a, b, c, d, e}
  /\ \A a, b, c, d, e, f : <<a, b, c, d, e, f>> \in Seq(Range(<<a, b, c, d, e, f>>))
       /\ Range(<<a, b, c, d, e, f>>) = {a, b, c, d, e, f}
  /\ \A a, b, c, d, e, f, g : <<a, b, c, d, e, f, g>> \in Seq(Range(<<a, b, c, d, e, f, g>>))
       /\ Range(<<a, b, c, d, e, f, g>>) = {a, b, c, d, e, f, g}
<1>0. <<>> \in Seq(Range(<<>>)) /\ Range(<<>>) = {}
  BY DEF Range
<1>1. ASSUME NEW a
      PROVE  <<a>> \in Seq(Range(<<a>>)) /\ Range(<<a>>) = {a}
  <2>1. Range(<<a>>) = {a}
    BY DEF Range
  <2>2. <<a>> \in Seq({a})
    OBVIOUS
  <2> QED
    BY <2>1, <2>2
<1>2. ASSUME NEW a, NEW b
      PROVE  <<a, b>> \in Seq(Range(<<a, b>>)) /\ Range(<<a, b>>) = {a, b}
  <2>1. Range(<<a, b>>) = {a, b}
    BY DEF Range
  <2>2. <<a, b>> \in Seq({a, b})
    OBVIOUS
  <2> QED
    BY <2>1, <2>2
<1>3. ASSUME NEW a, NEW b, NEW c
      PROVE  <<a, b, c>> \in Seq(Range(<<a, b, c>>)) /\ Range(<<a, b, c>>) = {a, b, c}
  <2>1. Range(<<a, b, c>>) = {a, b, c}
    BY DEF Range
  <2>2. <<a, b, c>> \in Seq({a, b, c})
    OBVIOUS
  <2> QED
    BY <2>1, <2>2
<1>4. ASSUME NEW a, NEW b, NEW c, NEW d
      PROVE  <<a, b, c, d>> \in Seq(Range(<<a, b, c, d>>)) /\ Range(<<a, b, c, d>>) = {a, b, c, d}
  <2>1. Range(<<a, b, c, d>>) = {a, b, c, d}
    BY DEF Range
  <2>2. <<a, b, c, d>> \in Seq({a, b, c, d})
    OBVIOUS
  <2> QED
    BY <2>1, <2>2
<1>5. ASSUME NEW a, NEW b, NEW c, NEW d, NEW e
      PROVE  /\ <<a, b, c, d, e>> \in Seq(Range(<<a, b, c, d, e>>))
             /\ Range(<<a, b, c, d, e>>) = {a, b, c, d, e}
  <2>1. Range(<<a, b, c, d, e>>) = {a, b, c, d, e}
    BY DEF Range
  <2>2. <<a, b, c, d, e>> \in Seq({a, b, c, d, e})
    OBVIOUS
  <2> QED
    BY <2>1, <2>2
<1>6. ASSUME NEW a, NEW b, NEW c, NEW d, NEW e, NEW f
      PROVE  /\ <<a, b, c, d, e, f>> \in Seq(Range(<<a, b, c, d, e, f>>))
             /\ Range(<<a, b, c, d, e, f>>) = {a, b, c, d, e, f}
  <2>1. Range(<<a, b, c, d, e, f>>) = {a, b, c, d, e, f}
    BY DEF Range
  <2>2. <<a, b, c, d, e, f>> \in Seq({a, b, c, d, e, f})
    OBVIOUS
  <2> QED
    BY <2>1, <2>2
<1>7. ASSUME NEW a, NEW b, NEW c, NEW d, NEW e, NEW f, NEW g
      PROVE  /\ <<a, b, c, d, e, f, g>> \in Seq(Range(<<a, b, c, d, e, f, g>>))
             /\ Range(<<a, b, c, d, e, f, g>>) = {a, b, c, d, e, f, g}
  <2>1. Range(<<a, b, c, d, e, f, g>>) = {a, b, c, d, e, f, g}
    BY DEF Range
  <2>2. <<a, b, c, d, e, f, g>> \in Seq({a, b, c, d, e, f, g})
    OBVIOUS
  <2> QED
    BY <2>1, <2>2
<1> QED
  BY <1>0, <1>1, <1>2, <1>3, <1>4, <1>5, <1>6, <1>7

\* A list of harmless instructions, written out, is harmless.
LEMMA Lists ==
  /\ AllHarmless(<<>>)
  /\ \A a : Harmless(a) => AllHarmless(<<a>>)
  /\ \A a, b : Harmless(a) /\ Harmless(b) => AllHarmless(<<a, b>>)
  /\ \A a, b, c : Harmless(a) /\ Harmless(b) /\ Harmless(c) => AllHarmless(<<a, b, c>>)
  /\ \A a, b, c, d :
       Harmless(a) /\ Harmless(b) /\ Harmless(c) /\ Harmless(d)
         => AllHarmless(<<a, b, c, d>>)
  /\ \A a, b, c, d, e :
       Harmless(a) /\ Harmless(b) /\ Harmless(c) /\ Harmless(d) /\ Harmless(e)
         => AllHarmless(<<a, b, c, d, e>>)
  /\ \A a, b, c, d, e, f :
       Harmless(a) /\ Harmless(b) /\ Harmless(c) /\ Harmless(d) /\ Harmless(e) /\ Harmless(f)
         => AllHarmless(<<a, b, c, d, e, f>>)
BY Tuples DEF AllHarmless

\* Two lists of harmless instructions, one after the other.
LEMMA Joined ==
  ASSUME NEW a, NEW b, AllHarmless(a), AllHarmless(b)
  PROVE  AllHarmless(a \o b)
<1> DEFINE S == Range(a) \cup Range(b)
<1>1. a \in Seq(S) /\ b \in Seq(S)
  BY DEF AllHarmless
<1>2. /\ a \o b \in Seq(S) /\ Len(a \o b) = Len(a) + Len(b)
      /\ \A i \in 1 .. Len(a) + Len(b) : (a \o b)[i] = IF i <= Len(a) THEN a[i] ELSE b[i - Len(a)]
  BY <1>1
<1>3. Range(a \o b) \subseteq S
  BY <1>2 DEF Range
<1>4. a \o b \in Seq(Range(a \o b))
  BY <1>2, OwnRange
<1> QED
  BY <1>3, <1>4 DEF AllHarmless

\* The instructions that the actions push, by the names they have in JSMachine.
LEMMA Calls ==
  /\ \A f : Simple(f) =>
       Harmless(Call(f)) /\ Harmless(Isolate(f)) /\ Harmless(Inherit(f)) /\ Harmless(Peek(f))
  /\ \A f, a : Simple(f) => Harmless(CallWith(f, a))
  /\ \A f, a : f \in Indirect /\ Simple(a) => Harmless(CallWith(f, a))
  /\ \A v : Harmless(Expect(v)) /\ Harmless(ExpectKeyword(v))
  /\ \A n, k : Harmless(Build(n, k))
  /\ Harmless(Drop) /\ Harmless(AddChild)
  /\ \A a, b : Harmless(Put([isAssignmentTarget |-> a, isBindingElement |-> b]))
  /\ \A a : Harmless(Put([firstCoverInitializedNameError |-> a]))
  /\ \A f : Simple(f) => Harmless(CallWith("closeHead", <<Call(f)>>))
  /\ \A f, g : Simple(f) /\ Simple(g) => Harmless(CallWith("closeHead", <<Call(f), Call(g)>>))
<1>1. \A f, a : Simple(f) => Harmless(CallWith(f, a))
  BY DEF Harmless, CallWith
<1>2. \A f, a : f \in Indirect /\ Simple(a) => Harmless(CallWith(f, a))
  BY DEF Harmless, CallWith
<1>3. ASSUME NEW f, Simple(f)
      PROVE  Harmless(Call(f)) /\ Harmless(Isolate(f)) /\ Harmless(Inherit(f)) /\ Harmless(Peek(f))
  <2>1. Harmless(Call(f))
    BY <1>1, <1>3 DEF Call
  <2>2. Harmless(Isolate(f)) /\ Harmless(Inherit(f))
    BY <1>3 DEF Isolate, Inherit, Call, CallWith, Harmless, Wrappers
  <2>3. Harmless(Peek(f))
    BY <1>2, <1>3 DEF Peek, Indirect
  <2> QED
    BY <2>1, <2>2, <2>3
<1>4. /\ Simple("expect") /\ Simple("expectKeyword") /\ Simple("build") /\ Simple("drop")
      /\ Simple("addChild")
  BY DEF Simple, Marked, Unsettling, Wrappers, Indirect
<1>5. \A v : Harmless(Expect(v)) /\ Harmless(ExpectKeyword(v))
  BY <1>1, <1>4 DEF Expect, ExpectKeyword
<1>6. \A n, k : Harmless(Build(n, k))
  BY <1>1, <1>4 DEF Build
<1>7. Harmless(Drop) /\ Harmless(AddChild)
  BY <1>3, <1>4 DEF Drop, AddChild
<1>8. \A a, b : Harmless(Put([isAssignmentTarget |-> a, isBindingElement |-> b]))
  BY DEF Put, CallWith, Harmless, Covers
<1>9. \A a : Harmless(Put([firstCoverInitializedNameError |-> a]))
  BY DEF Put, CallWith, Harmless, Covers
<1>10. \A f : Simple(f) => Harmless(CallWith("closeHead", <<Call(f)>>))
  <2>1. \A c : Simple(c.f) => Harmless(CallWith("closeHead", <<c>>))
    BY DEF CallWith, Harmless
  <2> QED
    BY <2>1 DEF Call, CallWith
<1>11. \A f, g : Simple(f) /\ Simple(g) => Harmless(CallWith("closeHead", <<Call(f), Call(g)>>))
  <2>1. \A c, d : Simple(c.f) /\ Simple(d.f) => Harmless(CallWith("closeHead", <<c, d>>))
    BY DEF CallWith, Harmless
  <2> QED
    BY <2>1 DEF Call, CallWith
<1> QED
  BY <1>1, <1>2, <1>3, <1>5, <1>6, <1>7, <1>8, <1>9, <1>10, <1>11

\* A stack whose new instructions are in place, with a context that suits them, is in
\* order.
LEMMA Placed ==
  ASSUME NEW s, NEW is, NEW t, s \in Seq(Range(s)), is \in Seq(Range(is)), s # <<>>,
         t = is \o Tail(s), NEW d, DOMAIN d = Watched \cup Covers,
         \A j \in DOMAIN s : InPlace(s, j),
         \A i \in DOMAIN is : InPlace(t, i),
         d["labelSet"] = Labels(t, 0),
         \A flag \in Flags : Meets(flag, d[flag], t, 0)
  PROVE  Stacked(d, t)
<1>1. /\ t \in Seq(Range(t))
      /\ Len(is) \in Nat /\ Len(s) \in Nat \ {0} /\ Len(t) = Len(is) + Len(s) - 1
      /\ DOMAIN is = 1 .. Len(is) /\ DOMAIN s = 1 .. Len(s) /\ DOMAIN t = 1 .. Len(t)
  BY Pushing
<1>2. ASSUME NEW i \in DOMAIN t PROVE InPlace(t, i)
  <2>1. CASE i \in DOMAIN is
    BY <2>1
  <2>2. CASE i \notin DOMAIN is
    <3> DEFINE j == i - Len(is) + 1
    <3>1. j \in 1 .. Len(s) /\ j > 1 /\ Len(is) + j - 1 = i
      BY <1>1, <2>2
    <3>2. InPlace(t, Len(is) + j - 1)
      BY <1>1, <3>1, Below
    <3> QED
      BY <3>1, <3>2
  <2> QED
    BY <2>1, <2>2
<1> QED
  BY <1>1, <1>2 DEF Stacked

\* A list that ends no item and removes no label; and the setting of a flag later in the
\* list.
Calm(is) == \A k \in DOMAIN is : is[k].f \notin {"endItem", "removeLabel"}
SetAfter(is, i, flag) == \E k \in (i + 1) .. Len(is) : Sets(is[k], flag)

\* What position i of the pushed list inherits from the stack under it, unless the list
\* sets the flag itself.
Carried(s, is, t, i) ==
  /\ \A flag, v : SetAfter(is, i, flag) \/ Meets(flag, v, s, 1) => Meets(flag, v, t, i)
  /\ SetAfter(is, i, "strict") \/ Unwatched(s, 1) => Unwatched(t, i)
  /\ Labels(t, i) = IF SetAfter(is, i, "labelSet") THEN {} ELSE Labels(s, 1)

\* At the end of the pushed list everything is as it was below the call it replaces.
LEMMA Continued ==
  ASSUME NEW s, NEW is, NEW t, s \in Seq(Range(s)), is \in Seq(Range(is)), s # <<>>,
         t = is \o Tail(s)
  PROVE  /\ \A flag, v : Meets(flag, v, s, 1) => Meets(flag, v, t, Len(is))
         /\ Unwatched(s, 1) => Unwatched(t, Len(is))
         /\ Labels(t, Len(is)) = Labels(s, 1)
<1>1. Len(is) \in Nat /\ Len(s) \in Nat \ {0}
  BY Pushing
<1>2. PICK j \in 1 .. Len(s) : j = 1
  BY <1>1
<1>3. /\ \A flag, v : Meets(flag, v, s, j) => Meets(flag, v, t, Len(is) + j - 1)
      /\ Unwatched(s, j) => Unwatched(t, Len(is) + j - 1)
      /\ Labels(t, Len(is) + j - 1) = Labels(s, j)
  BY Below
<1>4. Len(is) + j - 1 = Len(is)
  BY <1>1, <1>2
<1> QED
  BY <1>2, <1>3, <1>4

\* At each position of a calm list: by the last setter after it, or as below.
LEMMA Through ==
  ASSUME NEW s, NEW is, NEW t, s \in Seq(Range(s)), is \in Seq(Range(is)), s # <<>>,
         t = is \o Tail(s), Calm(is), NEW i \in 0 .. Len(is)
  PROVE  Carried(s, is, t, i)
<1> USE DEF Carried
<1> DEFINE n == Len(is)
<1>1. /\ n \in Nat /\ Len(s) \in Nat \ {0} /\ Len(t) = n + Len(s) - 1
      /\ DOMAIN is = 1 .. n /\ DOMAIN s = 1 .. Len(s) /\ DOMAIN t = 1 .. Len(t)
      /\ \A k \in 1 .. n : t[k] = is[k]
  BY Pushing
<1>2. /\ \A flag, v : Meets(flag, v, s, 1) => Meets(flag, v, t, n)
      /\ Unwatched(s, 1) => Unwatched(t, n)
      /\ Labels(t, n) = Labels(s, 1)
  BY Continued
<1>3. \A k \in 1 .. n : t[k].f \notin {"endItem", "removeLabel"}
  BY <1>1 DEF Calm
<1>4. \A flag : SetAfter(is, i, flag) => \E k \in (i + 1) .. n : Sets(t[k], flag)
  BY <1>1 DEF SetAfter
<1>5. \A flag : ~SetAfter(is, i, flag) => \A k \in (i + 1) .. n : ~Sets(t[k], flag)
  BY <1>1 DEF SetAfter
<1>6. ASSUME NEW flag, NEW v, SetAfter(is, i, flag) \/ Meets(flag, v, s, 1)
      PROVE  Meets(flag, v, t, i)
  <2> SUFFICES ASSUME NEW j \in DOMAIN t, j > i, t[j].f = "endItem",
                      \A k \in (i + 1) .. (j - 1) : ~Sets(t[k], flag)
               PROVE  Keeps(flag, v, t[j].a[flag])
    BY DEF Meets
  <2>1. j > n
    BY <1>1, <1>3
  <2>2. ASSUME NEW k \in (i + 1) .. n PROVE ~Sets(t[k], flag)
    <3>1. k \in (i + 1) .. (j - 1)
      BY <1>1, <2>1
    <3> QED
      BY <3>1
  <2>3. Meets(flag, v, t, n)
    BY <1>2, <1>4, <1>6, <2>2
  <2>4. ASSUME NEW k \in (n + 1) .. (j - 1) PROVE ~Sets(t[k], flag)
    <3>1. k \in (i + 1) .. (j - 1)
      BY <1>1
    <3> QED
      BY <3>1
  <2> QED
    BY <2>1, <2>3, <2>4 DEF Meets
<1>7. ASSUME SetAfter(is, i, "strict") \/ Unwatched(s, 1) PROVE Unwatched(t, i)
  <2> SUFFICES ASSUME NEW j \in DOMAIN t, j > i, t[j].f = "endItem"
               PROVE  \E k \in (i + 1) .. (j - 1) : Sets(t[k], "strict")
    BY DEF Unwatched
  <2>1. j > n
    BY <1>1, <1>3
  <2>2. CASE SetAfter(is, i, "strict")
    <3>1. PICK k \in (i + 1) .. n : Sets(t[k], "strict")
      BY <1>4, <2>2
    <3>2. k \in (i + 1) .. (j - 1)
      BY <1>1, <2>1
    <3> QED
      BY <3>1, <3>2
  <2>3. CASE Unwatched(s, 1)
    <3>1. PICK k \in (n + 1) .. (j - 1) : Sets(t[k], "strict")
      BY <1>2, <2>1, <2>3 DEF Unwatched
    <3>2. k \in (i + 1) .. (j - 1)
      BY <1>1
    <3> QED
      BY <3>1, <3>2
  <2> QED
    BY <1>7, <2>2, <2>3
<1>8. CASE SetAfter(is, i, "labelSet")
  <2>1. PICK k \in (i + 1) .. n : Sets(t[k], "labelSet")
    BY <1>4, <1>8
  <2>2. \A l \in DOMAIN t : l > i /\ t[l].f = "removeLabel" => k \in (i + 1) .. (l - 1)
    BY <1>1, <1>3
  <2>3. Labels(t, i) = {}
    BY <2>1, <2>2 DEF Labels
  <2> QED
    BY <1>6, <1>7, <1>8, <2>3, Zenon
<1>9. CASE ~SetAfter(is, i, "labelSet")
  <2>1. \A l \in DOMAIN t : l > i /\ t[l].f = "removeLabel" => l > n
    BY <1>1, <1>3
  <2>2. ASSUME NEW l \in DOMAIN t, l > n
        PROVE  (\A k \in (i + 1) .. (l - 1) : ~Sets(t[k], "labelSet"))
                 <=> \A k \in (n + 1) .. (l - 1) : ~Sets(t[k], "labelSet")
    <3>1. ASSUME NEW k \in (i + 1) .. (l - 1)
          PROVE  k \in (i + 1) .. n \/ k \in (n + 1) .. (l - 1)
      BY <1>1
    <3>2. ASSUME NEW k \in (n + 1) .. (l - 1) PROVE k \in (i + 1) .. (l - 1)
      BY <1>1
    <3> QED
      BY <1>5, <1>9, <3>1, <3>2
  <2>3. Labels(t, i) = Labels(t, n)
    <3>1. \A l \in DOMAIN t : l > n => l > i
      BY <1>1
    <3>2. {l \in DOMAIN t : /\ l > i /\ t[l].f = "removeLabel"
                            /\ \A k \in (i + 1) .. (l - 1) : ~Sets(t[k], "labelSet")}
          = {l \in DOMAIN t : /\ l > n /\ t[l].f = "removeLabel"
                              /\ \A k \in (n + 1) .. (l - 1) : ~Sets(t[k], "labelSet")}
      BY <2>1, <2>2, <3>1
    <3> QED
      BY <3>2 DEF Labels
  <2> QED
    BY <1>2, <1>6, <1>7, <1>9, <2>3
<1> QED
  BY <1>8, <1>9

\* The i-th instruction of a pushed list, judged before it is pushed on what is left of s,
\* will be in place.
Fits(is, i, s) ==
  \/ Harmless(is[i])
  \/ /\ is[i].f = "put" /\ DOMAIN is[i].a \subseteq Watched \cup Covers
     /\ \A flag \in DOMAIN is[i].a \cap Flags :
          SetAfter(is, i, flag) \/ Meets(flag, is[i].a[flag], s, 1)
     /\ "labelSet" \in DOMAIN is[i].a =>
          ~SetAfter(is, i, "labelSet") /\ is[i].a["labelSet"] = Labels(s, 1)
  \/ Unsettles(is[i]) /\ (SetAfter(is, i, "strict") \/ Unwatched(s, 1))
  \/ \E b, v : is[i] = LoopHead(b, v) /\ Harmless(b) /\ Meets("inIteration", v, s, 1)

\* A harmless instruction ends no item, removes no label and reads no directive.
LEMMA Quiet == \A x : Harmless(x) => x.f \notin {"endItem", "removeLabel"} /\ ~Unsettles(x)
BY DEF Harmless, Simple, Marked, Wrappers, Indirect, Unsettles, Unsettling

\* A list whose instructions fit is calm.
LEMMA FitsCalm ==
  ASSUME NEW s, NEW is, \A i \in DOMAIN is : Fits(is, i, s)
  PROVE  Calm(is)
<1> SUFFICES ASSUME NEW i \in DOMAIN is PROVE is[i].f \notin {"endItem", "removeLabel"}
  BY DEF Calm
<1>1. Fits(is, i, s)
  OBVIOUS
<1>2. ASSUME NEW b, NEW v, is[i] = LoopHead(b, v) PROVE is[i].f = "closeHead"
  BY <1>2 DEF LoopHead, CallWith
<1>3. Unsettles(is[i]) => is[i].f \in Unsettling \cup {"isolateCoverGrammar"}
  BY DEF Unsettles
<1> QED
  BY <1>1, <1>2, <1>3, Quiet DEF Fits, Unsettling

\* A step that pushes instructions that fit, with a context that suits them, keeps the
\* stack in order.
LEMMA Pushed ==
  ASSUME NEW s, NEW is, NEW t, s \in Seq(Range(s)), is \in Seq(Range(is)), s # <<>>,
         t = is \o Tail(s), NEW d, DOMAIN d = Watched \cup Covers,
         \A j \in DOMAIN s : InPlace(s, j),
         \A i \in DOMAIN is : Fits(is, i, s),
         \A flag \in Flags : SetAfter(is, 0, flag) \/ Meets(flag, d[flag], s, 1),
         d["labelSet"] = IF SetAfter(is, 0, "labelSet") THEN {} ELSE Labels(s, 1)
  PROVE  Stacked(d, t)
<1>1. Calm(is)
  <2> HIDE DEF Calm
  <2> QED
    BY FitsCalm
<1>2. Len(is) \in Nat /\ DOMAIN is = 1 .. Len(is) /\ \A i \in 1 .. Len(is) : t[i] = is[i]
  BY Pushing
<1>3. /\ d["labelSet"] = Labels(t, 0)
      /\ \A flag \in Flags : Meets(flag, d[flag], t, 0)
  <2>1. PICK i \in 0 .. Len(is) : i = 0
    BY <1>2
  <2>2. Carried(s, is, t, i)
    BY <1>1, Through
  <2> QED
    BY <2>1, <2>2 DEF Carried
<1>4. ASSUME NEW i \in DOMAIN is PROVE InPlace(t, i)
  <2>1. i \in 0 .. Len(is) /\ t[i] = is[i]
    BY <1>2
  <2>2. Carried(s, is, t, i)
    BY <1>1, <2>1, Through
  <2>3. Fits(is, i, s)
    OBVIOUS
  <2> QED
    BY <2>1, <2>2, <2>3 DEF InPlace, Fits, Carried
<1> QED
  BY <1>3, <1>4, Placed

\* Where nobody counts on `strict` any value of it will do.
LEMMA Uncounted == \A s, i, v : Unwatched(s, i) => Meets("strict", v, s, i)
BY DEF Unwatched, Meets

\* What the context promises to the stack, it also promises to what is below the call on
\* top.
LEMMA Heading ==
  ASSUME NEW c, NEW s, Stacked(c, s), s # <<>>,
         s[1].f \notin {"put", "endItem", "removeLabel"}
  PROVE  /\ \A flag \in Flags : Meets(flag, c[flag], s, 1)
         /\ Labels(s, 1) = c["labelSet"]
         /\ Unsettles(s[1]) => Unwatched(s, 1)
<1>1. Len(s) \in Nat \ {0} /\ DOMAIN s = 1 .. Len(s)
  BY DEF Stacked
<1>2. Unsettles(s[1]) => Unwatched(s, 1)
  <2>1. InPlace(s, 1)
    BY <1>1 DEF Stacked
  <2>2. ASSUME NEW b, NEW v, s[1] = LoopHead(b, v) PROVE s[1].f = "closeHead"
    BY <2>2 DEF LoopHead, CallWith
  <2>3. Unsettles(s[1]) => s[1].f \in Unsettling \cup {"isolateCoverGrammar"}
    BY DEF Unsettles
  <2> QED
    BY <2>1, <2>2, <2>3, Quiet DEF InPlace, Unsettling
<1>3. ASSUME NEW flag \in Flags PROVE Meets(flag, c[flag], s, 1)
  <2>1. CASE flag = "strict" /\ Unsettles(s[1])
    BY <1>2, <2>1, Uncounted
  <2>2. CASE ~(flag = "strict" /\ Unsettles(s[1]))
    <3> SUFFICES ASSUME NEW j \in DOMAIN s, j > 1, s[j].f = "endItem",
                        \A k \in (1 + 1) .. (j - 1) : ~Sets(s[k], flag)
                 PROVE  Keeps(flag, c[flag], s[j].a[flag])
      BY DEF Meets
    <3>1. ~Sets(s[1], flag)
      BY <2>2 DEF Sets
    <3>2. \A k \in (0 + 1) .. (j - 1) : ~Sets(s[k], flag)
      BY <1>1, <3>1
    <3> QED
      BY <1>1, <3>2 DEF Stacked, Meets
  <2> QED
    BY <2>1, <2>2
<1>4. Labels(s, 1) = Labels(s, 0)
  <2>1. ~Sets(s[1], "labelSet")
    BY DEF Sets
  <2>2. \A l \in DOMAIN s :
          (\A k \in (0 + 1) .. (l - 1) : ~Sets(s[k], "labelSet")) <=>
            \A k \in (1 + 1) .. (l - 1) : ~Sets(s[k], "labelSet")
    BY <1>1, <2>1
  <2>3. \A l \in DOMAIN s : s[l].f = "removeLabel" => (l > 0 <=> l > 1)
    BY <1>1
  <2> QED
    BY <2>2, <2>3 DEF Labels
<1>5. c["labelSet"] = Labels(s, 0)
  BY DEF Stacked
<1> QED
  BY <1>2, <1>3, <1>4, <1>5

-----------------------------------------------------------------------------
\* A context that differs in cover flags at most.
SameFlags(c) == DOMAIN c = DOMAIN ctx /\ \A flag \in Watched : c[flag] = ctx[flag]

\* The call on top neither sets a flag nor ends an item nor removes a label.
QuietHead == todo # <<>> /\ todo[1].f \notin {"put", "endItem", "removeLabel"}

\* The plain step of the grammar: the parse stops, or harmless instructions replace the
\* call on top and no flag that is followed changes.
Goes ==
  \/ status' # "parsing" /\ todo' = <<>>
  \/ SameFlags(ctx') /\ \E is : AllHarmless(is) /\ Do(is) /\ status' = status
Moves == QuietHead /\ Goes

\* The forms in which the actions are written make plain steps.
LEMMA Steps ==
  /\ \A f : At(f) /\ f \notin {"put", "endItem", "removeLabel"} => QuietHead
  /\ \A c, v, is : SameFlags(c) /\ AllHarmless(is) /\ (Go(c, v, is) \/ GoNext(c, v, is)) => Goes
  /\ \A is : AllHarmless(is) /\ (Then(is) \/ Skip(is)) => Goes
  /\ \A n, is : AllHarmless(is) /\ Give(n, is) => Goes
  /\ \A is : AllHarmless(is) /\ Do(is) /\ ctx' = ctx /\ status' = status => Goes
  /\ throw \/ throwFormatted \/ Fail("internal error") \/ Fail("assertion error") => Goes
<1>0. \A f : At(f) /\ f \notin {"put", "endItem", "removeLabel"} => QuietHead
  BY DEF At, QuietHead
<1>2. ASSUME NEW c, NEW v, NEW is, SameFlags(c), AllHarmless(is), Go(c, v, is) \/ GoNext(c, v, is)
      PROVE  Goes
  <2>1. ctx' = c /\ Do(is) /\ status' = status
    BY <1>2 DEF Go, GoNext
  <2>2. SameFlags(ctx')
    BY <1>2, <2>1 DEF SameFlags
  <2> QED
    BY <1>2, <2>1, <2>2 DEF Goes
<1>3. ASSUME NEW is, AllHarmless(is), Do(is), ctx' = ctx, status' = status PROVE Goes
  <2>2. SameFlags(ctx')
    BY <1>3 DEF SameFlags
  <2> QED
    BY <1>3, <2>2 DEF Goes
<1>4. \A is : AllHarmless(is) /\ (Then(is) \/ Skip(is)) => Goes
  BY <1>3 DEF Then, Skip, Go, GoNext
<1>5. \A n, is : AllHarmless(is) /\ Give(n, is) => Goes
  BY <1>3 DEF Give, Go
<1>6. throw \/ throwFormatted \/ Fail("internal error") \/ Fail("assertion error") => Goes
  BY DEF throw, throwFormatted, Fail, Goes
<1> QED
  BY <1>0, <1>2, <1>3, <1>4, <1>5, <1>6

\* The changes of context that concern the cover grammars only.
LEMMA CoverChanges ==
  ASSUME DOMAIN ctx = Watched \cup Covers
  PROVE  /\ SameFlags(ctx) /\ SameFlags(Plain) /\ SameFlags(FreshCover)
         /\ \A yes : SameFlags(Assignable(ctx, yes))
         /\ \A yes : SameFlags([ctx EXCEPT !.isBindingElement = yes])
         /\ \A yes : SameFlags([ctx EXCEPT !.isAssignmentTarget = yes])
         /\ \A yes : SameFlags([ctx EXCEPT !.firstCoverInitializedNameError = yes])
BY DEF SameFlags, Plain, Assignable, FreshCover, Watched, Flags, Covers

\* The parser's small steps are plain.
LEMMA MachineMoves ==
  ASSUME DOMAIN ctx = Watched \cup Covers
  PROVE  (\/ expect \/ expectKeyword \/ commaUnless \/ expectCommaSeparator \/ consumeSemicolon
          \/ drop \/ addChild \/ build) => Moves
<1> USE Steps, Lists, Joined, Calls, CoverChanges
        DEF Moves, Simple, Marked, Unsettling, Wrappers, Indirect
<1>1. expect => Moves
  BY DEF expect
<1>2. expectKeyword => Moves
  BY DEF expectKeyword
<1>3. commaUnless => Moves
  BY DEF commaUnless
<1>4. expectCommaSeparator => Moves
  BY DEF expectCommaSeparator
<1>5. consumeSemicolon => Moves
  BY DEF consumeSemicolon
<1>6. drop => Moves
  BY DEF drop
<1>7. addChild => Moves
  BY DEF addChild
<1>8. build => Moves
  BY DEF build
<1> QED
  BY <1>1, <1>2, <1>3, <1>4, <1>5, <1>6, <1>7, <1>8

\* The actions of the expression grammar that save no flag are plain.
LEMMA ExpressionMoves ==
  ASSUME DOMAIN ctx = Watched \cup Covers
  PROVE  (\/ parsePrimaryExpression \/ asyncPrimary \/ parseSpreadElement
          \/ parseArrayInitializer \/ arrayElement \/ afterSpread \/ parseTemplateLiteral
          \/ parseTemplateElement \/ endFunction \/ checkArity \/ parseObjectPropertyKey
          \/ parseObjectInitializer \/ objectProperty \/ afterProperty \/ parseObjectProperty
          \/ identifierProperty \/ parseGroupExpression \/ groupFirst \/ arrowAhead \/ restArrow
          \/ groupNext \/ groupMore \/ groupItem \/ groupRestArrow \/ groupClosed
          \/ parseAsyncArgument \/ parseIdentifierName \/ parseNewExpression \/ newCallee
          \/ newTarget \/ newArguments \/ superMember \/ parseLeftHandSideExpression
          \/ memberOrCall \/ endCall \/ parseUpdateExpression \/ prefixUpdate \/ postfixUpdate
          \/ parseUnaryExpression \/ endUnary \/ parseExponentiationExpression \/ power
          \/ endPower \/ parseBinaryExpression \/ firstOperator \/ nextOperator
          \/ parseConditionalExpression \/ parseAssignmentExpression \/ asyncArrow
          \/ asyncParameter \/ parseYieldExpression \/ endYield \/ parseExpression \/ comma) => Moves
<1> USE Steps, Lists, Joined, Calls, CoverChanges
        DEF Moves, Simple, Marked, Unsettling, Wrappers, Indirect
<1>1. parsePrimaryExpression => Moves
  BY DEF parsePrimaryExpression
<1>2. asyncPrimary => Moves
  BY DEF asyncPrimary
<1>3. parseSpreadElement => Moves
  BY DEF parseSpreadElement
<1>4. parseArrayInitializer => Moves
  BY DEF parseArrayInitializer
<1>5. arrayElement => Moves
  BY DEF arrayElement, Hole
<1>6. afterSpread => Moves
  BY DEF afterSpread
<1>7. parseTemplateLiteral => Moves
  BY DEF parseTemplateLiteral
<1>8. parseTemplateElement => Moves
  BY DEF parseTemplateElement
<1>9. endFunction => Moves
  BY DEF endFunction
<1>10. checkArity => Moves
  BY DEF checkArity
<1>11. parseObjectPropertyKey => Moves
  BY DEF parseObjectPropertyKey
<1>12. parseObjectInitializer => Moves
  BY DEF parseObjectInitializer
<1>13. objectProperty => Moves
  BY DEF objectProperty
<1>14. afterProperty => Moves
  BY DEF afterProperty
<1>15. parseObjectProperty => Moves
  BY DEF parseObjectProperty
<1>16. identifierProperty => Moves
  BY DEF identifierProperty
<1>17. parseGroupExpression => Moves
  BY DEF parseGroupExpression
<1>18. groupFirst => Moves
  BY DEF groupFirst
<1>19. arrowAhead => Moves
  BY DEF arrowAhead
<1>20. restArrow => Moves
  BY DEF restArrow
<1>21. groupNext => Moves
  BY DEF groupNext
<1>22. groupMore => Moves
  BY DEF groupMore
<1>23. groupItem => Moves
  BY DEF groupItem
<1>24. groupRestArrow => Moves
  BY DEF groupRestArrow
<1>25. groupClosed => Moves
  BY DEF groupClosed
<1>26. parseAsyncArgument => Moves
  BY DEF parseAsyncArgument
<1>27. parseIdentifierName => Moves
  BY DEF parseIdentifierName
<1>28. parseNewExpression => Moves
  BY DEF parseNewExpression
<1>29. newCallee => Moves
  BY DEF newCallee
<1>30. newTarget => Moves
  BY DEF newTarget
<1>31. newArguments => Moves
  BY DEF newArguments
<1>32. superMember => Moves
  BY DEF superMember
<1>33. parseLeftHandSideExpression => Moves
  BY DEF parseLeftHandSideExpression, HeadExpression
<1>34. memberOrCall => Moves
  BY DEF memberOrCall
<1>35. endCall => Moves
  BY DEF endCall
<1>36. parseUpdateExpression => Moves
  BY DEF parseUpdateExpression
<1>37. prefixUpdate => Moves
  BY DEF prefixUpdate
<1>38. postfixUpdate => Moves
  BY DEF postfixUpdate
<1>39. parseUnaryExpression => Moves
  BY DEF parseUnaryExpression
<1>40. endUnary => Moves
  BY DEF endUnary
<1>41. parseExponentiationExpression => Moves
  BY DEF parseExponentiationExpression
<1>42. power => Moves
  BY DEF power
<1>43. endPower => Moves
  BY DEF endPower
<1>44. parseBinaryExpression => Moves
  BY DEF parseBinaryExpression
<1>45. firstOperator => Moves
  BY DEF firstOperator
<1>46. nextOperator => Moves
  BY DEF nextOperator
<1>47. parseConditionalExpression => Moves
  BY DEF parseConditionalExpression
<1>48. parseAssignmentExpression => Moves
  BY DEF parseAssignmentExpression
<1>49. asyncArrow => Moves
  BY DEF asyncArrow
<1>50. asyncParameter => Moves
  BY DEF asyncParameter
<1>51. parseYieldExpression => Moves
  BY DEF parseYieldExpression
<1>52. endYield => Moves
  BY DEF endYield
<1>53. parseExpression => Moves
  BY DEF parseExpression
<1>54. comma => Moves
  BY DEF comma
<1> QED
  BY <1>1, <1>2, <1>3, <1>4, <1>5, <1>6, <1>7, <1>8, <1>9, <1>10, <1>11, <1>12, <1>13, <1>14,
     <1>15, <1>16, <1>17, <1>18, <1>19, <1>20, <1>21, <1>22, <1>23, <1>24, <1>25, <1>26, <1>27,
     <1>28, <1>29, <1>30, <1>31, <1>32, <1>33, <1>34, <1>35, <1>36, <1>37, <1>38, <1>39, <1>40,
     <1>41, <1>42, <1>43, <1>44, <1>45, <1>46, <1>47, <1>48, <1>49, <1>50, <1>51, <1>52, <1>53,
     <1>54

\* The functions parseStatement chooses among are simple calls.
LEMMA StatementNames == \A v \in DOMAIN StatementFunction : Simple(StatementFunction[v])
<1>1. DOMAIN StatementFunction
        = {"break", "continue", "debugger", "do", "for", "function", "if", "return", "switch",
           "throw", "try", "var", "while", "with"}
  BY DEF StatementFunction
<1>2. /\ StatementFunction["break"] = "parseBreakStatement"
      /\ StatementFunction["continue"] = "parseContinueStatement"
      /\ StatementFunction["debugger"] = "parseDebuggerStatement"
      /\ StatementFunction["do"] = "parseDoWhileStatement"
      /\ StatementFunction["for"] = "parseForStatement"
      /\ StatementFunction["function"] = "functionItem"
      /\ StatementFunction["if"] = "parseIfStatement"
      /\ StatementFunction["return"] = "parseReturnStatement"
      /\ StatementFunction["switch"] = "parseSwitchStatement"
      /\ StatementFunction["throw"] = "parseThrowStatement"
      /\ StatementFunction["try"] = "parseTryStatement"
      /\ StatementFunction["var"] = "declarationStatement"
      /\ StatementFunction["while"] = "parseWhileStatement"
      /\ StatementFunction["with"] = "parseWithStatement"
  BY DEF StatementFunction
<1> QED
  BY <1>1, <1>2 DEF Simple, Marked, Unsettling, Wrappers, Indirect

\* The actions of the statement grammar that save no flag are plain.
LEMMA StatementMoves ==
  ASSUME DOMAIN ctx = Watched \cup Covers
  PROVE  (\/ openNames \/ dropNames \/ parseVariableIdentifier \/ parsePattern
          \/ parseArrayPattern \/ patternElement \/ parsePatternWithDefault
          \/ parseObjectPattern \/ patternProperty \/ parsePropertyPattern \/ shorthandPattern
          \/ parseRestElement \/ endRest \/ nextDeclarator \/ declarator \/ declared
          \/ lexicalInit \/ variableInit \/ declarationStatement \/ parseFormalParameters
          \/ formals \/ endParameter \/ parseFunctionDeclaration \/ parseDefaultFunction
          \/ parseFunctionExpression \/ functionStar \/ statements \/ functionItem \/ classItem
          \/ importItem \/ letItem \/ parseStatement \/ asyncStatement \/ parseBlock
          \/ parseExpressionStatement \/ parseIfClause \/ parseIfStatement \/ elseClause
          \/ parseWithStatement \/ optionalSemicolon \/ parseForStatement \/ forTest
          \/ parseContinueStatement \/ parseBreakStatement \/ jumpTarget \/ knownLabel
          \/ allowedJump \/ parseReturnStatement \/ returnArgument \/ switchCase
          \/ secondDefault \/ caseStatements \/ parseLabelledStatement \/ labelled
          \/ labelledFunction \/ parseThrowStatement \/ throwArgument \/ parseTryStatement
          \/ catchOrFinally \/ finallyClause \/ catchParameter \/ catchPattern
          \/ endCatchPattern \/ parseDebuggerStatement) => Moves
<1> USE Steps, Lists, Joined, Calls, CoverChanges
        DEF Moves, Simple, Marked, Unsettling, Wrappers, Indirect
<1>1. openNames => Moves
  BY DEF openNames
<1>2. dropNames => Moves
  BY DEF dropNames
<1>3. parseVariableIdentifier => Moves
  BY DEF parseVariableIdentifier
<1>4. parsePattern => Moves
  BY DEF parsePattern
<1>5. parseArrayPattern => Moves
  BY DEF parseArrayPattern
<1>6. patternElement => Moves
  BY DEF patternElement
<1>7. parsePatternWithDefault => Moves
  BY DEF parsePatternWithDefault
<1>8. parseObjectPattern => Moves
  BY DEF parseObjectPattern
<1>9. patternProperty => Moves
  BY DEF patternProperty
<1>10. parsePropertyPattern => Moves
  BY DEF parsePropertyPattern
<1>11. shorthandPattern => Moves
  BY DEF shorthandPattern
<1>12. parseRestElement => Moves
  BY DEF parseRestElement
<1>13. endRest => Moves
  BY DEF endRest
<1>14. nextDeclarator => Moves
  BY DEF nextDeclarator, Declarations
<1>15. declarator => Moves
  BY DEF declarator
<1>16. declared => Moves
  BY DEF declared
<1>17. lexicalInit => Moves
  BY DEF lexicalInit, Initializer
<1>18. variableInit => Moves
  BY DEF variableInit, Initializer
<1>19. declarationStatement => Moves
  BY DEF declarationStatement, Declarations
<1>20. parseFormalParameters => Moves
  BY DEF parseFormalParameters
<1>21. formals => Moves
  BY DEF formals
<1>22. endParameter => Moves
  BY DEF endParameter
<1>23. parseFunctionDeclaration => Moves
  BY DEF parseFunctionDeclaration, functionKeyword
<1>24. parseDefaultFunction => Moves
  BY DEF parseDefaultFunction, functionKeyword
<1>25. parseFunctionExpression => Moves
  BY DEF parseFunctionExpression, functionKeyword
<1>26. functionStar => Moves
  BY DEF functionStar
<1>27. statements => Moves
  BY DEF statements
<1>28. functionItem => Moves
  BY DEF functionItem
<1>29. classItem => Moves
  BY DEF classItem
<1>30. importItem => Moves
  BY DEF importItem
<1>31. letItem => Moves
  BY DEF letItem
<1>32. parseStatement => Moves
  <2> QED
    BY StatementNames DEF parseStatement
<1>33. asyncStatement => Moves
  BY DEF asyncStatement
<1>34. parseBlock => Moves
  BY DEF parseBlock
<1>35. parseExpressionStatement => Moves
  BY DEF parseExpressionStatement
<1>36. parseIfClause => Moves
  BY DEF parseIfClause
<1>37. parseIfStatement => Moves
  BY DEF parseIfStatement, Headed
<1>38. elseClause => Moves
  BY DEF elseClause
<1>39. parseWithStatement => Moves
  BY DEF parseWithStatement, Headed
<1>40. optionalSemicolon => Moves
  BY DEF optionalSemicolon
<1>41. parseForStatement => Moves
  BY DEF parseForStatement
<1>42. forTest => Moves
  BY DEF forTest
<1>43. parseContinueStatement => Moves
  BY DEF parseContinueStatement, jump
<1>44. parseBreakStatement => Moves
  BY DEF parseBreakStatement, jump
<1>45. jumpTarget => Moves
  BY DEF jumpTarget
<1>46. knownLabel => Moves
  BY DEF knownLabel
<1>47. allowedJump => Moves
  BY DEF allowedJump
<1>48. parseReturnStatement => Moves
  BY DEF parseReturnStatement
<1>49. returnArgument => Moves
  BY DEF returnArgument
<1>50. switchCase => Moves
  BY DEF switchCase
<1>51. secondDefault => Moves
  BY DEF secondDefault
<1>52. caseStatements => Moves
  BY DEF caseStatements
<1>53. parseLabelledStatement => Moves
  BY DEF parseLabelledStatement
<1>54. labelled => Moves
  BY DEF labelled
<1>55. labelledFunction => Moves
  BY DEF labelledFunction
<1>56. parseThrowStatement => Moves
  BY DEF parseThrowStatement
<1>57. throwArgument => Moves
  BY DEF throwArgument
<1>58. parseTryStatement => Moves
  BY DEF parseTryStatement
<1>59. catchOrFinally => Moves
  BY DEF catchOrFinally
<1>60. finallyClause => Moves
  BY DEF finallyClause
<1>61. catchParameter => Moves
  BY DEF catchParameter
<1>62. catchPattern => Moves
  BY DEF catchPattern
<1>63. endCatchPattern => Moves
  BY DEF endCatchPattern
<1>64. parseDebuggerStatement => Moves
  BY DEF parseDebuggerStatement
<1> QED
  BY <1>1, <1>2, <1>3, <1>4, <1>5, <1>6, <1>7, <1>8, <1>9, <1>10, <1>11, <1>12, <1>13, <1>14,
     <1>15, <1>16, <1>17, <1>18, <1>19, <1>20, <1>21, <1>22, <1>23, <1>24, <1>25, <1>26, <1>27,
     <1>28, <1>29, <1>30, <1>31, <1>32, <1>33, <1>34, <1>35, <1>36, <1>37, <1>38, <1>39, <1>40,
     <1>41, <1>42, <1>43, <1>44, <1>45, <1>46, <1>47, <1>48, <1>49, <1>50, <1>51, <1>52, <1>53,
     <1>54, <1>55, <1>56, <1>57, <1>58, <1>59, <1>60, <1>61, <1>62, <1>63, <1>64

\* The actions for classes, imports and exports that save no flag are plain.
LEMMA ModuleMoves ==
  ASSUME DOMAIN ctx = Watched \cup Covers
  PROVE  (\/ parseClassExpression \/ className \/ heritage \/ classElement \/ elementKey
          \/ asyncElement \/ endElement \/ parseModuleSpecifier \/ fromClause
          \/ parseNamedImports \/ namedImport \/ parseImportSpecifier \/ importAs
          \/ parseImportNamespaceSpecifier \/ namespaceAs \/ parseImportDeclaration
          \/ importClause \/ afterDefaultImport \/ moreImports \/ parseExportDeclaration
          \/ exported \/ exportDefault \/ exportDefaultAsync \/ exportAsync \/ exportSpecifiers
          \/ afterDefaultExport \/ exportBraces \/ exportSpecifier \/ exportAs \/ endExport
          \/ program) => Moves
<1> USE Steps, Lists, Joined, Calls, CoverChanges
        DEF Moves, Simple, Marked, Unsettling, Wrappers, Indirect
<1>1. parseClassExpression => Moves
  BY DEF parseClassExpression
<1>2. className => Moves
  BY DEF className
<1>3. heritage => Moves
  BY DEF heritage
<1>4. classElement => Moves
  BY DEF classElement
<1>5. elementKey => Moves
  BY DEF elementKey
<1>6. asyncElement => Moves
  BY DEF asyncElement
<1>7. endElement => Moves
  BY DEF endElement
<1>8. parseModuleSpecifier => Moves
  BY DEF parseModuleSpecifier
<1>9. fromClause => Moves
  BY DEF fromClause, throwContent
<1>10. parseNamedImports => Moves
  BY DEF parseNamedImports
<1>11. namedImport => Moves
  BY DEF namedImport
<1>12. parseImportSpecifier => Moves
  BY DEF parseImportSpecifier
<1>13. importAs => Moves
  BY DEF importAs
<1>14. parseImportNamespaceSpecifier => Moves
  BY DEF parseImportNamespaceSpecifier
<1>15. namespaceAs => Moves
  BY DEF namespaceAs
<1>16. parseImportDeclaration => Moves
  BY DEF parseImportDeclaration
<1>17. importClause => Moves
  BY DEF importClause
<1>18. afterDefaultImport => Moves
  BY DEF afterDefaultImport
<1>19. moreImports => Moves
  BY DEF moreImports
<1>20. parseExportDeclaration => Moves
  BY DEF parseExportDeclaration
<1>21. exported => Moves
  BY DEF exported
<1>22. exportDefault => Moves
  BY DEF exportDefault, throwContent
<1>23. exportDefaultAsync => Moves
  BY DEF exportDefaultAsync
<1>24. exportAsync => Moves
  BY DEF exportAsync
<1>25. exportSpecifiers => Moves
  BY DEF exportSpecifiers
<1>26. afterDefaultExport => Moves
  BY DEF afterDefaultExport
<1>27. exportBraces => Moves
  BY DEF exportBraces
<1>28. exportSpecifier => Moves
  BY DEF exportSpecifier
<1>29. exportAs => Moves
  BY DEF exportAs
<1>30. endExport => Moves
  BY DEF endExport
<1>31. program => Moves
  <2>1. CASE AtEnd
    BY <2>1 DEF program, Goes
  <2>2. CASE ~AtEnd
    BY <2>2 DEF program
  <2> QED
    BY <2>1, <2>2
<1> QED
  BY <1>1, <1>2, <1>3, <1>4, <1>5, <1>6, <1>7, <1>8, <1>9, <1>10, <1>11, <1>12, <1>13, <1>14,
     <1>15, <1>16, <1>17, <1>18, <1>19, <1>20, <1>21, <1>22, <1>23, <1>24, <1>25, <1>26, <1>27,
     <1>28, <1>29, <1>30, <1>31

-----------------------------------------------------------------------------
\* An instruction that may run between the setting of the flags of r and their return.
Before(x, r) ==
  \/ Harmless(x)
  \/ x.f = "put" /\ DOMAIN x.a \subseteq DOMAIN r \cap Flags
  \/ Unsettles(x) /\ ("strict" \in DOMAIN r \/ Unwatched(todo, 1))

\* A list that puts the flags of r back after what may have changed them.
Restoring(is, r) ==
  /\ is \in Seq(Range(is))
  /\ \E m \in DOMAIN is :
       /\ is[m] = Put(r)
       /\ \A i \in DOMAIN is : (i < m => Before(is[i], r)) /\ (i > m => Harmless(is[i]))

\* A context in which only the flags of r are other than now, where r holds their present
\* values; a label set is only ever replaced by none.
Within(c, r) ==
  /\ DOMAIN c = DOMAIN ctx /\ DOMAIN r \subseteq Watched
  /\ \A flag \in DOMAIN r : r[flag] = ctx[flag]
  /\ \A flag \in Flags \ DOMAIN r : c[flag] = ctx[flag]
  /\ c["labelSet"] = IF "labelSet" \in DOMAIN r THEN {} ELSE ctx["labelSet"]

\* An instruction that needs nothing put back after it: harmless, or one that reads
\* directives where nobody counts on `strict`, or the getter's loss of allowYield, or a
\* loop that restores what it sets.
Passes(x) ==
  \/ Harmless(x)
  \/ Unsettles(x) /\ Unwatched(todo, 1)
  \/ x = Put([allowYield |-> FALSE])
  \/ \E b : x = LoopHead(b, ctx.inIteration) /\ Harmless(b)

\* A list of such instructions.
AllPass(is) == is \in Seq(Range(is)) /\ \A x \in Range(is) : Passes(x)

\* A context that has the flags of now, save a `strict` that nobody counts on.
Keeping(c) ==
  /\ DOMAIN c = DOMAIN ctx /\ c["labelSet"] = ctx["labelSet"]
  /\ \A flag \in Flags : c[flag] = ctx[flag] \/ (flag = "strict" /\ Unwatched(todo, 1))

\* What harmless and unsettling instructions do not set.
LEMMA NoSetter ==
  /\ \A x, flag : Harmless(x) /\ flag \in Watched => ~Sets(x, flag)
  /\ \A x : Unsettles(x) => x.f # "put"
  /\ \A x : Unsettles(x) => ~Sets(x, "labelSet")
<1>1. \A x : Unsettles(x) => x.f # "put"
  BY DEF Unsettles, Unsettling
<1>2. \A x : Unsettles(x) => ~Sets(x, "labelSet")
  BY <1>1 DEF Sets
<1>3. ASSUME NEW x, NEW flag \in Watched, Harmless(x) PROVE ~Sets(x, flag)
  <2>1. x.f # "put" \/ DOMAIN x.a \subseteq Covers
    BY <1>3 DEF Harmless, Simple, Marked, Wrappers, Indirect
  <2>2. flag \notin Covers
    BY DEF Watched, Flags, Covers
  <2> QED
    BY <1>3, <2>1, <2>2, Quiet DEF Sets
<1> QED
  BY <1>1, <1>2, <1>3

\* The invariant after a step that pushes what fits.
LEMMA Resumed ==
  ASSUME IInv, status = "parsing", QuietHead, NEW is, is \in Seq(Range(is)), Do(is),
         status' = status, DOMAIN ctx' = DOMAIN ctx,
         \A i \in DOMAIN is : Fits(is, i, todo),
         \A flag \in Flags :
           \/ SetAfter(is, 0, flag) \/ ctx'[flag] = ctx[flag]
           \/ flag = "strict" /\ Unwatched(todo, 1),
         ctx'["labelSet"] = IF SetAfter(is, 0, "labelSet") THEN {} ELSE ctx["labelSet"]
  PROVE  IInv'
<1>1. Stacked(ctx, todo) /\ todo # <<>> /\ todo' = is \o Tail(todo)
  BY DEF IInv, QuietHead, Do
<1>2. /\ \A flag \in Flags : Meets(flag, ctx[flag], todo, 1)
      /\ Labels(todo, 1) = ctx["labelSet"]
  BY <1>1, Heading DEF QuietHead
<1>3. /\ todo \in Seq(Range(todo)) /\ \A j \in DOMAIN todo : InPlace(todo, j)
      /\ DOMAIN ctx = Watched \cup Covers
  BY <1>1 DEF Stacked
<1>4. \A flag \in Flags : SetAfter(is, 0, flag) \/ Meets(flag, ctx'[flag], todo, 1)
  BY <1>2, Uncounted
<1>5. Stacked(ctx', todo')
  BY <1>1, <1>2, <1>3, <1>4, Pushed
<1> QED
  BY <1>5 DEF IInv

\* The invariant after a step that pushes a list that passes.
LEMMA Passing ==
  ASSUME IInv, status = "parsing", QuietHead, NEW is, AllPass(is), Do(is), status' = status,
         Keeping(ctx')
  PROVE  IInv'
<1>1. is \in Seq(Range(is)) /\ DOMAIN ctx' = DOMAIN ctx
  BY DEF AllPass, Keeping
<1>2. ASSUME NEW i \in DOMAIN is PROVE Fits(is, i, todo) /\ ~Sets(is[i], "labelSet")
  <2>1. Passes(is[i])
    BY DEF AllPass, Range
  <2>2. CASE Harmless(is[i])
    BY <2>2, NoSetter DEF Fits, Watched
  <2>3. CASE Unsettles(is[i]) /\ Unwatched(todo, 1)
    BY <2>3, NoSetter DEF Fits
  <2>4. CASE is[i] = Put([allowYield |-> FALSE])
    <3>1. is[i].f = "put" /\ DOMAIN is[i].a = {"allowYield"} /\ is[i].a["allowYield"] = FALSE
      BY <2>4 DEF Put, CallWith
    <3>2. Meets("allowYield", FALSE, todo, 1)
      BY DEF Meets, Keeps
    <3>3. {"allowYield"} \subseteq Watched \cup Covers /\ "labelSet" \notin {"allowYield"}
      BY DEF Watched, Flags
    <3>4. ~Unsettles(is[i])
      BY <3>1, NoSetter
    <3> QED
      BY <3>1, <3>2, <3>3, <3>4 DEF Fits, Sets
  <2>5. ASSUME NEW b, is[i] = LoopHead(b, ctx.inIteration), Harmless(b)
        PROVE  Fits(is, i, todo) /\ ~Sets(is[i], "labelSet")
    <3>1. Meets("inIteration", ctx.inIteration, todo, 1)
      <4>1. Stacked(ctx, todo) /\ todo # <<>>
        BY DEF IInv, QuietHead
      <4>2. "inIteration" \in Flags
        BY DEF Flags
      <4> QED
        BY <4>1, <4>2, Heading DEF QuietHead
    <3>2. is[i].f = "closeHead"
      BY <2>5 DEF LoopHead, CallWith
    <3> QED
      BY <2>5, <3>1, <3>2 DEF Fits, Sets
  <2> QED
    BY <2>1, <2>2, <2>3, <2>4, <2>5 DEF Passes
<1>3. ~SetAfter(is, 0, "labelSet")
  <2>1. Len(is) \in Nat /\ DOMAIN is = 1 .. Len(is)
    BY <1>1
  <2> QED
    BY <1>2, <2>1 DEF SetAfter
<1>4. /\ \A flag \in Flags : ctx'[flag] = ctx[flag] \/ (flag = "strict" /\ Unwatched(todo, 1))
      /\ ctx'["labelSet"] = ctx["labelSet"]
  BY DEF Keeping
<1> QED
  BY <1>1, <1>2, <1>3, <1>4, Resumed

\* The invariant after a plain step.
LEMMA Moved ==
  ASSUME IInv, status = "parsing", Moves
  PROVE  IInv'
<1>1. CASE status' # "parsing" /\ todo' = <<>>
  BY <1>1 DEF IInv
<1>2. ASSUME NEW is, AllHarmless(is), Do(is), status' = status, SameFlags(ctx')
      PROVE  IInv'
  <2>1. AllPass(is)
    BY <1>2 DEF AllHarmless, AllPass, Passes
  <2>2. Keeping(ctx')
    BY <1>2 DEF SameFlags, Keeping, Watched
  <2> QED
    BY <1>2, <2>1, <2>2, Passing DEF Moves
<1> QED
  BY <1>1, <1>2 DEF Moves, Goes

\* The invariant after a step that changes flags and pushes their return.
LEMMA Restored ==
  ASSUME IInv, status = "parsing", QuietHead, NEW is, NEW r, Restoring(is, r), Within(ctx', r),
         Do(is), status' = status
  PROVE  IInv'
<1>1. PICK m \in DOMAIN is :
        /\ is[m] = Put(r)
        /\ \A i \in DOMAIN is : (i < m => Before(is[i], r)) /\ (i > m => Harmless(is[i]))
  BY DEF Restoring
<1>2. /\ is \in Seq(Range(is)) /\ Len(is) \in Nat /\ DOMAIN is = 1 .. Len(is)
  BY DEF Restoring
<1>3. is[m].f = "put" /\ is[m].a = r
  BY <1>1 DEF Put, CallWith
<1>4. /\ \A flag \in Flags : Meets(flag, ctx[flag], todo, 1)
      /\ Labels(todo, 1) = ctx["labelSet"]
  <2>1. Stacked(ctx, todo) /\ todo # <<>>
    BY DEF IInv, QuietHead
  <2> QED
    BY <2>1, Heading DEF QuietHead
<1>5. \A flag \in DOMAIN r : \A i \in 0 .. (m - 1) : SetAfter(is, i, flag)
  BY <1>2, <1>3 DEF SetAfter, Sets
<1>6. "labelSet" \notin Flags /\ "strict" \in Flags
  BY DEF Flags
<1>7. ASSUME NEW i \in DOMAIN is, i # m PROVE ~Sets(is[i], "labelSet")
  <2>1. i < m \/ i > m
    BY <1>2, <1>7
  <2>2. Before(is[i], r)
    BY <1>1, <2>1 DEF Before
  <2> QED
    BY <1>6, <2>2, NoSetter DEF Before, Sets, Watched
<1>8. ASSUME NEW i \in DOMAIN is PROVE Fits(is, i, todo)
  <2>1. CASE i < m
    <3>1. i \in 0 .. (m - 1)
      BY <1>2, <2>1
    <3>2. Before(is[i], r)
      BY <1>1, <2>1
    <3>3. \A flag \in DOMAIN r : SetAfter(is, i, flag)
      BY <1>5, <3>1
    <3> QED
      BY <1>6, <3>2, <3>3 DEF Before, Fits, Watched
  <2>2. CASE i = m
    <3>1. ~SetAfter(is, m, "labelSet")
      BY <1>2, <1>7 DEF SetAfter
    <3>2. DOMAIN r \subseteq Watched /\ \A flag \in DOMAIN r : r[flag] = ctx[flag]
      BY DEF Within
    <3> QED
      BY <1>3, <1>4, <2>2, <3>1, <3>2 DEF Fits
  <2>3. CASE i > m
    BY <1>1, <2>3 DEF Fits
  <2> QED
    BY <1>2, <2>1, <2>2, <2>3
<1>9. 0 \in 0 .. (m - 1)
  BY <1>2
<1>10. \A flag \in Flags :
         SetAfter(is, 0, flag) \/ ctx'[flag] = ctx[flag]
  BY <1>5, <1>9 DEF Within
<1>11. ctx'["labelSet"] = IF SetAfter(is, 0, "labelSet") THEN {} ELSE ctx["labelSet"]
  <2>1. CASE "labelSet" \in DOMAIN r
    BY <1>5, <1>9, <2>1 DEF Within
  <2>2. CASE "labelSet" \notin DOMAIN r
    <3>1. ~Sets(is[m], "labelSet")
      BY <1>3, <2>2, NoSetter DEF Sets
    <3>2. ~SetAfter(is, 0, "labelSet")
      BY <1>2, <1>7, <3>1 DEF SetAfter
    <3> QED
      BY <2>2, <3>2 DEF Within
  <2> QED
    BY <2>1, <2>2
<1>12. DOMAIN ctx' = DOMAIN ctx
  BY DEF Within
<1> QED
  BY <1>2, <1>8, <1>10, <1>11, <1>12, Resumed

-----------------------------------------------------------------------------
\* A list of instructions that may run before the flags of r are put back.
AllBefore(is, r) == is \in Seq(Range(is)) /\ \A x \in Range(is) : Before(x, r)

\* The elements of two sequences, one after the other.
LEMMA Concatenated ==
  ASSUME NEW a, NEW b, a \in Seq(Range(a)), b \in Seq(Range(b))
  PROVE  /\ a \o b \in Seq(Range(a \o b)) /\ Range(a \o b) = Range(a) \cup Range(b)
         /\ Len(a) \in Nat /\ Len(b) \in Nat /\ DOMAIN a = 1 .. Len(a) /\ DOMAIN b = 1 .. Len(b)
         /\ DOMAIN (a \o b) = 1 .. (Len(a) + Len(b))
         /\ \A i \in 1 .. Len(a) : (a \o b)[i] = a[i]
         /\ \A i \in 1 .. Len(b) : (a \o b)[Len(a) + i] = b[i]
<1> DEFINE S == Range(a) \cup Range(b)
<1>1. a \in Seq(S) /\ b \in Seq(S)
  OBVIOUS
<1>2. /\ a \o b \in Seq(S) /\ Len(a \o b) = Len(a) + Len(b)
      /\ \A i \in 1 .. Len(a) + Len(b) : (a \o b)[i] = IF i <= Len(a) THEN a[i] ELSE b[i - Len(a)]
  BY <1>1
<1>3. a \o b \in Seq(Range(a \o b))
  BY <1>2, OwnRange
<1>4. Len(a) \in Nat /\ Len(b) \in Nat /\ DOMAIN a = 1 .. Len(a) /\ DOMAIN b = 1 .. Len(b)
  BY <1>1
<1>5. DOMAIN (a \o b) = 1 .. (Len(a) + Len(b))
  BY <1>2, <1>4
<1>6. \A i \in 1 .. Len(a) : (a \o b)[i] = a[i]
  BY <1>2, <1>4
<1>7. \A i \in 1 .. Len(b) : (a \o b)[Len(a) + i] = b[i]
  <2> SUFFICES ASSUME NEW i \in 1 .. Len(b) PROVE (a \o b)[Len(a) + i] = b[i]
    OBVIOUS
  <2>1. PICK j \in 1 .. Len(a) + Len(b) : j = Len(a) + i /\ ~(j <= Len(a)) /\ j - Len(a) = i
    BY <1>4
  <2> QED
    BY <1>2, <2>1
<1>8. Range(a \o b) = Range(a) \cup Range(b)
  <2>1. ASSUME NEW i \in DOMAIN (a \o b) PROVE (a \o b)[i] \in S
    BY <1>2, <1>5
  <2>2. ASSUME NEW i \in DOMAIN a PROVE a[i] \in Range(a \o b)
    <3>1. i \in DOMAIN (a \o b)
      BY <1>4, <1>5
    <3> QED
      BY <1>4, <1>6, <3>1 DEF Range
  <2>3. ASSUME NEW i \in DOMAIN b PROVE b[i] \in Range(a \o b)
    <3>1. PICK k \in DOMAIN (a \o b) : k = Len(a) + i
      BY <1>4, <1>5
    <3> QED
      BY <1>4, <1>7, <3>1 DEF Range
  <2> QED
    BY <2>1, <2>2, <2>3 DEF Range
<1> QED
  BY <1>3, <1>4, <1>5, <1>6, <1>7, <1>8

\* The shortest list that restores.
LEMMA Closing == \A r : Restoring(<<Put(r)>>, r)
<1> SUFFICES ASSUME NEW r PROVE Restoring(<<Put(r)>>, r)
  OBVIOUS
<1>1. <<Put(r)>> \in Seq(Range(<<Put(r)>>))
  BY Tuples
<1>2. DOMAIN <<Put(r)>> = {1} /\ <<Put(r)>>[1] = Put(r)
  OBVIOUS
<1> QED
  BY <1>1, <1>2 DEF Restoring

\* What may run before the flags are put back can be pushed in front.
LEMMA Leading ==
  ASSUME NEW r, NEW a, NEW b, AllBefore(a, r), Restoring(b, r)
  PROVE  Restoring(a \o b, r)
<1>1. a \in Seq(Range(a)) /\ b \in Seq(Range(b))
  BY DEF AllBefore, Restoring
<1>2. /\ a \o b \in Seq(Range(a \o b))
      /\ Len(a) \in Nat /\ Len(b) \in Nat /\ DOMAIN a = 1 .. Len(a) /\ DOMAIN b = 1 .. Len(b)
      /\ DOMAIN (a \o b) = 1 .. (Len(a) + Len(b))
      /\ \A i \in 1 .. Len(a) : (a \o b)[i] = a[i]
      /\ \A i \in 1 .. Len(b) : (a \o b)[Len(a) + i] = b[i]
  BY <1>1, Concatenated
<1>3. PICK m \in DOMAIN b :
        /\ b[m] = Put(r)
        /\ \A i \in DOMAIN b : (i < m => Before(b[i], r)) /\ (i > m => Harmless(b[i]))
  BY DEF Restoring
<1>4. PICK n \in DOMAIN (a \o b) : n = Len(a) + m
  BY <1>2
<1>5. ASSUME NEW i \in DOMAIN (a \o b), i < n PROVE Before((a \o b)[i], r)
  <2>1. CASE i \in DOMAIN a
    BY <1>2, <2>1 DEF AllBefore, Range
  <2>2. CASE i \notin DOMAIN a
    <3>1. PICK k \in DOMAIN b : i = Len(a) + k /\ k < m
      <4>1. i - Len(a) \in DOMAIN b /\ i = Len(a) + (i - Len(a)) /\ i - Len(a) < m
        BY <1>2, <1>4, <1>5, <2>2
      <4> QED
        BY <4>1
    <3> QED
      BY <1>2, <1>3, <3>1
  <2> QED
    BY <2>1, <2>2
<1>6. ASSUME NEW i \in DOMAIN (a \o b), i > n PROVE Harmless((a \o b)[i])
  <2>1. PICK k \in DOMAIN b : i = Len(a) + k /\ k > m
    <3>1. i - Len(a) \in DOMAIN b /\ i = Len(a) + (i - Len(a)) /\ i - Len(a) > m
      BY <1>2, <1>4, <1>6
    <3> QED
      BY <3>1
  <2> QED
    BY <1>2, <1>3, <2>1
<1> QED
  BY <1>2, <1>3, <1>4, <1>5, <1>6 DEF Restoring

\* Harmless instructions can follow.
LEMMA Trailing ==
  ASSUME NEW r, NEW a, NEW b, Restoring(a, r), AllHarmless(b)
  PROVE  Restoring(a \o b, r)
<1>1. a \in Seq(Range(a)) /\ b \in Seq(Range(b))
  BY DEF AllHarmless, Restoring
<1>2. /\ a \o b \in Seq(Range(a \o b))
      /\ Len(a) \in Nat /\ Len(b) \in Nat /\ DOMAIN a = 1 .. Len(a) /\ DOMAIN b = 1 .. Len(b)
      /\ DOMAIN (a \o b) = 1 .. (Len(a) + Len(b))
      /\ \A i \in 1 .. Len(a) : (a \o b)[i] = a[i]
      /\ \A i \in 1 .. Len(b) : (a \o b)[Len(a) + i] = b[i]
  BY <1>1, Concatenated
<1>3. PICK m \in DOMAIN a :
        /\ a[m] = Put(r)
        /\ \A i \in DOMAIN a : (i < m => Before(a[i], r)) /\ (i > m => Harmless(a[i]))
  BY DEF Restoring
<1>4. m \in DOMAIN (a \o b)
  BY <1>2
<1>5. ASSUME NEW i \in DOMAIN (a \o b), i < m PROVE Before((a \o b)[i], r)
  BY <1>2, <1>3, <1>5
<1>6. ASSUME NEW i \in DOMAIN (a \o b), i > m PROVE Harmless((a \o b)[i])
  <2>1. CASE i \in DOMAIN a
    BY <1>2, <1>3, <1>6, <2>1
  <2>2. CASE i \notin DOMAIN a
    <3>1. PICK k \in DOMAIN b : i = Len(a) + k
      <4>1. i - Len(a) \in DOMAIN b /\ i = Len(a) + (i - Len(a))
        BY <1>2, <2>2
      <4> QED
        BY <4>1
    <3> QED
      BY <1>2, <3>1 DEF AllHarmless, Range
  <2> QED
    BY <2>1, <2>2
<1> QED
  BY <1>2, <1>3, <1>4, <1>5, <1>6 DEF Restoring

\* Lists of what may run before, written out.
LEMMA BeforeLists ==
  ASSUME NEW r
  PROVE
  /\ \A a : Before(a, r) => AllBefore(<<a>>, r)
  /\ \A a, b : Before(a, r) /\ Before(b, r) => AllBefore(<<a, b>>, r)
  /\ \A a, b, c : Before(a, r) /\ Before(b, r) /\ Before(c, r) => AllBefore(<<a, b, c>>, r)
  /\ \A a, b, c, d :
       Before(a, r) /\ Before(b, r) /\ Before(c, r) /\ Before(d, r)
         => AllBefore(<<a, b, c, d>>, r)
  /\ \A a, b, c, d, e :
       Before(a, r) /\ Before(b, r) /\ Before(c, r) /\ Before(d, r) /\ Before(e, r)
         => AllBefore(<<a, b, c, d, e>>, r)
  /\ \A a, b, c, d, e, f :
       Before(a, r) /\ Before(b, r) /\ Before(c, r) /\ Before(d, r)
       /\ Before(e, r) /\ Before(f, r)
         => AllBefore(<<a, b, c, d, e, f>>, r)
  /\ \A a, b, c, d, e, f, g :
       Before(a, r) /\ Before(b, r) /\ Before(c, r) /\ Before(d, r)
       /\ Before(e, r) /\ Before(f, r) /\ Before(g, r)
         => AllBefore(<<a, b, c, d, e, f, g>>, r)
BY Tuples DEF AllBefore

\* One call between the setting of flags and their return.
LEMMA Enclosing ==
  ASSUME NEW r
  PROVE  /\ \A x : Before(x, r) => Restoring(<<x, Put(r)>>, r)
         /\ \A x, y : Before(x, r) /\ Harmless(y) => Restoring(<<x, Put(r), y>>, r)
<1>1. ASSUME NEW x, Before(x, r) PROVE Restoring(<<x, Put(r)>>, r)
  <2>1. <<x, Put(r)>> = <<x>> \o <<Put(r)>>
    OBVIOUS
  <2>2. AllBefore(<<x>>, r)
    BY <1>1, BeforeLists
  <2> QED
    BY <2>1, <2>2, Closing, Leading
<1>2. ASSUME NEW x, NEW y, Before(x, r), Harmless(y) PROVE Restoring(<<x, Put(r), y>>, r)
  <2>1. <<x, Put(r), y>> = <<x, Put(r)>> \o <<y>>
    OBVIOUS
  <2>2. AllHarmless(<<y>>)
    BY <1>2, Lists
  <2>3. Restoring(<<x, Put(r)>>, r)
    BY <1>1, <1>2
  <2> QED
    BY <2>1, <2>2, <2>3, Trailing
<1> QED
  BY <1>1, <1>2

\* Lists of what passes, written out and joined.
LEMMA PassLists ==
  /\ \A is : AllHarmless(is) => AllPass(is)
  /\ \A a, b : AllPass(a) /\ AllPass(b) => AllPass(a \o b)
  /\ \A a : Passes(a) => AllPass(<<a>>)
  /\ \A a, b : Passes(a) /\ Passes(b) => AllPass(<<a, b>>)
  /\ \A a, b, c : Passes(a) /\ Passes(b) /\ Passes(c) => AllPass(<<a, b, c>>)
  /\ \A a, b, c, d : Passes(a) /\ Passes(b) /\ Passes(c) /\ Passes(d) => AllPass(<<a, b, c, d>>)
<1>1. \A is : AllHarmless(is) => AllPass(is)
  BY DEF AllHarmless, AllPass, Passes
<1>2. \A a, b : AllPass(a) /\ AllPass(b) => AllPass(a \o b)
  BY Concatenated DEF AllPass
<1>3. ASSUME NEW a, Passes(a) PROVE AllPass(<<a>>)
  <2>1. <<a>> \in Seq(Range(<<a>>)) /\ Range(<<a>>) = {a}
    BY Tuples
  <2> QED
    BY <1>3, <2>1 DEF AllPass
<1>4. \A a, b : Passes(a) /\ Passes(b) => AllPass(<<a, b>>)
  BY Tuples DEF AllPass
<1>5. \A a, b, c : Passes(a) /\ Passes(b) /\ Passes(c) => AllPass(<<a, b, c>>)
  BY Tuples DEF AllPass
<1>6. \A a, b, c, d : Passes(a) /\ Passes(b) /\ Passes(c) /\ Passes(d) => AllPass(<<a, b, c, d>>)
  BY Tuples DEF AllPass
<1> QED
  BY <1>1, <1>2, <1>3, <1>4, <1>5, <1>6

-----------------------------------------------------------------------------
\* Every step but the ones that take a put, an item's end or a label from the stack, and
\* those that push one.
Onward ==
  \/ status' # "parsing" /\ todo' = <<>>
  \/ Keeping(ctx') /\ \E is : AllPass(is) /\ Do(is) /\ status' = status
  \/ \E is, r : Restoring(is, r) /\ Within(ctx', r) /\ Do(is) /\ status' = status

\* The forms in which the actions are written make such steps.
LEMMA Advance ==
  /\ \A f : At(f) /\ f \notin {"put", "endItem", "removeLabel"} => QuietHead
  /\ Goes => Onward
  /\ \A c, v, is : Keeping(c) /\ AllPass(is) /\ (Go(c, v, is) \/ GoNext(c, v, is)) => Onward
  /\ \A is : AllPass(is) /\ (Then(is) \/ Skip(is)) => Onward
  /\ \A c, v, is, r :
       Within(c, r) /\ Restoring(is, r) /\ (Go(c, v, is) \/ GoNext(c, v, is)) => Onward
  /\ \A is, r : Within(ctx, r) /\ Restoring(is, r) /\ (Then(is) \/ Skip(is)) => Onward
<1>1. Goes => Onward
  <2>1. SameFlags(ctx') => Keeping(ctx')
    BY DEF SameFlags, Keeping, Watched
  <2> QED
    BY <2>1, PassLists DEF Goes, Onward
<1>2. ASSUME NEW c, NEW v, NEW is, Keeping(c), AllPass(is), Go(c, v, is) \/ GoNext(c, v, is)
      PROVE  Onward
  <2>1. ctx' = c /\ Do(is) /\ status' = status
    BY <1>2 DEF Go, GoNext
  <2>2. Keeping(ctx')
    BY <1>2, <2>1 DEF Keeping
  <2> QED
    BY <1>2, <2>1, <2>2 DEF Onward
<1>3. Keeping(ctx)
  BY DEF Keeping
<1>4. \A is : AllPass(is) /\ (Then(is) \/ Skip(is)) => Onward
  BY <1>2, <1>3 DEF Then, Skip
<1>5. ASSUME NEW c, NEW v, NEW is, NEW r, Within(c, r), Restoring(is, r),
             Go(c, v, is) \/ GoNext(c, v, is)
      PROVE  Onward
  <2>1. ctx' = c /\ Do(is) /\ status' = status
    BY <1>5 DEF Go, GoNext
  <2>2. Within(ctx', r)
    BY <1>5, <2>1 DEF Within
  <2> QED
    BY <1>5, <2>1, <2>2 DEF Onward
<1>6. \A is, r : Within(ctx, r) /\ Restoring(is, r) /\ (Then(is) \/ Skip(is)) => Onward
  BY <1>5 DEF Then, Skip
<1>7. \A f : At(f) /\ f \notin {"put", "endItem", "removeLabel"} => QuietHead
  BY Steps
<1> QED
  BY <1>1, <1>2, <1>4, <1>5, <1>6, <1>7

\* The invariant after such a step.
LEMMA Advanced ==
  ASSUME IInv, status = "parsing", QuietHead, Onward
  PROVE  IInv'
<1>1. CASE status' # "parsing" /\ todo' = <<>>
  BY <1>1 DEF IInv
<1>2. ASSUME Keeping(ctx'), NEW is, AllPass(is), Do(is), status' = status
      PROVE  IInv'
  BY <1>2, Passing
<1>3. ASSUME NEW is, NEW r, Restoring(is, r), Within(ctx', r), Do(is), status' = status
      PROVE  IInv'
  BY <1>3, Restored
<1> QED
  BY <1>1, <1>2, <1>3 DEF Onward

\* What may run before the flags of r are put back, by name.
LEMMA Fenced ==
  /\ \A x, r : Harmless(x) => Before(x, r)
  /\ \A x, r : x.f = "put" /\ DOMAIN x.a \subseteq DOMAIN r \cap Flags => Before(x, r)
  /\ \A r : "strict" \in DOMAIN r =>
       /\ Before(Isolate("parseFunctionSourceElements"), r)
       /\ Before(Call("parseFunctionSourceElements"), r)
       /\ \A a : Before(CallWith("arrowBody", a), r)
BY DEF Before, Unsettles, Unsettling, Isolate, Call, CallWith

\* The parts of a declaration list may run before its flags are put back.
LEMMA Declaring ==
  ASSUME NEW r, NEW a, NEW y, Harmless(y)
  PROVE  Restoring(Declarations(a) \o <<Put(r), y>>, r)
<1>1. AllBefore(Declarations(a), r)
  BY Calls, Fenced, BeforeLists DEF Declarations, Simple, Marked, Unsettling, Wrappers, Indirect
<1>2. <<Put(r), y>> = <<Put(r)>> \o <<y>>
  OBVIOUS
<1>3. Restoring(<<Put(r), y>>, r)
  <2>1. AllHarmless(<<y>>) /\ Restoring(<<Put(r)>>, r)
    BY Closing, Lists
  <2> QED
    BY <1>2, <2>1, Trailing
<1> QED
  BY <1>1, <1>3, Leading

\* Functions, methods, accessors, arrow functions and function bodies put back the flags
\* they set: their parameters and bodies run in between.
LEMMA FunctionsRestore ==
  ASSUME DOMAIN ctx = Watched \cup Covers,
         \/ parsePropertyMethod \/ functionBody \/ parsePropertyMethodFunction
         \/ parsePropertyMethodAsyncFunction \/ parseGetterMethod \/ parseSetterMethod
         \/ parseGeneratorMethod
  PROVE  QuietHead /\ Onward
<1>1. ASSUME parsePropertyMethod PROVE QuietHead /\ Onward
  <2> DEFINE r == [strict |-> ctx.strict, allowStrictDirective |-> ctx.allowStrictDirective]
             c == [Plain EXCEPT !.allowStrictDirective = Top.simple]
             a == Isolate("parseFunctionSourceElements")
             b == CallWith("endFunction", [params |-> Top, generator |-> arg, kind |-> "method"])
  <2>1. Within(c, r)
    <3>1. DOMAIN r = {"strict", "allowStrictDirective"} /\ \A flag \in DOMAIN r : r[flag] = ctx[flag]
      OBVIOUS
    <3>2. DOMAIN c = DOMAIN ctx
      BY DEF Plain, Assignable
    <3>3. \A flag \in Watched : flag \notin {"allowStrictDirective"} => c[flag] = ctx[flag]
      BY DEF Plain, Assignable, Watched, Flags, Covers
    <3> HIDE DEF c, r
    <3> QED
      BY <3>1, <3>2, <3>3 DEF Within, Watched, Flags
  <2>2. Before(a, r) /\ Before(b, r)
    BY Fenced, Calls DEF Simple, Marked, Unsettling, Wrappers, Indirect
  <2>3. Restoring(<<a, b, Put(r)>>, r)
    <3> HIDE DEF a, b, r
    <3>1. <<a, b, Put(r)>> = <<a, b>> \o <<Put(r)>>
      OBVIOUS
    <3> QED
      BY <2>2, <3>1, BeforeLists, Closing, Leading
  <2> HIDE DEF c, r
  <2> QED
    BY <1>1, <2>1, <2>3, Advance DEF parsePropertyMethod, c, r
<1>2. ASSUME functionBody PROVE QuietHead /\ Onward
  <2> DEFINE r == [strict |-> ctx.strict, allowStrictDirective |-> ctx.allowStrictDirective]
             c == [ctx EXCEPT !.allowStrictDirective = Top.simple]
             a == Call("parseFunctionSourceElements")
             b == CallWith("endFunction", [params |-> Top, generator |-> arg, kind |-> "function"])
  <2>1. Within(c, r)
    <3>1. DOMAIN r = {"strict", "allowStrictDirective"} /\ \A flag \in DOMAIN r : r[flag] = ctx[flag]
      OBVIOUS
    <3>2. DOMAIN c = DOMAIN ctx
      OBVIOUS
    <3>3. \A flag \in Watched : flag \notin {"allowStrictDirective"} => c[flag] = ctx[flag]
      BY DEF Watched, Flags, Covers
    <3> HIDE DEF c, r
    <3> QED
      BY <3>1, <3>2, <3>3 DEF Within, Watched, Flags
  <2>2. Before(a, r) /\ Before(b, r)
    BY Fenced, Calls DEF Simple, Marked, Unsettling, Wrappers, Indirect
  <2>3. Restoring(<<a, b, Put(r)>>, r)
    <3> HIDE DEF a, b, r
    <3>1. <<a, b, Put(r)>> = <<a, b>> \o <<Put(r)>>
      OBVIOUS
    <3> QED
      BY <2>2, <3>1, BeforeLists, Closing, Leading
  <2> HIDE DEF c, r
  <2> QED
    BY <1>2, <2>1, <2>3, Advance DEF functionBody, c, r
<1>3. ASSUME NEW f, NEW yieldIn, NEW yieldBody, NEW await, NEW generator, NEW arity,
             At(f), f \notin {"put", "endItem", "removeLabel"},
             Method(yieldIn, yieldBody, await, generator, arity)
      PROVE  QuietHead /\ Onward
  <2> DEFINE r == [allowYield |-> ctx.allowYield, allowAwait |-> ctx.allowAwait]
             c == [ctx EXCEPT !.allowYield = yieldIn, !.allowAwait = await]
             w == CallWith("parseFormalParameters", FALSE)
             x == CallWith("checkArity", arity)
             y == Put([allowYield |-> yieldBody])
             z == CallWith("parsePropertyMethod", generator)
  <2>1. Within(c, r)
    <3>1. DOMAIN r = {"allowYield", "allowAwait"} /\ \A flag \in DOMAIN r : r[flag] = ctx[flag]
      OBVIOUS
    <3>2. DOMAIN c = DOMAIN ctx
      OBVIOUS
    <3>3. \A flag \in Watched : flag \notin {"allowYield", "allowAwait"} => c[flag] = ctx[flag]
      BY DEF Watched, Flags, Covers
    <3> HIDE DEF c, r
    <3> QED
      BY <3>1, <3>2, <3>3 DEF Within, Watched, Flags
  <2>2. Before(w, r) /\ Before(x, r) /\ Before(z, r)
    BY Fenced, Calls DEF Simple, Marked, Unsettling, Wrappers, Indirect
  <2>3. Before(y, r)
    BY Fenced DEF Put, CallWith, Flags
  <2>4. Restoring(<<w, x, y, z, Put(r)>>, r)
    <3> HIDE DEF w, x, y, z, r
    <3>1. <<w, x, y, z, Put(r)>> = <<w, x, y, z>> \o <<Put(r)>>
      OBVIOUS
    <3> QED
      BY <2>2, <2>3, <3>1, BeforeLists, Closing, Leading
  <2> HIDE DEF c, r
  <2> QED
    BY <1>3, <2>1, <2>4, Advance DEF Method, c, r
<1> QED
  BY <1>1, <1>2, <1>3 DEF parsePropertyMethodFunction, parsePropertyMethodAsyncFunction,
       parseGetterMethod, parseSetterMethod, parseGeneratorMethod

\* The expressions and patterns that set allowIn or allowYield for a part put it back.
LEMMA ExpressionsRestore ==
  ASSUME DOMAIN ctx = Watched \cup Covers,
         \/ parseLeftHandSideExpressionAllowCall \/ conditional \/ assignment \/ yieldArgument
         \/ patternDefault
  PROVE  QuietHead /\ Onward
<1>1. ASSUME parseLeftHandSideExpressionAllowCall PROVE QuietHead /\ Onward
  <2> DEFINE r == [allowIn |-> ctx.allowIn]
             c == [ctx EXCEPT !.allowIn = TRUE]
             w == CallWith("superMember", {"(", ".", "["})
             x == HeadExpression
             y == CallWith("memberOrCall", [calls |-> TRUE, start |-> look])
  <2>1. Within(c, r)
    <3>1. DOMAIN r = {"allowIn"} /\ \A flag \in DOMAIN r : r[flag] = ctx[flag]
      OBVIOUS
    <3>2. DOMAIN c = DOMAIN ctx
      OBVIOUS
    <3>3. \A flag \in Watched : flag \notin {"allowIn"} => c[flag] = ctx[flag]
      BY DEF Watched, Flags, Covers
    <3> HIDE DEF c, r
    <3> QED
      BY <3>1, <3>2, <3>3 DEF Within, Watched, Flags
  <2>2. Before(w, r) /\ Before(x, r) /\ Before(y, r)
    BY Fenced, Calls DEF HeadExpression, Simple, Marked, Unsettling, Wrappers, Indirect
  <2>3. Restoring(<<w>> \o <<y, Put(r)>>, r) /\ Restoring(<<x>> \o <<y, Put(r)>>, r)
    <3> HIDE DEF w, x, y, r
    <3>1. <<y, Put(r)>> = <<y>> \o <<Put(r)>>
      OBVIOUS
    <3> QED
      BY <2>2, <3>1, BeforeLists, Closing, Leading
  <2> HIDE DEF c, r
  <2> QED
    BY <1>1, <2>1, <2>3, Advance DEF parseLeftHandSideExpressionAllowCall, c, r
<1>2. ASSUME conditional PROVE QuietHead /\ Onward
  <2> DEFINE r == [allowIn |-> ctx.allowIn]
             c == [ctx EXCEPT !.allowIn = TRUE]
             x == Isolate("parseAssignmentExpression")
             y == Expect(":")
             z == Build("ConditionalExpression", 3)
             u == Put([isAssignmentTarget |-> FALSE, isBindingElement |-> FALSE])
  <2>1. Within(c, r)
    <3>1. DOMAIN r = {"allowIn"} /\ \A flag \in DOMAIN r : r[flag] = ctx[flag]
      OBVIOUS
    <3>2. DOMAIN c = DOMAIN ctx
      OBVIOUS
    <3>3. \A flag \in Watched : flag \notin {"allowIn"} => c[flag] = ctx[flag]
      BY DEF Watched, Flags, Covers
    <3> HIDE DEF c, r
    <3> QED
      BY <3>1, <3>2, <3>3 DEF Within, Watched, Flags
  <2>2. Harmless(x) /\ Harmless(y) /\ Harmless(z) /\ Harmless(u)
    BY Calls DEF Simple, Marked, Unsettling, Wrappers, Indirect
  <2>3. Restoring(<<x, Put(r), y, x, z, u>>, r)
    <3> HIDE DEF x, y, z, u, r
    <3>1. <<x, Put(r), y, x, z, u>> = <<x, Put(r)>> \o <<y, x, z, u>>
      OBVIOUS
    <3>2. Restoring(<<x, Put(r)>>, r) /\ AllHarmless(<<y, x, z, u>>)
      BY <2>2, Fenced, Enclosing, Lists
    <3> QED
      BY <3>1, <3>2, Trailing
  <2>4. ~match("?") => Goes
    BY <1>2, Steps, Lists DEF conditional
  <2> HIDE DEF c, r
  <2> QED
    BY <1>2, <2>1, <2>3, <2>4, Advance DEF conditional, c, r
<1>3. ASSUME assignment PROVE QuietHead /\ Onward
  <2> DEFINE r == [strict |-> ctx.strict, allowYield |-> ctx.allowYield,
                   allowStrictDirective |-> ctx.allowStrictDirective,
                   allowAwait |-> ctx.allowAwait]
             list == CoverFormals(Top)
             c == [Plain EXCEPT !.firstCoverInitializedNameError = FALSE,
                                !.allowStrictDirective = list.params.simple,
                                !.allowYield = TRUE, !.allowAwait = IsAsyncArrow(Top)]
             x == CallWith("arrowBody", list.params)
  <2>1. Within(c, r)
    <3>1. /\ DOMAIN r = {"strict", "allowYield", "allowStrictDirective", "allowAwait"}
          /\ \A flag \in DOMAIN r : r[flag] = ctx[flag]
      OBVIOUS
    <3>2. DOMAIN c = DOMAIN ctx
      BY DEF Plain, Assignable
    <3>3. \A flag \in Watched :
            flag \notin {"allowStrictDirective", "allowYield", "allowAwait"} => c[flag] = ctx[flag]
      BY DEF Plain, Assignable, Watched, Flags, Covers
    <3> HIDE DEF c, r
    <3> QED
      BY <3>1, <3>2, <3>3 DEF Within, Watched, Flags
  <2>2. Before(x, r)
    BY Fenced
  <2>3. Restoring(<<x, Put(r)>>, r)
    BY <2>2, Enclosing
  <2> HIDE DEF c, r
  <2>4. ASSUME GoNext(c, Under, <<x, Put(r)>>) PROVE Onward
    BY <2>1, <2>3, <2>4, Advance
  <2>5. Goes \/ GoNext(c, Under, <<x, Put(r)>>)
    BY <1>3, Steps, Lists, Calls, CoverChanges
       DEF assignment, c, r, Simple, Marked, Unsettling, Wrappers, Indirect
  <2> QED
    BY <1>3, <2>4, <2>5, Advance DEF assignment
<1>4. ASSUME yieldArgument PROVE QuietHead /\ Onward
  <2> DEFINE r == [allowYield |-> ctx.allowYield]
             c == [ctx EXCEPT !.allowYield = FALSE]
             x == Call("parseAssignmentExpression")
             y == Call("endYield")
  <2>1. Within(c, r)
    <3>1. DOMAIN r = {"allowYield"} /\ \A flag \in DOMAIN r : r[flag] = ctx[flag]
      OBVIOUS
    <3>2. DOMAIN c = DOMAIN ctx
      OBVIOUS
    <3>3. \A flag \in Watched : flag \notin {"allowYield"} => c[flag] = ctx[flag]
      BY DEF Watched, Flags, Covers
    <3> HIDE DEF c, r
    <3> QED
      BY <3>1, <3>2, <3>3 DEF Within, Watched, Flags
  <2>2. Harmless(x) /\ Harmless(y)
    BY Calls DEF Simple, Marked, Unsettling, Wrappers, Indirect
  <2>3. Restoring(<<x, Put(r), y>>, r)
    BY <2>2, Fenced, Enclosing
  <2> HIDE DEF c, r
  <2> QED
    BY <1>4, <2>1, <2>3, Advance, Steps, Lists DEF yieldArgument, c, r
<1>5. ASSUME patternDefault PROVE QuietHead /\ Onward
  <2> DEFINE r == [allowYield |-> ctx.allowYield]
             c == [ctx EXCEPT !.allowYield = TRUE]
             x == Isolate("parseAssignmentExpression")
             y == Build("AssignmentPattern", 2)
  <2>1. Within(c, r)
    <3>1. DOMAIN r = {"allowYield"} /\ \A flag \in DOMAIN r : r[flag] = ctx[flag]
      OBVIOUS
    <3>2. DOMAIN c = DOMAIN ctx
      OBVIOUS
    <3>3. \A flag \in Watched : flag \notin {"allowYield"} => c[flag] = ctx[flag]
      BY DEF Watched, Flags, Covers
    <3> HIDE DEF c, r
    <3> QED
      BY <3>1, <3>2, <3>3 DEF Within, Watched, Flags
  <2>2. Harmless(x) /\ Harmless(y)
    BY Calls DEF Simple, Marked, Unsettling, Wrappers, Indirect
  <2>3. Restoring(<<x, Put(r), y>>, r)
    BY <2>2, Fenced, Enclosing
  <2> HIDE DEF c, r
  <2> QED
    BY <1>5, <2>1, <2>3, Advance, Steps, Lists DEF patternDefault, c, r
<1> QED
  BY <1>1, <1>2, <1>3, <1>4, <1>5

\* The statements that set a flag for their body or head put it back, and a class does so
\* with `strict`.
LEMMA StatementsRestore ==
  ASSUME DOMAIN ctx = Watched \cup Covers,
         \/ functionName \/ functionStatements \/ parseDoWhileStatement \/ parseSwitchStatement
         \/ forInit \/ parseClass
  PROVE  QuietHead /\ Onward
<1>1. ASSUME functionName PROVE QuietHead /\ Onward
  <2> DEFINE r == [allowAwait |-> ctx.allowAwait, allowYield |-> ctx.allowYield]
             c == [ctx EXCEPT !.allowAwait = arg.async, !.allowYield = arg.generator = ""]
             params(first) == CallWith("parseFormalParameters", first)
             body == CallWith("functionBody", arg.generator)
             x == Call("parseIdentifierName")
             y == CallWith("parseVariableIdentifier", "")
             z == Put([allowAwait |-> arg.async, allowYield |-> arg.generator = ""])
             rest(first) == <<params(first), body, Put(r)>>
  <2>1. Within(c, r)
    <3>1. DOMAIN r = {"allowAwait", "allowYield"} /\ \A flag \in DOMAIN r : r[flag] = ctx[flag]
      OBVIOUS
    <3>2. DOMAIN c = DOMAIN ctx
      OBVIOUS
    <3>3. \A flag \in Watched : flag \notin {"allowAwait", "allowYield"} => c[flag] = ctx[flag]
      BY DEF Watched, Flags, Covers
    <3> HIDE DEF c, r
    <3> QED
      BY <3>1, <3>2, <3>3 DEF Within, Watched, Flags
  <2>2. Within(ctx, r)
    <3>1. DOMAIN r = {"allowAwait", "allowYield"} /\ \A flag \in DOMAIN r : r[flag] = ctx[flag]
      OBVIOUS
    <3>2. DOMAIN ctx = DOMAIN ctx
      OBVIOUS
    <3>3. \A flag \in Watched : ctx[flag] = ctx[flag]
      BY DEF Watched, Flags, Covers
    <3> HIDE DEF r
    <3> QED
      BY <3>1, <3>2, <3>3 DEF Within, Watched, Flags
  <2>3. /\ \A first : Before(params(first), r)
        /\ Before(body, r) /\ Before(x, r) /\ Before(y, r) /\ Before(Drop, r)
    BY Fenced, Calls DEF Simple, Marked, Unsettling, Wrappers, Indirect
  <2>4. Before(z, r)
    <3>1. z.f = "put" /\ DOMAIN z.a = {"allowAwait", "allowYield"}
      BY DEF Put, CallWith
    <3>2. DOMAIN r = {"allowAwait", "allowYield"}
      OBVIOUS
    <3> HIDE DEF z, r
    <3> QED
      BY <3>1, <3>2, Fenced DEF Flags
  <2>5. ASSUME NEW first PROVE Restoring(rest(first), r)
    <3> HIDE DEF params, body, r
    <3>1. <<params(first), body, Put(r)>> = <<params(first), body>> \o <<Put(r)>>
      OBVIOUS
    <3> QED
      BY <2>3, <3>1, BeforeLists, Closing, Leading
  <2>6. ASSUME NEW first
        PROVE  /\ Restoring(<<x, Drop>> \o rest(first), r)
               /\ Restoring(<<y, Drop>> \o rest(first), r)
               /\ Restoring(<<x, Drop, z>> \o rest(first), r)
               /\ Restoring(<<y, Drop, z>> \o rest(first), r)
    <3> HIDE DEF x, y, z, rest, r
    <3>1. /\ AllBefore(<<x, Drop>>, r) /\ AllBefore(<<y, Drop>>, r)
          /\ AllBefore(<<x, Drop, z>>, r) /\ AllBefore(<<y, Drop, z>>, r)
      BY <2>3, <2>4, BeforeLists
    <3> QED
      BY <2>5, <3>1, Leading
  <2> HIDE DEF c, r
  <2> QED
    BY <1>1, <2>1, <2>2, <2>5, <2>6, Advance, Steps DEF functionName, c, r
<1>2. ASSUME functionStatements PROVE QuietHead /\ Onward
  <2> DEFINE r == [labelSet |-> ctx.labelSet, inIteration |-> ctx.inIteration,
                   inSwitch |-> ctx.inSwitch, inFunctionBody |-> ctx.inFunctionBody]
             c == [ctx EXCEPT !.labelSet = {}, !.inIteration = FALSE, !.inSwitch = FALSE,
                              !.inFunctionBody = TRUE]
             x == Call("statements")
  <2>1. Within(c, r)
    <3>1. /\ DOMAIN r = {"labelSet", "inIteration", "inSwitch", "inFunctionBody"}
          /\ \A flag \in DOMAIN r : r[flag] = ctx[flag]
      OBVIOUS
    <3>2. DOMAIN c = DOMAIN ctx
      OBVIOUS
    <3>3. /\ \A flag \in Watched :
               flag \notin {"labelSet", "inIteration", "inSwitch", "inFunctionBody"} =>
                 c[flag] = ctx[flag]
          /\ c["labelSet"] = {}
      BY DEF Watched, Flags, Covers
    <3> HIDE DEF c, r
    <3> QED
      BY <3>1, <3>2, <3>3 DEF Within, Watched, Flags
  <2>2. Before(x, r)
    BY Fenced, Calls DEF Simple, Marked, Unsettling, Wrappers, Indirect
  <2>3. Restoring(<<x, Put(r)>>, r)
    BY <2>2, Enclosing
  <2> HIDE DEF c, r
  <2> QED
    BY <1>2, <2>1, <2>3, Advance DEF functionStatements, c, r
<1>3. ASSUME parseDoWhileStatement PROVE QuietHead /\ Onward
  <2> DEFINE r == [inIteration |-> ctx.inIteration]
             c == [ctx EXCEPT !.inIteration = TRUE]
             u == Call("parseStatement")
             v == ExpectKeyword("while")
             w == Expect("(")
             x == Call("parseExpression")
             y == CallWith("closeHead", <<Call("optionalSemicolon")>>)
  <2>1. Within(c, r)
    <3>1. DOMAIN r = {"inIteration"} /\ \A flag \in DOMAIN r : r[flag] = ctx[flag]
      OBVIOUS
    <3>2. DOMAIN c = DOMAIN ctx
      OBVIOUS
    <3>3. \A flag \in Watched : flag \notin {"inIteration"} => c[flag] = ctx[flag]
      BY DEF Watched, Flags, Covers
    <3> HIDE DEF c, r
    <3> QED
      BY <3>1, <3>2, <3>3 DEF Within, Watched, Flags
  <2>2. Harmless(u) /\ Harmless(v) /\ Harmless(w) /\ Harmless(x) /\ Harmless(Drop) /\ Harmless(y)
    BY Calls DEF Simple, Marked, Unsettling, Wrappers, Indirect
  <2>3. Restoring(<<u, Put(r), v, w, x, Drop, y>>, r)
    <3> HIDE DEF u, v, w, x, y, r
    <3>1. <<u, Put(r), v, w, x, Drop, y>> = <<u, Put(r)>> \o <<v, w, x, Drop, y>>
      OBVIOUS
    <3>2. Restoring(<<u, Put(r)>>, r) /\ AllHarmless(<<v, w, x, Drop, y>>)
      BY <2>2, Fenced, Enclosing, Lists
    <3> QED
      BY <3>1, <3>2, Trailing
  <2> HIDE DEF c, r
  <2> QED
    BY <1>3, <2>1, <2>3, Advance DEF parseDoWhileStatement, c, r
<1>4. ASSUME parseSwitchStatement PROVE QuietHead /\ Onward
  <2> DEFINE r == [inSwitch |-> ctx.inSwitch]
             u == Expect("(")
             v == Call("parseExpression")
             w == Expect(")")
             x == Put([inSwitch |-> TRUE])
             y == Expect("{")
             z == CallWith("switchCase", FALSE)
  <2>1. Within(ctx, r)
    <3>1. DOMAIN r = {"inSwitch"} /\ \A flag \in DOMAIN r : r[flag] = ctx[flag]
      OBVIOUS
    <3>2. DOMAIN ctx = DOMAIN ctx
      OBVIOUS
    <3>3. \A flag \in Watched : ctx[flag] = ctx[flag]
      BY DEF Watched, Flags, Covers
    <3> HIDE DEF r
    <3> QED
      BY <3>1, <3>2, <3>3 DEF Within, Watched, Flags
  <2>2. /\ Before(u, r) /\ Before(v, r) /\ Before(Drop, r) /\ Before(w, r) /\ Before(y, r)
        /\ Before(z, r)
    BY Fenced, Calls DEF Simple, Marked, Unsettling, Wrappers, Indirect
  <2>3. Before(x, r)
    BY Fenced DEF Put, CallWith, Flags
  <2>4. Restoring(<<u, v, Drop, w, x, y, z, Put(r)>>, r)
    <3> HIDE DEF u, v, w, x, y, z, r
    <3>1. <<u, v, Drop, w, x, y, z, Put(r)>> = <<u, v, Drop, w, x, y, z>> \o <<Put(r)>>
      OBVIOUS
    <3>2. AllBefore(<<u, v, Drop, w, x, y, z>>, r)
      BY <2>2, <2>3, BeforeLists
    <3> QED
      BY <3>1, <3>2, Closing, Leading
  <2> HIDE DEF r
  <2> QED
    BY <1>4, <2>1, <2>4, Advance DEF parseSwitchStatement, r
<1>5. ASSUME forInit PROVE QuietHead /\ Onward
  <2> DEFINE r == [allowIn |-> ctx.allowIn]
             a == [kind |-> "var", inFor |-> TRUE]
             x == Inherit("parseAssignmentExpression")
             y == CallWith("forDeclared", "var")
             z == Call("forExpression")
  <2>1. Within(NoIn, r)
    <3>1. DOMAIN r = {"allowIn"} /\ \A flag \in DOMAIN r : r[flag] = ctx[flag]
      OBVIOUS
    <3>2. DOMAIN NoIn = DOMAIN ctx
      BY DEF NoIn
    <3>3. \A flag \in Watched : flag \notin {"allowIn"} => NoIn[flag] = ctx[flag]
      BY DEF NoIn, Watched, Flags, Covers
    <3> HIDE DEF r
    <3> QED
      BY <3>1, <3>2, <3>3 DEF Within, Watched, Flags
  <2>2. Harmless(x) /\ Harmless(y) /\ Harmless(z)
    BY Calls DEF Simple, Marked, Unsettling, Wrappers, Indirect
  <2>3. Restoring(Declarations(a) \o <<Put(r), y>>, r)
    BY <2>2, Declaring
  <2>4. Restoring(<<x, Put(r), z>>, r)
    BY <2>2, Fenced, Enclosing
  <2>5. match(";") \/ matchKeywords({"const", "let"}) => matchKeyword("var") \/ Goes
    BY <1>5, Steps, Lists, Calls DEF forInit, ForTest, Simple, Marked, Unsettling, Wrappers, Indirect
  <2> HIDE DEF r
  <2> QED
    BY <1>5, <2>1, <2>3, <2>4, <2>5, Advance, Steps, Lists, Calls
       DEF forInit, RestoreIn, ForTest, r, Simple, Marked, Unsettling, Wrappers, Indirect
<1>6. ASSUME parseClass PROVE QuietHead /\ Onward
  <2> DEFINE r == [strict |-> ctx.strict]
             c == [ctx EXCEPT !.strict = TRUE]
             v == ExpectKeyword("class")
             w == CallWith("className", arg)
             x == Call("heritage")
             y == Expect("{")
             z == CallWith("classElement", FALSE)
  <2>1. Within(c, r)
    <3>1. DOMAIN r = {"strict"} /\ \A flag \in DOMAIN r : r[flag] = ctx[flag]
      OBVIOUS
    <3>2. DOMAIN c = DOMAIN ctx
      OBVIOUS
    <3>3. \A flag \in Watched : flag \notin {"strict"} => c[flag] = ctx[flag]
      BY DEF Watched, Flags, Covers
    <3> HIDE DEF c, r
    <3> QED
      BY <3>1, <3>2, <3>3 DEF Within, Watched, Flags
  <2>2. Before(v, r) /\ Before(w, r) /\ Before(x, r) /\ Before(y, r) /\ Before(z, r)
    BY Fenced, Calls DEF Simple, Marked, Unsettling, Wrappers, Indirect
  <2>3. Restoring(<<v, w, x, y, z, Put(r)>>, r)
    <3> HIDE DEF v, w, x, y, z, r
    <3>1. <<v, w, x, y, z, Put(r)>> = <<v, w, x, y, z>> \o <<Put(r)>>
      OBVIOUS
    <3>2. AllBefore(<<v, w, x, y, z>>, r)
      BY <2>2, BeforeLists
    <3> QED
      BY <3>1, <3>2, Closing, Leading
  <2> HIDE DEF c, r
  <2> QED
    BY <1>6, <2>1, <2>3, Advance DEF parseClass, c, r
<1> QED
  BY <1>1, <1>2, <1>3, <1>4, <1>5, <1>6

\* The call on top, by its name.
LEMMA Heads == \A f : At(f) /\ f \notin {"put", "endItem", "removeLabel"} => QuietHead
BY DEF At, QuietHead

\* The property of an object literal or class may lose allowYield, which the getter clears
\* before it is saved.
LEMMA PropertiesPass ==
  ASSUME DOMAIN ctx = Watched \cup Covers
  PROVE  propertyValue \/ elementValue
           => QuietHead /\ Onward
<1> DEFINE key == <<Call("parseObjectPropertyKey"), Drop>>
           getter == <<Put([allowYield |-> FALSE]), Call("parseGetterMethod")>>
<1> USE DEF Simple, Marked, Unsettling, Wrappers, Indirect
<1>1. AllHarmless(key) /\ AllPass(key)
  BY Calls, Lists, PassLists
<1>2. AllPass(getter)
  <2>1. Passes(Put([allowYield |-> FALSE])) /\ Passes(Call("parseGetterMethod"))
    BY Calls DEF Passes
  <2> QED
    BY <2>1, PassLists
<1>3. Keeping(ctx)
  BY DEF Keeping
<1>4. ASSUME propertyValue PROVE QuietHead /\ Onward
  <2>1. AllPass(key \o getter)
    BY <1>1, <1>2, PassLists
  <2>2. QuietHead
    BY <1>4, Heads DEF propertyValue
  <2>3. CASE IsAccessor(arg.token, "get") /\ ~arg.async
    <3>1. PICK below : Go(ctx, below, key \o getter)
      BY <1>4, <2>3 DEF propertyValue
    <3> HIDE DEF key, getter
    <3> QED
      BY <1>3, <2>1, <2>2, <3>1, Advance
  <2>4. CASE ~(IsAccessor(arg.token, "get") /\ ~arg.async)
    <3> DEFINE setter == <<Call("parseSetterMethod")>>
               generator == <<Call("parseGeneratorMethod")>>
               value == <<Inherit("parseAssignmentExpression")>>
               method == <<Call("parsePropertyMethodFunction")>>
               asyncMethod == <<Call("parsePropertyMethodAsyncFunction")>>
               default == <<Isolate("parseAssignmentExpression"), Build("AssignmentPattern", 2)>>
               covered == [ctx EXCEPT !.firstCoverInitializedNameError = TRUE]
    <3>1. /\ AllHarmless(setter) /\ AllHarmless(generator) /\ AllHarmless(value)
          /\ AllHarmless(method) /\ AllHarmless(asyncMethod) /\ AllHarmless(default)
          /\ AllHarmless(<<>>)
      BY Calls, Lists
    <3>2. AllHarmless(key \o setter) /\ AllHarmless(key \o generator)
      <4> HIDE DEF key, setter, generator
      <4> QED
        BY <1>1, <3>1, Joined
    <3>3. SameFlags(ctx) /\ SameFlags(covered)
      BY CoverChanges
    <3>4. \/ throw
          \/ \E v : \/ Go(ctx, v, key \o setter) \/ Go(ctx, v, key \o generator)
                   \/ GoNext(ctx, v, value) \/ Go(ctx, v, method) \/ Go(ctx, v, asyncMethod)
                   \/ GoNext(covered, v, default) \/ Go(ctx, v, <<>>)
      BY <1>4, <2>4 DEF propertyValue
    <3>5. Goes
      <4> HIDE DEF key, setter, generator, value, method, asyncMethod, default, covered
      <4> QED
        BY <3>1, <3>2, <3>3, <3>4, Steps
    <3> QED
      BY <2>2, <3>5, Advance
  <2> QED
    BY <2>3, <2>4
<1>5. ASSUME elementValue PROVE QuietHead /\ Onward
  <2> DEFINE below == IF arg.hasKey THEN Under ELSE vals
             end(kind) == CallWith("endElement",
                            [kind |-> kind, element |-> [arg EXCEPT !.computed = match("[")]])
             name == <<Call("parseObjectPropertyKey")>>
  <2>1. QuietHead
    BY <1>5, Heads DEF elementValue
  <2>2. AllHarmless(name) /\ AllPass(name)
    BY Calls, Lists, PassLists
  <2>3. \A kind : AllHarmless(<<end(kind)>>) /\ AllPass(<<end(kind)>>)
    BY Calls, Lists, PassLists
  <2>4. CASE IsAccessor(arg.token, "get")
    <3>1. Go(ctx, below, name \o getter \o <<end("get")>>)
      BY <1>5, <2>4 DEF elementValue
    <3> HIDE DEF name, getter, end, below
    <3>2. AllPass(name \o getter)
      BY <1>2, <2>2, PassLists
    <3>3. AllPass((name \o getter) \o <<end("get")>>)
      BY <2>3, <3>2, PassLists
    <3> QED
      BY <1>3, <2>1, <3>1, <3>3, Advance
  <2>5. CASE ~IsAccessor(arg.token, "get")
    <3>1. Goes
      <4>1. CASE IsAccessor(arg.token, "set")
        <5>1. Go(ctx, below, name \o <<Call("parseSetterMethod")>> \o <<end("set")>>)
          BY <1>5, <2>5, <4>1 DEF elementValue
        <5>2. AllHarmless(<<Call("parseSetterMethod")>>) /\ SameFlags(ctx)
          BY Calls, Lists, CoverChanges
        <5> HIDE DEF name, end, below
        <5>3. AllHarmless(name \o <<Call("parseSetterMethod")>>)
          BY <2>2, <5>2, Joined
        <5>4. AllHarmless((name \o <<Call("parseSetterMethod")>>) \o <<end("set")>>)
          BY <2>3, <5>3, Joined
        <5> QED
          BY <5>1, <5>2, <5>4, Steps
      <4>2. CASE ~IsAccessor(arg.token, "set") /\ IsGenerator(arg.token)
        <5>1. Go(ctx, below, name \o <<Call("parseGeneratorMethod")>> \o <<end("method")>>)
          BY <1>5, <2>5, <4>2 DEF elementValue
        <5>2. AllHarmless(<<Call("parseGeneratorMethod")>>) /\ SameFlags(ctx)
          BY Calls, Lists, CoverChanges
        <5> HIDE DEF name, end, below
        <5>3. AllHarmless(name \o <<Call("parseGeneratorMethod")>>)
          BY <2>2, <5>2, Joined
        <5>4. AllHarmless((name \o <<Call("parseGeneratorMethod")>>) \o <<end("method")>>)
          BY <2>3, <5>3, Joined
        <5> QED
          BY <5>1, <5>2, <5>4, Steps
      <4>3. CASE ~IsAccessor(arg.token, "set") /\ ~IsGenerator(arg.token)
        <5> DEFINE last(kind) == CallWith("endElement", [kind |-> kind, element |-> arg])
                   init == <<Call("parseAssignmentExpression"), last("init")>>
                   method == <<Call("parsePropertyMethodFunction"), last("method")>>
                   asyncMethod == <<Call("parsePropertyMethodAsyncFunction"), last("method")>>
        <5>1. /\ AllHarmless(init) /\ AllHarmless(method) /\ AllHarmless(asyncMethod)
              /\ AllHarmless(<<last("init")>>)
          BY Calls, Lists
        <5>2. \/ throw \/ Skip(init) \/ Give(Leaf("None"), <<last("init")>>) \/ Then(method)
              \/ Then(asyncMethod)
          BY <1>5, <2>5, <4>3 DEF elementValue
        <5> HIDE DEF last, init, method, asyncMethod
        <5> QED
          BY <5>1, <5>2, Steps
      <4> QED
        BY <4>1, <4>2, <4>3
    <3> QED
      BY <2>1, <3>1, Advance
  <2> QED
    BY <2>4, <2>5
<1> QED
  BY <1>4, <1>5

\* The loops whose body is set up when the closing parenthesis has been read.
LEMMA LoopsPass ==
  ASSUME DOMAIN ctx = Watched \cup Covers
  PROVE  parseWhileStatement \/ forLexical \/ forDeclared \/ forExpression \/ forUpdate
           => QuietHead /\ Onward
<1> USE DEF Simple, Marked, Unsettling, Wrappers, Indirect
<1>1. \A b : Harmless(b) => Passes(CallWith("closeHead", Loop(b)))
  BY DEF Passes, LoopHead, Loop
<1>2. Passes(CallWith("closeHead", Loop(Isolate("parseStatement"))))
  BY <1>1, Calls
<1>3. \A v : Passes(Expect(v))
  BY Calls DEF Passes
<1>4. Passes(Call("parseExpression")) /\ Passes(Call("parseAssignmentExpression")) /\ Passes(Drop)
  BY Calls DEF Passes
<1>5. Keeping(ctx)
  BY DEF Keeping
<1>6. /\ AllPass(ForEach("parseExpression")) /\ AllPass(ForEach("parseAssignmentExpression"))
  BY <1>2, <1>4, PassLists DEF ForEach
<1>7. AllHarmless(ForTest)
  BY Calls, Lists DEF ForTest
<1>8. ASSUME parseWhileStatement PROVE QuietHead /\ Onward
  <2>1. Passes(CallWith("closeHead", Loop(Call("parseStatement"))))
    BY <1>1, Calls
  <2>2. AllPass(<<Expect("("), Call("parseExpression"), Drop,
                  CallWith("closeHead", Loop(Call("parseStatement")))>>)
    BY <2>1, <1>3, <1>4, PassLists
  <2> QED
    BY <1>8, <2>2, Advance DEF parseWhileStatement, Headed
<1>9. ASSUME forLexical PROVE QuietHead /\ Onward
  <2> DEFINE r == [allowIn |-> ctx.allowIn]
             y == CallWith("forDeclared", arg)
  <2>1. Within(NoIn, r)
    <3>1. DOMAIN r = {"allowIn"} /\ \A flag \in DOMAIN r : r[flag] = ctx[flag]
      OBVIOUS
    <3>2. DOMAIN NoIn = DOMAIN ctx
      BY DEF NoIn
    <3>3. \A flag \in Watched : flag \notin {"allowIn"} => NoIn[flag] = ctx[flag]
      BY DEF NoIn, Watched, Flags, Covers
    <3> HIDE DEF r
    <3> QED
      BY <3>1, <3>2, <3>3 DEF Within, Watched, Flags
  <2>2. \A a : Restoring(Declarations(a) \o <<Put(r), y>>, r)
    <3>1. Harmless(y)
      BY Calls
    <3> HIDE DEF r, y
    <3> QED
      BY <3>1, Declaring
  <2>3. QuietHead
    BY <1>9, Heads DEF forLexical
  <2>4. CASE ~ctx.strict /\ look.v = "in"
    BY <1>9, <1>5, <1>6, <2>3, <2>4, Advance DEF forLexical
  <2>5. CASE ~(~ctx.strict /\ look.v = "in")
    <3>1. PICK a, v : Go(NoIn, v, Declarations(a) \o <<Put(r), y>>)
      BY <1>9, <2>5 DEF forLexical, RestoreIn
    <3> HIDE DEF r, y
    <3> QED
      BY <2>1, <2>2, <2>3, <3>1, Advance
  <2> QED
    BY <2>4, <2>5
<1>10. ASSUME forDeclared PROVE QuietHead /\ Onward
  <2>1. QuietHead
    BY <1>10, Heads DEF forDeclared
  <2>2. /\ AllHarmless(<<Drop, Expect(";")>> \o ForTest)
        /\ AllHarmless(<<Drop, Call("consumeSemicolon")>> \o ForTest)
    <3>1. AllHarmless(<<Drop, Expect(";")>>) /\ AllHarmless(<<Drop, Call("consumeSemicolon")>>)
      BY Calls, Lists
    <3> QED
      BY <1>7, <3>1, Joined
  <2>3. Fail("internal error") => Onward
    BY DEF Fail, Onward
  <2>4. (\/ Skip(ForEach("parseExpression")) \/ Skip(ForEach("parseAssignmentExpression"))) => Onward
    BY <1>6, Advance
  <2>5. (\/ Then(<<Drop, Expect(";")>> \o ForTest)
         \/ Then(<<Drop, Call("consumeSemicolon")>> \o ForTest)) => Onward
    <3>1. \A is : AllHarmless(is) /\ Then(is) => Onward
      BY Steps, Advance
    <3> QED
      BY <2>2, <3>1
  <2>6. \/ Fail("internal error")
        \/ Skip(ForEach("parseExpression")) \/ Skip(ForEach("parseAssignmentExpression"))
        \/ Then(<<Drop, Expect(";")>> \o ForTest)
        \/ Then(<<Drop, Call("consumeSemicolon")>> \o ForTest)
    BY <1>10 DEF forDeclared
  <2> QED
    BY <2>1, <2>3, <2>4, <2>5, <2>6
<1>11. ASSUME forExpression PROVE QuietHead /\ Onward
  <2>1. QuietHead
    BY <1>11, Heads DEF forExpression
  <2>2. AllHarmless(<<Call("comma"), Drop, Expect(";")>> \o ForTest)
    <3>1. AllHarmless(<<Call("comma"), Drop, Expect(";")>>)
      BY Calls, Lists
    <3> QED
      BY <1>7, <3>1, Joined
  <2>3. \/ throw \/ Skip(ForEach("parseExpression")) \/ Skip(ForEach("parseAssignmentExpression"))
        \/ Then(<<Call("comma"), Drop, Expect(";")>> \o ForTest)
    BY <1>11 DEF forExpression
  <2>4. /\ \A is : AllHarmless(is) /\ Then(is) => Onward
        /\ \A is : AllPass(is) /\ Skip(is) => Onward
        /\ throw => Onward
    BY Steps, Advance
  <2> QED
    BY <1>6, <2>1, <2>2, <2>3, <2>4
<1>12. ASSUME forUpdate PROVE QuietHead /\ Onward
  <2>1. QuietHead
    BY <1>12, Heads DEF forUpdate
  <2>2. /\ AllPass(<<CallWith("closeHead", Loop(Isolate("parseStatement")))>>)
        /\ AllPass(<<Call("parseExpression"), Drop,
                     CallWith("closeHead", Loop(Isolate("parseStatement")))>>)
    BY <1>2, <1>4, PassLists
  <2> QED
    BY <1>12, <2>1, <2>2, Advance DEF forUpdate
<1> QED
  BY <1>8, <1>9, <1>10, <1>11, <1>12

\* What the invariant says of the call on top, by its name.
LEMMA OwnPlace ==
  ASSUME IInv, status = "parsing", NEW f, At(f)
  PROVE  /\ DOMAIN ctx = Watched \cup Covers /\ Stacked(ctx, todo) /\ InPlace(todo, 1)
         /\ f \in Unsettling => Unwatched(todo, 1)
         /\ f \in Indirect => Simple(arg)
         /\ f = "inheritCoverGrammar" => Simple(arg.f)
         /\ f = "isolateCoverGrammar" =>
              Simple(arg.f) \/ (arg.f = "parseFunctionSourceElements" /\ Unwatched(todo, 1))
         /\ f = "endIsolate" => DOMAIN arg \subseteq Covers
         /\ f \in {"parseScript", "parseModule"} => Len(todo) = 1
<1>1. Stacked(ctx, todo) /\ todo # <<>> /\ todo[1].f = f
  BY DEF IInv, At
<1>2. Len(todo) \in Nat \ {0} /\ DOMAIN todo = 1 .. Len(todo) /\ DOMAIN ctx = Watched \cup Covers
  BY <1>1 DEF Stacked
<1>3. InPlace(todo, 1)
  BY <1>1, <1>2 DEF Stacked
<1>4. ASSUME NEW b, NEW v, todo[1] = LoopHead(b, v) PROVE f = "closeHead"
  BY <1>1, <1>4 DEF LoopHead, CallWith
<1>5. Unsettles(todo[1]) =>
        \/ f \in Unsettling
        \/ f = "isolateCoverGrammar" /\ arg.f = "parseFunctionSourceElements"
  BY <1>1 DEF Unsettles, arg
<1>6. f \in Marked \cup Wrappers \cup Indirect \cup {"endIsolate"} =>
        (Harmless(todo[1]) =>
           \/ f \in Wrappers /\ Simple(arg.f)
           \/ f \in Indirect /\ Simple(arg)
           \/ f \in {"put", "endIsolate"} /\ DOMAIN arg \subseteq Covers
           \/ f = "closeHead")
  BY <1>1 DEF Harmless, Simple, arg
<1>7. CASE f \in Unsettling
  <2>1. Unwatched(todo, 1)
    BY <1>3, <1>4, <1>6, <1>7, <1>1 DEF InPlace, Unsettling, Marked, Wrappers, Indirect
  <2> QED
    BY <1>1, <1>2, <1>3, <1>7, <2>1 DEF Unsettling, Indirect
<1>8. CASE f \in Indirect \cup Wrappers \cup {"endIsolate"}
  BY <1>1, <1>2, <1>3, <1>4, <1>5, <1>6, <1>8 DEF InPlace, Unsettling, Wrappers, Indirect
<1>9. CASE f \in {"parseScript", "parseModule"}
  BY <1>1, <1>2, <1>3, <1>4, <1>5, <1>6, <1>9 DEF InPlace, Unsettling, Wrappers, Indirect, Marked
<1>10. CASE f \notin Unsettling \cup Indirect \cup Wrappers
                   \cup {"endIsolate", "parseScript", "parseModule"}
  BY <1>1, <1>2, <1>3, <1>10 DEF Wrappers
<1> QED
  BY <1>7, <1>8, <1>9, <1>10

\* Isolating and inheriting cover grammars, and looking one token further, run a simple
\* call or read directives in place.
LEMMA WrappersPass ==
  ASSUME IInv, status = "parsing"
  PROVE  isolateCoverGrammar \/ endIsolate \/ inheritCoverGrammar \/ endInherit \/ peek
           => QuietHead /\ Onward
<1> USE DEF Simple, Marked, Unsettling, Wrappers, Indirect
<1>1. ASSUME isolateCoverGrammar PROVE QuietHead /\ Onward
  <2> DEFINE end == CallWith("endIsolate", CoverFlags(ctx))
  <2>1. At("isolateCoverGrammar") /\ Go(FreshCover, vals, <<arg, end>>)
    BY <1>1 DEF isolateCoverGrammar
  <2>2. DOMAIN ctx = Watched \cup Covers
    BY <2>1, OwnPlace
  <2>3. Passes(arg)
    <3>1. Simple(arg.f) \/ (arg.f = "parseFunctionSourceElements" /\ Unwatched(todo, 1))
      BY <2>1, OwnPlace
    <3> QED
      BY <3>1 DEF Passes, Harmless, Unsettles
  <2>4. Passes(end)
    BY DEF Passes, Harmless, CallWith, CoverFlags, Covers
  <2>5. AllPass(<<arg, end>>)
    BY <2>3, <2>4, PassLists
  <2>6. Keeping(FreshCover)
    BY <2>2, CoverChanges DEF SameFlags, Keeping, Watched
  <2> HIDE DEF end
  <2> QED
    BY <2>1, <2>5, <2>6, Heads, Advance
<1>2. ASSUME endIsolate PROVE QuietHead /\ Onward
  <2>1. At("endIsolate") /\ (throw \/ Go(WithFlags(ctx, arg), vals, <<>>))
    BY <1>2 DEF endIsolate
  <2>2. DOMAIN ctx = Watched \cup Covers /\ DOMAIN arg \subseteq Covers
    BY <2>1, OwnPlace
  <2>3. SameFlags(WithFlags(ctx, arg))
    BY <2>2 DEF SameFlags, WithFlags, Covers, Watched, Flags
  <2>4. AllHarmless(<<>>)
    BY Lists
  <2>5. Goes
    BY <2>1, <2>3, <2>4, Steps
  <2> QED
    BY <2>1, <2>5, Heads, Advance
<1>3. ASSUME inheritCoverGrammar PROVE QuietHead /\ Onward
  <2> DEFINE end == CallWith("endInherit", CoverFlags(ctx))
  <2>1. At("inheritCoverGrammar") /\ Go(FreshCover, vals, <<arg, end>>)
    BY <1>3 DEF inheritCoverGrammar
  <2>2. DOMAIN ctx = Watched \cup Covers /\ Simple(arg.f)
    BY <2>1, OwnPlace
  <2>3. AllHarmless(<<arg, end>>)
    <3>1. Harmless(arg)
      BY <2>2 DEF Harmless
    <3>2. Harmless(end)
      BY Calls
    <3> QED
      BY <3>1, <3>2, Lists
  <2>4. SameFlags(FreshCover)
    BY <2>2, CoverChanges
  <2> HIDE DEF end
  <2>5. Goes
    BY <2>1, <2>3, <2>4, Steps
  <2> QED
    BY <2>1, <2>5, Heads, Advance
<1>4. ASSUME endInherit PROVE QuietHead /\ Onward
  <2> DEFINE c == [ctx EXCEPT
               !.isBindingElement = @ /\ arg.isBindingElement,
               !.isAssignmentTarget = @ /\ arg.isAssignmentTarget,
               !.firstCoverInitializedNameError = @ \/ arg.firstCoverInitializedNameError]
  <2>1. At("endInherit") /\ Go(c, vals, <<>>)
    BY <1>4 DEF endInherit
  <2>2. DOMAIN ctx = Watched \cup Covers
    BY <2>1, OwnPlace
  <2>3. SameFlags(c)
    BY <2>2 DEF SameFlags, Covers, Watched, Flags
  <2>4. AllHarmless(<<>>)
    BY Lists
  <2> HIDE DEF c
  <2>5. Goes
    BY <2>1, <2>3, <2>4, Steps
  <2> QED
    BY <2>1, <2>5, Heads, Advance
<1>5. ASSUME peek PROVE QuietHead /\ Onward
  <2>1. At("peek")
    BY <1>5 DEF peek
  <2>2. PICK a : Do(<<CallWith(arg, a)>>) /\ ctx' = ctx /\ status' = status
    BY <1>5 DEF peek
  <2>3. Simple(arg)
    BY <2>1, OwnPlace
  <2>4. AllHarmless(<<CallWith(arg, a)>>)
    BY <2>3, Calls, Lists
  <2>5. Goes
    BY <2>2, <2>4, Steps
  <2> QED
    BY <2>1, <2>5, Heads, Advance
<1> QED
  BY <1>1, <1>2, <1>3, <1>4, <1>5

\* The arguments of a call are parsed by the function they are parsed with.
LEMMA ArgumentsPass ==
  ASSUME IInv, status = "parsing"
  PROVE  parseArguments \/ firstArgument \/ argument \/ afterArgument \/ nextArgument
           => QuietHead /\ Onward
<1> USE DEF Simple, Marked, Unsettling, Wrappers, Indirect
<1>1. ASSUME NEW f \in Indirect, At(f), NEW g \in Indirect
      PROVE  /\ QuietHead /\ Harmless(CallWith(g, arg)) /\ Harmless(Isolate(arg))
             /\ Goes => Onward
  <2>1. Simple(arg)
    BY <1>1, OwnPlace
  <2> QED
    BY <1>1, <2>1, Calls, Heads, Advance
<1>2. ASSUME parseArguments PROVE QuietHead /\ Onward
  <2>1. At("parseArguments") /\ Give(Leaf("Arguments"), <<Expect("("), CallWith("firstArgument", arg)>>)
    BY <1>2 DEF parseArguments
  <2>2. AllHarmless(<<Expect("("), CallWith("firstArgument", arg)>>)
    BY <1>1, <2>1, Calls, Lists
  <2> QED
    BY <1>1, <2>1, <2>2, Steps
<1>3. ASSUME firstArgument PROVE QuietHead /\ Onward
  <2>1. At("firstArgument") /\ (Skip(<<>>) \/ Then(<<CallWith("argument", arg)>>))
    BY <1>3 DEF firstArgument
  <2>2. AllHarmless(<<>>) /\ AllHarmless(<<CallWith("argument", arg)>>)
    BY <1>1, <2>1, Lists
  <2> QED
    BY <1>1, <2>1, <2>2, Steps
<1>4. ASSUME argument PROVE QuietHead /\ Onward
  <2>1. PICK e \in {Call("parseSpreadElement"), Isolate(arg)} :
          At("argument") /\ Then(<<e, AddChild, CallWith("afterArgument", arg)>>)
    BY <1>4 DEF argument
  <2>2. Harmless(e) /\ Harmless(AddChild) /\ Harmless(CallWith("afterArgument", arg))
    BY <1>1, <2>1, Calls
  <2>3. AllHarmless(<<e, AddChild, CallWith("afterArgument", arg)>>)
    BY <2>2, Lists
  <2> QED
    BY <1>1, <2>1, <2>3, Steps
<1>5. ASSUME afterArgument PROVE QuietHead /\ Onward
  <2>1. At("afterArgument") /\
        (Skip(<<>>) \/ Then(<<Call("expectCommaSeparator"), CallWith("nextArgument", arg)>>))
    BY <1>5 DEF afterArgument
  <2>2. AllHarmless(<<>>)
        /\ AllHarmless(<<Call("expectCommaSeparator"), CallWith("nextArgument", arg)>>)
    BY <1>1, <2>1, Calls, Lists
  <2> QED
    BY <1>1, <2>1, <2>2, Steps
<1>6. ASSUME nextArgument PROVE QuietHead /\ Onward
  <2>1. At("nextArgument") /\ (Skip(<<>>) \/ Then(<<CallWith("argument", arg)>>))
    BY <1>6 DEF nextArgument
  <2>2. AllHarmless(<<>>) /\ AllHarmless(<<CallWith("argument", arg)>>)
    BY <1>1, <2>1, Lists
  <2> QED
    BY <1>1, <2>1, <2>2, Steps
<1> QED
  BY <1>2, <1>3, <1>4, <1>5, <1>6

\* The directives at the start of a script or function may make it strict: nobody below
\* counts on `strict`.
LEMMA DirectivesPass ==
  ASSUME IInv, status = "parsing"
  PROVE  (\/ arrowBody \/ parseFunctionSourceElements \/ parseDirectivePrologues \/ directive
          \/ endDirective \/ parseScript) => QuietHead /\ Onward
<1> USE DEF Simple, Marked, Unsettling, Wrappers, Indirect
<1>1. ASSUME NEW f \in Unsettling \cup {"parseScript"}, At(f)
      PROVE  /\ QuietHead /\ Unwatched(todo, 1) /\ DOMAIN ctx = Watched \cup Covers
             /\ \A g \in Unsettling : \A a : Passes(CallWith(g, a))
  <2>1. Unwatched(todo, 1)
    <3>1. Stacked(ctx, todo) /\ (f = "parseScript" => Len(todo) = 1)
      BY <1>1, OwnPlace
    <3>2. f = "parseScript" => Unwatched(todo, 1)
      BY <3>1 DEF Unwatched, Stacked
    <3> QED
      BY <1>1, <3>2, OwnPlace
  <2> QED
    BY <1>1, <2>1, OwnPlace, Heads DEF Passes, Unsettles, CallWith
<1>2. Keeping(ctx)
  BY DEF Keeping
<1>3. ASSUME NEW g, NEW a, Simple(g) PROVE Passes(CallWith(g, a)) /\ Passes(Call(g))
  BY <1>3, Calls DEF Passes
<1>4. ASSUME arrowBody PROVE QuietHead /\ Onward
  <2> DEFINE end == CallWith("endFunction", [params |-> arg, generator |-> "", kind |-> "arrow"])
             r == [allowIn |-> ctx.allowIn]
             c == [ctx EXCEPT !.allowIn = TRUE]
             body == Call("parseFunctionSourceElements")
  <2>1. /\ At("arrowBody")
        /\ Go(c, vals, <<body, Put(r), end>>) \/ Then(<<Isolate("parseAssignmentExpression"), end>>)
    BY <1>4 DEF arrowBody
  <2>2. Within(c, r)
    <3>1. DOMAIN r = {"allowIn"} /\ \A flag \in DOMAIN r : r[flag] = ctx[flag]
      OBVIOUS
    <3>2. DOMAIN c = DOMAIN ctx
      OBVIOUS
    <3>3. \A flag \in Watched : flag \notin {"allowIn"} => c[flag] = ctx[flag]
      BY <1>1, <2>1 DEF Watched, Flags, Covers
    <3> HIDE DEF c, r
    <3> QED
      BY <3>1, <3>2, <3>3 DEF Within, Watched, Flags
  <2>3. Before(body, r) /\ Harmless(end)
    <3>1. Unwatched(todo, 1)
      BY <1>1, <2>1
    <3> QED
      BY <3>1, Calls DEF Before, Unsettles, Call, CallWith
  <2>4. Restoring(<<body, Put(r), end>>, r)
    BY <2>3, Enclosing
  <2>5. AllHarmless(<<Isolate("parseAssignmentExpression"), end>>)
    BY <2>3, Calls, Lists
  <2> HIDE DEF c, r, body, end
  <2>6. QuietHead
    BY <2>1, Heads
  <2>7. CASE Go(c, vals, <<body, Put(r), end>>)
    BY <2>2, <2>4, <2>6, <2>7, Advance
  <2>8. CASE Then(<<Isolate("parseAssignmentExpression"), end>>)
    <3>1. Goes
      BY <2>5, <2>8, Steps
    <3> QED
      BY <2>6, <3>1, Advance
  <2> QED
    BY <2>1, <2>7, <2>8
<1>5. ASSUME parseFunctionSourceElements PROVE QuietHead /\ Onward
  <2> DEFINE a == CallWith("parseDirectivePrologues", FALSE)
             b == Call("functionStatements")
  <2>1. At("parseFunctionSourceElements") /\ Then(<<Expect("{"), a, b>>)
    BY <1>5 DEF parseFunctionSourceElements
  <2>2. Passes(Expect("{")) /\ Passes(a) /\ Passes(b)
    BY <1>1, <1>3, <2>1 DEF Expect
  <2> HIDE DEF a, b
  <2>3. AllPass(<<Expect("{"), a, b>>)
    BY <2>2, PassLists
  <2> QED
    BY <2>1, <2>3, Heads, Advance
<1>6. ASSUME parseDirectivePrologues PROVE QuietHead /\ Onward
  <2> DEFINE a == Call("parseExpression")
             b == CallWith("directive", [token |-> look, octal |-> arg])
  <2>1. At("parseDirectivePrologues") /\ (Then(<<a, b>>) \/ Then(<<>>))
    BY <1>6 DEF parseDirectivePrologues
  <2>2. Passes(a) /\ Passes(b)
    BY <1>1, <1>3, <2>1
  <2> HIDE DEF a, b
  <2>3. AllPass(<<a, b>>) /\ AllPass(<<>>)
    BY <2>2, PassLists, Lists
  <2> QED
    BY <2>1, <2>3, Heads, Advance
<1>7. ASSUME directive PROVE QuietHead /\ Onward
  <2> DEFINE a == Call("consumeSemicolon")
             b == CallWith("endDirective", arg)
  <2>1. At("directive") /\ (Go(ctx, Under, <<a>> \o <<b>>) \/ Go(ctx, Under, <<a>> \o <<>>))
    BY <1>7 DEF directive
  <2>2. Passes(a) /\ Passes(b)
    BY <1>1, <1>3, <2>1
  <2> HIDE DEF a, b
  <2>3. AllPass(<<a>>) /\ AllPass(<<b>>) /\ AllPass(<<>>)
    BY <2>2, PassLists, Lists
  <2>4. AllPass(<<a>> \o <<b>>) /\ AllPass(<<a>> \o <<>>)
    BY <2>3, PassLists
  <2> QED
    BY <1>2, <2>1, <2>4, Heads, Advance
<1>8. ASSUME endDirective PROVE QuietHead /\ Onward
  <2> DEFINE c == [ctx EXCEPT !.strict = TRUE]
             a(octal) == CallWith("parseDirectivePrologues", octal)
  <2>1. /\ At("endDirective")
        /\ throw \/ \E octal : Go(c, vals, <<a(octal)>>) \/ Then(<<a(octal)>>)
    BY <1>8 DEF endDirective
  <2>2. \A octal : Passes(a(octal))
    BY <1>1, <2>1
  <2>3. Keeping(c)
    BY <1>1, <2>1 DEF Keeping, Flags, Watched
  <2> HIDE DEF a, c
  <2>4. \A octal : AllPass(<<a(octal)>>)
    BY <2>2, PassLists
  <2>5. throw => Onward
    BY Steps, Advance
  <2> QED
    BY <2>1, <2>3, <2>4, <2>5, Heads, Advance
<1>9. ASSUME parseScript PROVE QuietHead /\ Onward
  <2> DEFINE a == CallWith("parseDirectivePrologues", FALSE)
             b == Call("program")
  <2>1. At("parseScript") /\ Then(<<a, b>>)
    BY <1>9 DEF parseScript
  <2>2. Passes(a) /\ Passes(b)
    BY <1>1, <1>3, <2>1
  <2> HIDE DEF a, b
  <2>3. AllPass(<<a, b>>)
    BY <2>2, PassLists
  <2> QED
    BY <1>1, <2>1, <2>3, Advance
<1> QED
  BY <1>4, <1>5, <1>6, <1>7, <1>8, <1>9

\* After the closing parenthesis of its head a loop sets inIteration and puts it back
\* after the body.
LEMMA HeadsClose ==
  ASSUME IInv, status = "parsing", closeHead
  PROVE  IInv'
<1>1. At("closeHead") /\ (Skip(arg) \/ Skip(<<>>) \/ throw)
  BY DEF closeHead
<1>2. QuietHead /\ InPlace(todo, 1) /\ todo[1].f = "closeHead" /\ todo[1].a = arg
  BY <1>1, OwnPlace, Heads DEF At, arg
<1>3. Goes => IInv'
  BY <1>2, Moved DEF Moves
<1>4. Skip(<<>>) \/ throw => Goes
  BY Lists, Steps
<1>5. CASE Skip(arg)
  <2>1. CASE Harmless(todo[1])
    <3>1. \/ \E b : arg = <<b>> /\ Simple(b.f)
          \/ \E a, b : arg = <<a, b>> /\ Simple(a.f) /\ Simple(b.f)
      BY <1>2, <2>1 DEF Harmless, Simple, Marked, Wrappers, Indirect
    <3>2. AllHarmless(arg)
      BY <3>1, Lists DEF Harmless
    <3> QED
      BY <1>3, <1>5, <3>2, Steps
  <2>2. ASSUME NEW b, NEW v, todo[1] = LoopHead(b, v), Harmless(b), Meets("inIteration", v, todo, 1)
        PROVE  IInv'
    <3> DEFINE p == Put([inIteration |-> TRUE])
               q == Put([inIteration |-> v])
    <3>1. arg = <<p, b, q>>
      BY <1>2, <2>2 DEF LoopHead, CallWith
    <3>2. /\ p.f = "put" /\ DOMAIN p.a = {"inIteration"}
          /\ q.f = "put" /\ DOMAIN q.a = {"inIteration"} /\ q.a["inIteration"] = v
      BY DEF Put, CallWith
    <3> HIDE DEF p, q
    <3>3. /\ <<p, b, q>> \in Seq(Range(<<p, b, q>>)) /\ DOMAIN <<p, b, q>> = 1 .. 3
          /\ Len(<<p, b, q>>) = 3
      BY Tuples
    <3>4. "inIteration" \in Watched \cup Covers /\ "labelSet" # "inIteration"
      BY DEF Watched, Flags
    <3>5. SetAfter(<<p, b, q>>, 1, "inIteration")
      BY <3>2 DEF SetAfter, Sets
    <3>6. Fits(<<p, b, q>>, 1, todo)
      BY <3>2, <3>4, <3>5 DEF Fits
    <3>7. Fits(<<p, b, q>>, 2, todo)
      BY <2>2 DEF Fits
    <3>8. Fits(<<p, b, q>>, 3, todo)
      BY <2>2, <3>2, <3>4 DEF Fits
    <3>9. ~SetAfter(<<p, b, q>>, 0, "labelSet")
      BY <2>2, <3>2, <3>4, NoSetter DEF SetAfter, Sets, Watched
    <3>10. Do(<<p, b, q>>) /\ ctx' = ctx /\ status' = status
      BY <1>5, <3>1 DEF Skip, GoNext
    <3>11. \A i \in DOMAIN <<p, b, q>> : Fits(<<p, b, q>>, i, todo)
      BY <3>3, <3>6, <3>7, <3>8
    <3> QED
      BY <1>2, <3>3, <3>9, <3>10, <3>11, Resumed
  <2> QED
    BY <1>2, <2>1, <2>2 DEF InPlace, Unsettles, Unsettling
<1> QED
  BY <1>1, <1>3, <1>4, <1>5

\* From one position of a stack to the one below it.
LEMMA Above ==
  ASSUME NEW s, Len(s) \in Nat, DOMAIN s = 1 .. Len(s), NEW i \in Nat, NEW m \in DOMAIN s, m = i + 1
  PROVE  /\ \A flag, v : ~Sets(s[m], flag) /\ Meets(flag, v, s, i) => Meets(flag, v, s, m)
         /\ \A flag, v :
              /\ Meets(flag, v, s, m)
              /\ s[m].f = "endItem" => Keeps(flag, v, s[m].a[flag])
              => Meets(flag, v, s, i)
         /\ ~Sets(s[m], "labelSet") =>
              Labels(s, i) = Labels(s, m) \cup IF s[m].f = "removeLabel" THEN {s[m].a} ELSE {}
<1>1. \A l \in DOMAIN s : (l > i <=> l = m \/ l > m) /\ (l > m => l # m)
  OBVIOUS
<1>2. ASSUME NEW flag
      PROVE  \A l \in DOMAIN s : l > m =>
               ((\A k \in (i + 1) .. (l - 1) : ~Sets(s[k], flag)) <=>
                  ~Sets(s[m], flag) /\ \A k \in (m + 1) .. (l - 1) : ~Sets(s[k], flag))
  <2>1. \A l \in DOMAIN s : l > m => (i + 1) .. (l - 1) = {m} \cup ((m + 1) .. (l - 1))
    OBVIOUS
  <2> QED
    BY <2>1
<1>3. \A flag : \A k \in (i + 1) .. (m - 1) : ~Sets(s[k], flag)
  OBVIOUS
<1>4. ASSUME NEW flag, NEW v, ~Sets(s[m], flag), Meets(flag, v, s, i) PROVE Meets(flag, v, s, m)
  BY <1>1, <1>2, <1>4 DEF Meets
<1>5. ASSUME NEW flag, NEW v, Meets(flag, v, s, m),
             s[m].f = "endItem" => Keeps(flag, v, s[m].a[flag])
      PROVE  Meets(flag, v, s, i)
  BY <1>1, <1>2, <1>5 DEF Meets
<1>6. ASSUME ~Sets(s[m], "labelSet")
      PROVE  Labels(s, i) = Labels(s, m) \cup IF s[m].f = "removeLabel" THEN {s[m].a} ELSE {}
  BY <1>1, <1>2, <1>3, <1>6 DEF Labels
<1> QED
  BY <1>4, <1>5, <1>6

\* The invariant after a step that takes the top of the stack and pushes nothing.
LEMMA Popped ==
  ASSUME IInv, status = "parsing", todo # <<>>, Do(<<>>), status' = status,
         DOMAIN ctx' = DOMAIN ctx,
         \A flag \in Flags : Meets(flag, ctx'[flag], todo, 1),
         ctx'["labelSet"] = Labels(todo, 1)
  PROVE  IInv'
<1>1. PICK is : is = <<>> /\ is \in Seq(Range(is)) /\ DOMAIN is = {} /\ Len(is) = 0
  <2>1. <<>> \in Seq(Range(<<>>))
    BY Tuples
  <2>2. DOMAIN <<>> = {} /\ Len(<<>>) = 0
    OBVIOUS
  <2> QED
    BY <2>1, <2>2
<1>2. Stacked(ctx, todo) /\ todo' = is \o Tail(todo)
  BY <1>1 DEF IInv, Do
<1>3. /\ todo \in Seq(Range(todo)) /\ \A j \in DOMAIN todo : InPlace(todo, j)
      /\ DOMAIN ctx = Watched \cup Covers
  BY <1>2 DEF Stacked
<1>4. Carried(todo, is, todo', 0)
  <2>1. Calm(is) /\ 0 \in 0 .. Len(is)
    BY <1>1 DEF Calm
  <2> QED
    BY <1>1, <1>2, <1>3, <2>1, Through
<1>5. \A flag : ~SetAfter(is, 0, flag)
  BY <1>1 DEF SetAfter
<1>7. /\ \A flag \in Flags : Meets(flag, ctx'[flag], todo', 0)
      /\ ctx'["labelSet"] = Labels(todo', 0)
  BY <1>4, <1>5 DEF Carried
<1>8. Stacked(ctx', todo')
  <2>1. DOMAIN ctx' = Watched \cup Covers /\ \A i \in DOMAIN is : InPlace(todo', i)
    BY <1>1, <1>3
  <2> QED
    BY <1>1, <1>2, <1>3, <1>7, <2>1, Placed
<1> QED
  BY <1>8 DEF IInv

\* What the context promises below the top, when the top sets nothing.
LEMMA Uppermost ==
  ASSUME IInv, status = "parsing", todo # <<>>
  PROVE  /\ \A flag \in Flags : ~Sets(todo[1], flag) => Meets(flag, ctx[flag], todo, 1)
         /\ ~Sets(todo[1], "labelSet") =>
              ctx["labelSet"]
                = Labels(todo, 1) \cup IF todo[1].f = "removeLabel" THEN {todo[1].a} ELSE {}
<1>1. /\ Stacked(ctx, todo) /\ Len(todo) \in Nat /\ DOMAIN todo = 1 .. Len(todo)
      /\ 1 \in DOMAIN todo /\ 1 = 0 + 1 /\ 0 \in Nat
  BY DEF IInv, Stacked
<1>2. PICK i \in Nat, m \in DOMAIN todo : i = 0 /\ m = 1 /\ m = i + 1
  BY <1>1
<1>3. /\ \A flag, v : ~Sets(todo[m], flag) /\ Meets(flag, v, todo, i) => Meets(flag, v, todo, m)
      /\ ~Sets(todo[m], "labelSet") =>
           Labels(todo, i)
             = Labels(todo, m) \cup IF todo[m].f = "removeLabel" THEN {todo[m].a} ELSE {}
  BY <1>1, <1>2, Above
<1> QED
  BY <1>1, <1>2, <1>3 DEF Stacked

\* Flags are put back, items end and labels are removed as those below expect.
LEMMA Returns ==
  ASSUME IInv, status = "parsing", put \/ endItem \/ removeLabel
  PROVE  IInv'
<1>1. ASSUME NEW f \in {"put", "endItem", "removeLabel"}, At(f)
      PROVE  /\ todo # <<>> /\ todo[1].f = f /\ todo[1].a = arg
             /\ InPlace(todo, 1) /\ DOMAIN ctx = Watched \cup Covers
  BY <1>1, OwnPlace DEF At, arg
<1>2. \A b, v : LoopHead(b, v).f = "closeHead"
  BY DEF LoopHead, CallWith
<1>3. ~Unsettles(todo[1]) \/ todo[1].f \in Unsettling \cup {"isolateCoverGrammar"}
  BY DEF Unsettles
<1>4. CASE endItem
  <2>1. At("endItem") /\ Do(<<>>) /\ ctx' = ctx /\ status' = status
    BY <1>4 DEF endItem, Then, Go
  <2>2. todo # <<>> /\ todo[1].f = "endItem"
    BY <1>1, <2>1
  <2>3. \A flag : ~Sets(todo[1], flag)
    BY <1>3, <2>2 DEF Sets, Unsettling
  <2>4. \A flag \in Flags : Meets(flag, ctx[flag], todo, 1)
    BY <2>2, <2>3, Uppermost
  <2>5. ctx["labelSet"] = Labels(todo, 1)
    BY <2>2, <2>3, Uppermost
  <2> QED
    BY <2>1, <2>2, <2>4, <2>5, Popped
<1>5. CASE removeLabel
  <2> DEFINE c == [ctx EXCEPT !.labelSet = @ \ {arg}]
  <2>1. At("removeLabel") /\ Do(<<>>) /\ ctx' = c /\ status' = status
    BY <1>5 DEF removeLabel, Go
  <2>2. /\ todo # <<>> /\ todo[1].f = "removeLabel" /\ todo[1].a = arg
        /\ DOMAIN ctx = Watched \cup Covers
    BY <1>1, <2>1
  <2>3. \A flag : ~Sets(todo[1], flag)
    BY <1>3, <2>2 DEF Sets, Unsettling
  <2>4. arg \notin Labels(todo, 1)
    <3>1. InPlace(todo, 1)
      BY <1>1, <2>1
    <3>2. ~Harmless(todo[1])
      BY <2>2, Quiet
    <3> QED
      BY <1>2, <1>3, <2>2, <3>1, <3>2 DEF InPlace, Unsettling
  <2>5. ctx["labelSet"] = Labels(todo, 1) \cup {arg}
    BY <2>2, <2>3, Uppermost
  <2>6. DOMAIN c = DOMAIN ctx /\ c["labelSet"] = ctx["labelSet"] \ {arg}
        /\ \A flag \in Flags : c[flag] = ctx[flag]
    BY <2>2 DEF Watched, Flags
  <2> HIDE DEF c
  <2>7. c["labelSet"] = Labels(todo, 1)
    BY <2>4, <2>5, <2>6
  <2>8. \A flag \in Flags : Meets(flag, c[flag], todo, 1)
    BY <2>2, <2>3, <2>6, Uppermost
  <2> QED
    BY <2>1, <2>2, <2>6, <2>7, <2>8, Popped
<1>6. CASE put
  <2> DEFINE c == WithFlags(ctx, arg)
  <2>1. At("put") /\ Do(<<>>) /\ ctx' = c /\ status' = status
    BY <1>6 DEF put, Go
  <2>2. todo # <<>> /\ todo[1].f = "put" /\ todo[1].a = arg /\ DOMAIN ctx = Watched \cup Covers
    BY <1>1, <2>1
  <2>3. \A flag : flag \notin DOMAIN arg => ~Sets(todo[1], flag)
    BY <1>3, <2>2 DEF Sets, Unsettling
  <2>4. \/ DOMAIN arg \subseteq Covers
        \/ /\ \A flag \in DOMAIN arg \cap Flags : Meets(flag, arg[flag], todo, 1)
           /\ "labelSet" \in DOMAIN arg => arg["labelSet"] = Labels(todo, 1)
    <3>1. InPlace(todo, 1)
      BY <1>1, <2>1
    <3>2. Harmless(todo[1]) => DOMAIN arg \subseteq Covers
      BY <2>2 DEF Harmless, Simple, Marked, Wrappers, Indirect
    <3> QED
      BY <1>2, <1>3, <2>2, <3>1, <3>2 DEF InPlace, Unsettling
  <2>5. \A flag \in DOMAIN arg \cap Flags : Meets(flag, arg[flag], todo, 1)
    BY <2>4 DEF Covers, Flags
  <2>6. "labelSet" \in DOMAIN arg => arg["labelSet"] = Labels(todo, 1)
    BY <2>4 DEF Covers
  <2>7. /\ DOMAIN c = DOMAIN ctx
        /\ \A flag \in Flags : c[flag] = IF flag \in DOMAIN arg THEN arg[flag] ELSE ctx[flag]
        /\ c["labelSet"] = IF "labelSet" \in DOMAIN arg THEN arg["labelSet"] ELSE ctx["labelSet"]
    BY <2>2 DEF WithFlags, Watched
  <2> HIDE DEF c
  <2>8. \A flag \in Flags : Meets(flag, c[flag], todo, 1)
    BY <2>2, <2>3, <2>5, <2>7, Uppermost
  <2>9. c["labelSet"] = Labels(todo, 1)
    BY <2>2, <2>3, <2>6, <2>7, Uppermost
  <2> QED
    BY <2>1, <2>2, <2>7, <2>8, <2>9, Popped
<1> QED
  BY <1>4, <1>5, <1>6

\* Two instructions on top: what must hold at the top follows from what holds under them.
LEMMA Topmost ==
  ASSUME NEW t, Len(t) \in Nat, DOMAIN t = 1 .. Len(t), 1 \in DOMAIN t, 2 \in DOMAIN t,
         t[1].f \notin {"endItem", "removeLabel"}, ~Sets(t[1], "labelSet"), ~Sets(t[2], "labelSet")
  PROVE  /\ \A flag, v :
              /\ Meets(flag, v, t, 2)
              /\ t[2].f = "endItem" => Keeps(flag, v, t[2].a[flag])
              => Meets(flag, v, t, 0)
         /\ Labels(t, 0) = Labels(t, 2) \cup IF t[2].f = "removeLabel" THEN {t[2].a} ELSE {}
<1>1. PICK h \in Nat, i \in DOMAIN t, m \in DOMAIN t :
        h = 0 /\ i = 1 /\ m = 2 /\ i = h + 1 /\ m = i + 1 /\ i \in Nat
  OBVIOUS
<1>2. /\ \A flag, v :
           /\ Meets(flag, v, t, m)
           /\ t[m].f = "endItem" => Keeps(flag, v, t[m].a[flag])
           => Meets(flag, v, t, i)
      /\ ~Sets(t[m], "labelSet") =>
           Labels(t, i) = Labels(t, m) \cup IF t[m].f = "removeLabel" THEN {t[m].a} ELSE {}
  BY <1>1, Above
<1>3. /\ \A flag, v :
           /\ Meets(flag, v, t, i)
           /\ t[i].f = "endItem" => Keeps(flag, v, t[i].a[flag])
           => Meets(flag, v, t, h)
      /\ ~Sets(t[i], "labelSet") =>
           Labels(t, h) = Labels(t, i) \cup IF t[i].f = "removeLabel" THEN {t[i].a} ELSE {}
  BY <1>1, Above
<1> QED
  BY <1>1, <1>2, <1>3

\* A list of two instructions.
Pair(is, a, b) ==
  is \in Seq(Range(is)) /\ DOMAIN is = {1, 2} /\ Len(is) = 2 /\ is[1] = a /\ is[2] = b

\* The instruction b closes what the change of the context from c to d opens: an item that
\* remembers the flags, or a label that was added.
Brackets(b, c, d) ==
  /\ DOMAIN d = DOMAIN c /\ \A flag \in Flags : d[flag] = c[flag]
  /\ \/ /\ b.f = "endItem" /\ b.a["labelSet"] = c["labelSet"] /\ d["labelSet"] = c["labelSet"]
        /\ \A flag \in Flags : b.a[flag] = c[flag]
     \/ b.f = "removeLabel" /\ b.a \notin c["labelSet"] /\ d["labelSet"] = c["labelSet"] \cup {b.a}

\* The pair, written out.
LEMMA Pairs == \A a, b : Pair(<<a, b>>, a, b)
<1> SUFFICES ASSUME NEW a, NEW b PROVE Pair(<<a, b>>, a, b)
  OBVIOUS
<1>1. <<a, b>> \in Seq(Range(<<a, b>>))
  BY Tuples
<1>2. DOMAIN <<a, b>> = {1, 2} /\ Len(<<a, b>>) = 2 /\ <<a, b>>[1] = a /\ <<a, b>>[2] = b
  OBVIOUS
<1> QED
  BY <1>1, <1>2 DEF Pair

\* A harmless call and what closes it, pushed on a stack in order.
LEMMA Doubled ==
  ASSUME NEW c, NEW s, NEW d, NEW t, NEW is, NEW a, NEW b, Stacked(c, s), s # <<>>,
         s[1].f \notin {"put", "endItem", "removeLabel"}, Pair(is, a, b), t = is \o Tail(s),
         Harmless(a), Brackets(b, c, d)
  PROVE  Stacked(d, t)
<1>1. /\ s \in Seq(Range(s)) /\ \A j \in DOMAIN s : InPlace(s, j)
      /\ DOMAIN c = Watched \cup Covers
  BY DEF Stacked
<1>2. is \in Seq(Range(is))
  BY DEF Pair
<1>3. DOMAIN is = {1, 2} /\ Len(is) = 2 /\ is[1] = a /\ is[2] = b
  BY DEF Pair
<1>4. /\ Len(s) \in Nat \ {0} /\ Len(t) = Len(is) + Len(s) - 1 /\ DOMAIN t = 1 .. Len(t)
      /\ \A i \in 1 .. Len(is) : t[i] = is[i]
  BY <1>1, <1>2, Pushing
<1>5. t[1] = a /\ t[2] = b /\ 1 \in DOMAIN t /\ 2 \in DOMAIN t /\ Len(t) \in Nat
  BY <1>3, <1>4
<1>6. /\ \A flag, v : Meets(flag, v, s, 1) => Meets(flag, v, t, 2)
      /\ Labels(t, 2) = Labels(s, 1)
  <2>1. /\ \A flag, v : Meets(flag, v, s, 1) => Meets(flag, v, t, Len(is))
        /\ Labels(t, Len(is)) = Labels(s, 1)
    BY <1>1, <1>2, Continued
  <2> QED
    BY <1>3, <2>1
<1>7. /\ \A flag \in Flags : Meets(flag, c[flag], s, 1)
      /\ Labels(s, 1) = c["labelSet"]
  BY Heading
<1>8. ~Sets(a, "labelSet") /\ a.f \notin {"endItem", "removeLabel"}
  BY NoSetter, Quiet DEF Watched
<1>9. ~Sets(b, "labelSet")
  BY DEF Sets, Brackets
<1>10. /\ \A flag, v :
            /\ Meets(flag, v, t, 2)
            /\ b.f = "endItem" => Keeps(flag, v, b.a[flag])
            => Meets(flag, v, t, 0)
       /\ Labels(t, 0) = Labels(t, 2) \cup IF b.f = "removeLabel" THEN {b.a} ELSE {}
  BY <1>4, <1>5, <1>8, <1>9, Topmost
<1>12. \A flag \in Flags : Meets(flag, d[flag], t, 0)
  <2>1. ASSUME NEW flag \in Flags PROVE b.f = "endItem" => Keeps(flag, c[flag], b.a[flag])
    BY DEF Keeps, Brackets
  <2> QED
    BY <1>6, <1>7, <1>10, <2>1 DEF Brackets
<1>13. d["labelSet"] = Labels(t, 0)
  BY <1>6, <1>7, <1>10 DEF Brackets
<1>14. InPlace(t, 1) /\ InPlace(t, 2)
  BY <1>5, <1>6, <1>7 DEF InPlace, Brackets
<1>15. \A i \in DOMAIN is : InPlace(t, i)
  BY <1>3, <1>14
<1> QED
  BY <1>1, <1>2, <1>12, <1>13, <1>15, Placed DEF Brackets

\* A statement item remembers the flags it starts with; a labelled statement adds a label
\* that is not there yet.
LEMMA ItemsStart ==
  ASSUME IInv, status = "parsing", parseStatementListItem \/ label
  PROVE  IInv'
<1> USE DEF Simple, Marked, Unsettling, Wrappers, Indirect
<1>1. ASSUME NEW f \in {"parseStatementListItem", "label"}, At(f)
      PROVE  /\ QuietHead /\ Stacked(ctx, todo) /\ DOMAIN ctx = Watched \cup Covers
             /\ Goes => IInv'
  BY <1>1, OwnPlace, Heads, Moved DEF Moves
<1>2. CASE parseStatementListItem
  <2> DEFINE c == [ctx EXCEPT !.isAssignmentTarget = TRUE, !.isBindingElement = TRUE]
             b == CallWith("endItem", ctx)
  <2>1. /\ At("parseStatementListItem")
        /\ \/ throw
           \/ \E a \in {Call("parseExportDeclaration"), Peek("importItem"),
                        Call("declarationStatement"), Call("functionItem"), Call("classItem"),
                        Peek("letItem"), Call("parseStatement")} : Go(c, vals, <<a, b>>)
    BY <1>2 DEF parseStatementListItem
  <2>2. throw => IInv'
    BY <1>1, <2>1, Steps
  <2>3. ASSUME NEW a \in {Call("parseExportDeclaration"), Peek("importItem"),
                          Call("declarationStatement"), Call("functionItem"), Call("classItem"),
                          Peek("letItem"), Call("parseStatement")}, Go(c, vals, <<a, b>>)
        PROVE  IInv'
    <3>1. Harmless(a)
      BY <2>3, Calls
    <3>2. todo # <<>> /\ todo[1].f \notin {"put", "endItem", "removeLabel"} /\ Stacked(ctx, todo)
      BY <1>1, <2>1 DEF QuietHead
    <3>3. /\ DOMAIN c = DOMAIN ctx /\ c["labelSet"] = ctx["labelSet"]
          /\ \A flag \in Flags : c[flag] = ctx[flag]
      BY DEF Flags
    <3>4. b.f = "endItem" /\ b.a = ctx
      BY DEF CallWith
    <3>5. ctx' = c /\ todo' = <<a, b>> \o Tail(todo) /\ status' = status
      BY <2>3 DEF Go, Do
    <3> HIDE DEF c, b
    <3>6. Brackets(b, ctx, c)
      BY <3>3, <3>4 DEF Brackets
    <3>7. PICK is : Pair(is, a, b) /\ todo' = is \o Tail(todo)
      BY <3>5, Pairs
    <3>8. Stacked(c, todo')
      BY <3>1, <3>2, <3>6, <3>7, Doubled
    <3> QED
      BY <3>5, <3>8 DEF IInv
  <2> QED
    BY <2>1, <2>2, <2>3
<1>3. CASE label
  <2> DEFINE c == [ctx EXCEPT !.labelSet = @ \cup {Top.n}]
             a == Call("labelled")
             b == CallWith("removeLabel", Top.n)
  <2>1. /\ At("label")
        /\ \/ throwFormatted \/ Go(ctx, Under, <<Call("consumeSemicolon")>>)
           \/ Top.n \notin ctx.labelSet /\ GoNext(c, Under, <<a, b>>)
    BY <1>3, Zenon DEF label
  <2>2. DOMAIN ctx = Watched \cup Covers
    BY <1>1, <2>1
  <2>3. ASSUME throwFormatted \/ Go(ctx, Under, <<Call("consumeSemicolon")>>) PROVE IInv'
    <3>1. SameFlags(ctx) /\ AllHarmless(<<Call("consumeSemicolon")>>)
      BY <2>2, CoverChanges, Calls, Lists
    <3>2. Goes
      BY <2>3, <3>1, Steps
    <3> QED
      BY <1>1, <2>1, <3>2
  <2>4. ASSUME Top.n \notin ctx.labelSet, GoNext(c, Under, <<a, b>>) PROVE IInv'
    <3>1. Harmless(a)
      BY Calls
    <3>2. todo # <<>> /\ todo[1].f \notin {"put", "endItem", "removeLabel"} /\ Stacked(ctx, todo)
      BY <1>1, <2>1 DEF QuietHead
    <3>3. b.f = "removeLabel" /\ b.a = Top.n
      BY DEF CallWith
    <3>4. /\ DOMAIN c = DOMAIN ctx /\ c["labelSet"] = ctx["labelSet"] \cup {b.a}
          /\ \A flag \in Flags : c[flag] = ctx[flag]
      BY <2>2, <3>3 DEF Flags, Watched
    <3>5. ctx' = c /\ todo' = <<a, b>> \o Tail(todo) /\ status' = status
      BY <2>4 DEF GoNext, Do
    <3>6. b.a \notin ctx["labelSet"]
      BY <2>4, <3>3
    <3> HIDE DEF c, a, b
    <3>9. Brackets(b, ctx, c)
      BY <3>3, <3>4, <3>6 DEF Brackets
    <3>7. PICK is : Pair(is, a, b) /\ todo' = is \o Tail(todo)
      BY <3>5, Pairs
    <3>8. Stacked(c, todo')
      BY <3>1, <3>2, <3>7, <3>9, Doubled
    <3> QED
      BY <3>5, <3>8 DEF IInv
  <2> QED
    BY <2>1, <2>3, <2>4
<1> QED
  BY <1>2, <1>3

\* A module is strict from the start: it is the last call on the stack.
LEMMA ModuleStarts ==
  ASSUME IInv, status = "parsing", parseModule
  PROVE  IInv'
<1> USE DEF Simple, Marked, Unsettling, Wrappers, Indirect
<1> DEFINE c == [ctx EXCEPT !.strict = TRUE, !.isModule = TRUE]
           a == CallWith("parseDirectivePrologues", FALSE)
           b == Call("program")
<1>1. At("parseModule") /\ Go(c, vals, <<a, b>>)
  BY DEF parseModule
<1>2. /\ Stacked(ctx, todo) /\ DOMAIN ctx = Watched \cup Covers /\ Len(todo) = 1 /\ QuietHead
      /\ todo \in Seq(Range(todo)) /\ \A j \in DOMAIN todo : InPlace(todo, j)
  BY <1>1, OwnPlace, Heads DEF Stacked
<1>3. Unwatched(todo, 1) /\ \A flag, v : Meets(flag, v, todo, 1)
  BY <1>2 DEF Unwatched, Meets
<1>4. Unsettles(a) /\ Harmless(b)
  BY Calls DEF Unsettles, CallWith
<1>5. /\ DOMAIN c = DOMAIN ctx /\ c["labelSet"] = ctx["labelSet"]
  OBVIOUS
<1>6. ctx["labelSet"] = Labels(todo, 1)
  BY <1>2, Heading DEF QuietHead
<1>7. ctx' = c /\ todo' = <<a, b>> \o Tail(todo) /\ status' = status
  BY <1>1 DEF Go, Do
<1> HIDE DEF c, a, b
<1>8. /\ <<a, b>> \in Seq(Range(<<a, b>>)) /\ DOMAIN <<a, b>> = 1 .. 2 /\ Len(<<a, b>>) = 2
  BY Tuples
<1>9. Fits(<<a, b>>, 1, todo) /\ Fits(<<a, b>>, 2, todo)
  BY <1>3, <1>4 DEF Fits
<1>10. ~SetAfter(<<a, b>>, 0, "labelSet")
  BY <1>4, NoSetter DEF SetAfter, Watched
<1>11. PICK is : is = <<a, b>>
  OBVIOUS
<1>12. /\ is \in Seq(Range(is)) /\ todo # <<>> /\ todo' = is \o Tail(todo)
       /\ \A i \in DOMAIN is : Fits(is, i, todo)
       /\ ~SetAfter(is, 0, "labelSet")
  BY <1>2, <1>7, <1>8, <1>9, <1>10, <1>11 DEF QuietHead
<1>13. Stacked(c, todo')
  BY <1>2, <1>3, <1>5, <1>6, <1>12, Pushed
<1> QED
  BY <1>7, <1>13 DEF IInv

\* Every step of the grammar takes the call on top of the stack.
LEMMA Running == MachineStep \/ ExpressionStep \/ StatementStep \/ ModuleStep => todo # <<>>
<1>1. MachineStep => todo # <<>>
  BY Zenon DEF MachineStep, At, expect, expectKeyword, commaUnless, expectCommaSeparator,
       consumeSemicolon, isolateCoverGrammar, endIsolate, inheritCoverGrammar, endInherit, put,
       drop, addChild, build, peek
<1>2. ExpressionStep => todo # <<>>
  BY Zenon DEF ExpressionStep, At, parsePrimaryExpression, asyncPrimary, parseSpreadElement,
       parseArrayInitializer, arrayElement, afterSpread, parseTemplateLiteral,
       parseTemplateElement, parsePropertyMethod, endFunction, parsePropertyMethodFunction,
       parsePropertyMethodAsyncFunction, parseGetterMethod, parseSetterMethod,
       parseGeneratorMethod, checkArity, parseObjectPropertyKey, parseObjectInitializer,
       objectProperty, afterProperty, parseObjectProperty, identifierProperty, propertyValue,
       parseGroupExpression, groupFirst, arrowAhead, restArrow, groupNext, groupMore, groupItem,
       groupRestArrow, groupClosed, parseArguments, firstArgument, argument, afterArgument,
       nextArgument, parseAsyncArgument, parseIdentifierName, parseNewExpression, newCallee,
       newTarget, newArguments, parseLeftHandSideExpressionAllowCall, superMember,
       parseLeftHandSideExpression, memberOrCall, endCall, parseUpdateExpression, prefixUpdate,
       postfixUpdate, parseUnaryExpression, endUnary, parseExponentiationExpression, power,
       endPower, parseBinaryExpression, firstOperator, nextOperator, parseConditionalExpression,
       conditional, parseAssignmentExpression, asyncArrow, asyncParameter, assignment,
       arrowBody, parseYieldExpression, yieldArgument, endYield, parseExpression, comma
<1>3. StatementStep => todo # <<>>
  BY Zenon DEF StatementStep, At, openNames, dropNames, parseVariableIdentifier, parsePattern,
       parseArrayPattern, patternElement, parsePatternWithDefault, patternDefault,
       parseObjectPattern, patternProperty, parsePropertyPattern, shorthandPattern,
       parseRestElement, endRest, nextDeclarator, declarator, declared, lexicalInit,
       variableInit, declarationStatement, parseFormalParameters, formals, endParameter,
       parseFunctionDeclaration, parseDefaultFunction, parseFunctionExpression, functionStar,
       functionName, functionBody, parseFunctionSourceElements, functionStatements, statements,
       parseDirectivePrologues, directive, endDirective, parseStatementListItem, endItem,
       functionItem, classItem, importItem, letItem, parseStatement, asyncStatement, parseBlock,
       parseExpressionStatement, parseIfClause, closeHead, parseIfStatement, elseClause,
       parseWithStatement, parseWhileStatement, parseDoWhileStatement, optionalSemicolon,
       parseForStatement, forInit, forLexical, forDeclared, forExpression, forTest, forUpdate,
       parseContinueStatement, parseBreakStatement, jumpTarget, knownLabel, allowedJump,
       parseReturnStatement, returnArgument, parseSwitchStatement, switchCase, secondDefault,
       caseStatements, parseLabelledStatement, label, labelled, labelledFunction, removeLabel,
       parseThrowStatement, throwArgument, parseTryStatement, catchOrFinally, finallyClause,
       catchParameter, catchPattern, endCatchPattern, parseDebuggerStatement, functionKeyword,
       jump
<1>4. ModuleStep => todo # <<>>
  BY Zenon DEF ModuleStep, At, parseClass, parseClassExpression, className, heritage,
       classElement, elementKey, asyncElement, elementValue, endElement, parseModuleSpecifier,
       fromClause, parseNamedImports, namedImport, parseImportSpecifier, importAs,
       parseImportNamespaceSpecifier, namespaceAs, parseImportDeclaration, importClause,
       afterDefaultImport, moreImports, parseExportDeclaration, exported, exportDefault,
       exportDefaultAsync, exportAsync, exportSpecifiers, afterDefaultExport, exportBraces,
       exportSpecifier, exportAs, endExport, parseScript, parseModule, program
<1> QED
  BY <1>1, <1>2, <1>3, <1>4

\* The parser starts with one call and no label.
LEMMA Begins == Init => IInv
<1> SUFFICES ASSUME Init PROVE IInv
  OBVIOUS
<1>1. PICK f \in {"parseScript", "parseModule"} : todo = <<Call(f)>>
  BY DEF Init
<1>2. PICK x : x = Call(f)
  OBVIOUS
<1>3. x.f = f /\ todo = <<x>>
  BY <1>1, <1>2 DEF Call, CallWith
<1>4. todo \in Seq(Range(todo)) /\ DOMAIN todo = {1} /\ Len(todo) = 1 /\ todo[1].f = f
  BY <1>3, Tuples
<1>5. \A flag, v : Meets(flag, v, todo, 0)
  BY <1>4 DEF Meets
<1>6. Labels(todo, 0) = {}
  BY <1>4 DEF Labels
<1>7. InPlace(todo, 1)
  BY <1>4 DEF InPlace
<1>8. /\ DOMAIN ctx = Watched \cup Covers /\ ctx["labelSet"] = {} /\ status = "parsing"
  BY DEF Init, Watched, Flags, Covers
<1> QED
  BY <1>4, <1>5, <1>6, <1>7, <1>8 DEF IInv, Stacked

\* Every step of the parser keeps the context in step with the calls that are still to
\* return.
LEMMA Inductive == IInv /\ [Next]_vars => IInv'
<1> SUFFICES ASSUME IInv, [Next]_vars PROVE IInv'
  OBVIOUS
<1>1. CASE UNCHANGED vars
  BY <1>1 DEF IInv, Stacked, Meets, Labels, InPlace, Unwatched, vars
<1>2. CASE Next /\ status # "parsing"
  <2>1. Finished
    BY <1>2, Running DEF Next, IInv
  <2> QED
    BY <1>1, <2>1 DEF Finished
<1>3. CASE Next /\ status = "parsing"
  <2>1. DOMAIN ctx = Watched \cup Covers
    BY <1>3 DEF IInv, Stacked
  <2>2. QuietHead /\ Onward => IInv'
    BY <1>3, Advanced
  <2>3. Moves => IInv'
    BY <1>3, Moved
  <2>4. CASE MachineStep
    BY <1>3, <2>1, <2>2, <2>3, <2>4, MachineMoves, WrappersPass, Returns DEF MachineStep
  <2>5. CASE ExpressionStep
    BY <1>3, <2>1, <2>2, <2>3, <2>5, ExpressionMoves, FunctionsRestore, ExpressionsRestore,
       PropertiesPass, ArgumentsPass, DirectivesPass DEF ExpressionStep
  <2>6. CASE StatementStep
    BY <1>3, <2>1, <2>2, <2>3, <2>6, StatementMoves, FunctionsRestore, ExpressionsRestore,
       StatementsRestore, LoopsPass, DirectivesPass, HeadsClose, Returns, ItemsStart
       DEF StatementStep
  <2>7. CASE ModuleStep
    BY <1>3, <2>1, <2>2, <2>3, <2>7, ModuleMoves, StatementsRestore, PropertiesPass,
       DirectivesPass, ModuleStarts DEF ModuleStep
  <2> QED
    BY <1>3, <2>4, <2>5, <2>6, <2>7 DEF Next, Finished
<1> QED
  BY <1>1, <1>2, <1>3

\* The end of an item finds the flags it remembers, being the first to count on them.
LEMMA Scoped == IInv => ContextScoped
<1> SUFFICES ASSUME IInv, At("endItem") PROVE ContextScoped
  BY DEF ContextScoped
<1>1. status = "parsing" /\ todo # <<>> /\ todo[1].f = "endItem" /\ todo[1].a = arg
  BY DEF IInv, At, arg
<1>2. Stacked(ctx, todo) /\ 1 \in DOMAIN todo /\ InPlace(todo, 1)
  BY <1>1 DEF IInv, Stacked
<1>3. \A flag \in Flags : Keeps(flag, ctx[flag], arg[flag])
  <2>1. \A k \in (0 + 1) .. (1 - 1) : FALSE
    OBVIOUS
  <2> QED
    BY <1>1, <1>2, <2>1 DEF Stacked, Meets
<1>4. ~Unsettles(todo[1]) /\ ~Harmless(todo[1])
  BY <1>1, Quiet DEF Unsettles, Unsettling
<1>5. \A b, v : todo[1] # LoopHead(b, v)
  BY <1>1 DEF LoopHead, CallWith
<1>6. arg["labelSet"] = Labels(todo, 1)
  BY <1>1, <1>2, <1>4, <1>5 DEF InPlace
<1>7. ctx["labelSet"] = Labels(todo, 1)
  BY <1>1, Uppermost DEF Sets
<1> QED
  BY <1>3, <1>6, <1>7 DEF ContextScoped, Keeps, Flags

\* The labels below the top, up to the return from the function, are those LabelsInScope
\* reads off the stack.
LEMMA Scope == IInv => LabelsInScope
<1> SUFFICES ASSUME IInv, status = "parsing" PROVE LabelsInScope
  BY DEF LabelsInScope
<1>1. /\ Len(todo) \in Nat /\ DOMAIN todo = 1 .. Len(todo) /\ ctx["labelSet"] = Labels(todo, 0)
  BY DEF IInv, Stacked
<1>2. \A k \in DOMAIN todo : Sets(todo[k], "labelSet") <=> k \in FunctionReturns
  BY DEF Sets, FunctionReturns
<1>3. ASSUME NEW j \in DOMAIN todo, todo[j].f = "removeLabel"
      PROVE  /\ j > 0
             /\ (\A k \in (0 + 1) .. (j - 1) : ~Sets(todo[k], "labelSet"))
                  <=> \A r \in FunctionReturns : j < r
  <2>1. j \notin FunctionReturns
    BY <1>3 DEF FunctionReturns
  <2>2. FunctionReturns \subseteq DOMAIN todo
    BY DEF FunctionReturns
  <2>3. \A k \in DOMAIN todo : k \in (0 + 1) .. (j - 1) <=> ~(j < k) /\ k # j
    BY <1>1
  <2>4. (0 + 1) .. (j - 1) \subseteq DOMAIN todo /\ j > 0
    BY <1>1
  <2> QED
    BY <1>2, <2>1, <2>2, <2>3, <2>4
<1>4. {l \in DOMAIN todo : /\ l > 0 /\ todo[l].f = "removeLabel"
                          /\ \A k \in (0 + 1) .. (l - 1) : ~Sets(todo[k], "labelSet")}
        = {j \in DOMAIN todo : todo[j].f = "removeLabel" /\ \A r \in FunctionReturns : j < r}
  BY <1>3
<1> QED
  BY <1>1, <1>4 DEF LabelsInScope, Labels

\* For every source text, in every state of the parser: the flags of the context are the
\* ones that the calls still to return count on, at every depth of the stack (the saved
\* and restored attributes of Context in JSParser.py).
THEOREM Scoping == Spec => []IInv
BY Begins, Inductive, PTL DEF Spec

\* For every source text: when an item of a statement list has been parsed, the flags of
\* the context are those it started with, save that allowYield may be lost, whatever
\* functions, classes, loops, switches and labels were parsed in between.
THEOREM FlagsRestored == Spec => []ContextScoped
BY Scoping, Scoped, PTL

\* For every source text: the label set that break and continue consult holds exactly the
\* labels of the labelled statements around them in the same function.
THEOREM LabelsFollowCalls == Spec => []LabelsInScope
BY Scoping, Scope, PTL

-----------------------------------------------------------------------------
(* Templates: while an element is awaited, the lexer holds a `${` for it. *)

\* Calls that take the token they were chosen for without looking at it again.
Takers == {"asyncPrimary", "parseNewExpression", "parseYieldExpression", "declarationStatement",
           "letItem", "parseIfStatement", "parseWithStatement", "parseWhileStatement",
           "parseDoWhileStatement", "parseForStatement", "parseContinueStatement",
           "parseBreakStatement", "parseReturnStatement", "parseSwitchStatement",
           "parseThrowStatement", "parseTryStatement", "parseDebuggerStatement",
           "exportAsync", "exportSpecifiers"}

\* A call that neither takes a token unseen nor awaits a template element, and runs no
\* call it was given.
Still(f) ==
  f \notin Takers \cup Wrappers \cup Indirect \cup {"closeHead", "parseTemplateElement"}

\* An instruction that only ever starts such calls.
Bare(x) == Still(x.f) \/ (x.f \in Wrappers /\ Still(x.a.f))
AllBare(is) == is \in Seq(Range(is)) /\ \A x \in Range(is) : Bare(x)
Idle(x) ==
  \/ Bare(x)
  \/ x.f \in Indirect /\ Still(x.a)
  \/ x.f = "closeHead" /\ AllBare(x.a)
AllIdle(is) == is \in Seq(Range(is)) /\ \A x \in Range(is) : Idle(x)

\* An instruction that is about to take the token.
Ready(x) ==
  \/ x.f \in Takers
  \/ x.f = "inheritCoverGrammar" /\ x.a.f \in Takers
  \/ x.f = "peek" /\ x.a \in Takers

\* A list that such an instruction leads.
Led(is) ==
  /\ is \in Seq(Range(is)) /\ is # <<>>
  /\ Ready(is[1])
  /\ \A i \in DOMAIN is : i > 1 => Idle(is[i])

\* The call that awaits the rest of a template.
Awaits(x) == x.f = "parseTemplateElement"

\* The positions of a sequence that hold a member of S.
Hits(s, S) == {i \in DOMAIN s : s[i] \in S}

\* The elements awaited on a stack and the templates open on a stack of braces, with one
\* for a token that has opened its template but not been taken, or has closed it.
Elements(s) == Cardinality(Hits(s, {x \in Range(s) : Awaits(x)}))
Opened(c) == Cardinality(Hits(c, {"${"}))
OpenBrace(y) == IF y = "${" THEN 1 ELSE 0
Begun(v) == IF v = "quasi${" THEN 1 ELSE 0
Ended(v) == IF v = "}quasi" THEN 1 ELSE 0

\* What the lexer returns: a token of a template is one by its kind too.
Lexical(s) ==
  /\ DOMAIN s = {"at", "look", "nl", "curly", "drawn", "twice"}
  /\ s.curly \in Seq(Range(s.curly))
  /\ s.look.v \in {"quasi${", "}quasi"} => s.look.k = "Template"

\* A stack on which only the call on top may be about to take the token, and that only if
\* p, every other one idle or awaiting an element.
Ranked(s, p) ==
  /\ s \in Seq(Range(s))
  /\ \A i \in DOMAIN s :
       \/ Idle(s[i])
       \/ Awaits(s[i])
       \/ i = 1 /\ Ready(s[1]) /\ p

\* There are as many templates open in the lexer as elements awaited, with the piece of a
\* template that is looked at taken or not taken.
Balanced(s, r) == Elements(s) + Begun(r.look.v) <= Opened(r.curly) + Ended(r.look.v)

\* The inductive invariant: what is about to take the token unseen never takes a piece of a
\* template, and so every element that is awaited has its template.
TemplateInv ==
  status = "parsing" /\ ~src.tolerant =>
    /\ Lexical(scan)
    /\ Ranked(todo, look.k # "Template")
    /\ ~scan.twice => Balanced(todo, scan)

\* The token is no piece of a template, or at least none that opens or closes one; of a
\* tolerant parser nothing is claimed.
NoPiece == src.tolerant \/ look.k # "Template"
Passable == NoPiece \/ look.v \notin {"quasi${", "}quasi"}

\* The plain step: the parse stops, or idle instructions replace the call on top and the
\* token is taken only if it is such a one, or the next call will take the token, which is
\* no piece of a template.
Reads == scan' = scan \/ (Passable /\ \E strict : scan' \in Lexed(scan, strict))
Serves ==
  \/ status' # "parsing"
  \/ /\ src' = src
     /\ \/ src.tolerant
        \/ \E is : AllIdle(is) /\ Do(is) /\ Reads
        \/ \E is : Led(is) /\ Do(is) /\ scan' = scan /\ NoPiece

-----------------------------------------------------------------------------
\* A sequence over S is one over any larger set.
LEMMA SeqOver ==
  ASSUME NEW S, NEW A, S \subseteq A, NEW s \in Seq(S)
  PROVE  s \in Seq(A)
OBVIOUS

\* The members of S in a sequence are finitely many.
LEMMA HitsFinite ==
  ASSUME NEW A, NEW s \in Seq(A), NEW S
  PROVE  IsFiniteSet(Hits(s, S)) /\ Cardinality(Hits(s, S)) \in Nat
<1>1. IsFiniteSet(1 .. Len(s))
  BY FS_Interval
<1>2. Hits(s, S) \in SUBSET (1 .. Len(s))
  BY DEF Hits
<1>3. IsFiniteSet(Hits(s, S))
  BY <1>1, <1>2, FS_Subset
<1> QED
  BY <1>3, FS_CardinalityType

\* A sequence without its first element has one member of S less, if that was one.
LEMMA HitsTail ==
  ASSUME NEW A, NEW s \in Seq(A), s # <<>>, NEW S
  PROVE  /\ Tail(s) \in Seq(A)
         /\ Cardinality(Hits(Tail(s), S))
              = Cardinality(Hits(s, S)) - (IF s[1] \in S THEN 1 ELSE 0)
<1> DEFINE H == Hits(s, S) \ {1}
           T == Hits(Tail(s), S)
           g == [i \in H |-> i - 1]
<1>1. /\ Len(s) \in Nat \ {0} /\ DOMAIN s = 1 .. Len(s)
      /\ Tail(s) \in Seq(A) /\ Len(Tail(s)) = Len(s) - 1
      /\ DOMAIN Tail(s) = 1 .. (Len(s) - 1)
      /\ \A i \in 1 .. (Len(s) - 1) : Tail(s)[i] = s[i + 1]
  OBVIOUS
<1>2. IsFiniteSet(Hits(s, S)) /\ Cardinality(Hits(s, S)) \in Nat
  BY HitsFinite
<1>3. /\ IsFiniteSet(H)
      /\ Cardinality(H) = Cardinality(Hits(s, S)) - (IF s[1] \in S THEN 1 ELSE 0)
  <2>1. 1 \in Hits(s, S) <=> s[1] \in S
    BY <1>1 DEF Hits
  <2>2. /\ IsFiniteSet(H)
        /\ Cardinality(H) = IF 1 \in Hits(s, S) THEN Cardinality(Hits(s, S)) - 1
                                                ELSE Cardinality(Hits(s, S))
    BY <1>2, FS_RemoveElement
  <2> QED
    BY <1>2, <2>1, <2>2
<1>4. g \in [H -> T]
  BY <1>1 DEF Hits
<1>5. \A i, j \in H : g[i] = g[j] => i = j
  BY <1>1 DEF Hits
<1>6. \A t \in T : \E i \in H : g[i] = t
  <2> SUFFICES ASSUME NEW t \in T PROVE t + 1 \in H /\ g[t + 1] = t
    OBVIOUS
  <2>1. t \in 1 .. (Len(s) - 1) /\ s[t + 1] \in S
    BY <1>1 DEF Hits
  <2>2. t + 1 \in 1 .. Len(s) /\ t + 1 # 1 /\ (t + 1) - 1 = t
    BY <1>1, <2>1
  <2>3. t + 1 \in H
    BY <1>1, <2>1, <2>2 DEF Hits
  <2> QED
    BY <2>2, <2>3
<1>7. ExistsBijection(H, T)
  <2>1. g \in Bijection(H, T)
    BY <1>4, <1>5, <1>6, Zenon DEF Bijection, Injection, IsInjective, Surjection
  <2> QED
    BY <2>1, Zenon DEF ExistsBijection
<1>8. Cardinality(T) = Cardinality(H)
  BY <1>3, <1>7, FS_Bijection
<1> QED
  BY <1>1, <1>3, <1>8

\* In front of a sequence, one element counts if it is a member of S.
LEMMA HitsCons ==
  ASSUME NEW A, NEW s \in Seq(A), NEW x \in A, NEW S
  PROVE  /\ <<x>> \o s \in Seq(A)
         /\ Cardinality(Hits(<<x>> \o s, S))
              = Cardinality(Hits(s, S)) + (IF x \in S THEN 1 ELSE 0)
<1> DEFINE t == <<x>> \o s
<1>1. t \in Seq(A) /\ t # <<>> /\ t[1] = x /\ Tail(t) = s
  OBVIOUS
<1>2. Cardinality(Hits(s, S)) = Cardinality(Hits(t, S)) - (IF x \in S THEN 1 ELSE 0)
  <2> HIDE DEF t
  <2> QED
    BY <1>1, HitsTail
<1>3. Cardinality(Hits(t, S)) \in Nat
  BY <1>1, HitsFinite
<1> QED
  BY <1>1, <1>2, <1>3

\* A list with no member of S in front of a sequence adds none.
LEMMA HitsJoin ==
  ASSUME NEW A, NEW is \in Seq(A), NEW s \in Seq(A), NEW S,
         \A i \in DOMAIN is : is[i] \notin S
  PROVE  Cardinality(Hits(is \o s, S)) = Cardinality(Hits(s, S))
<1> DEFINE H == Hits(s, S)
           T == Hits(is \o s, S)
           g == [i \in H |-> i + Len(is)]
<1>1. /\ Len(is) \in Nat /\ Len(s) \in Nat
      /\ DOMAIN is = 1 .. Len(is) /\ DOMAIN s = 1 .. Len(s)
      /\ DOMAIN (is \o s) = 1 .. (Len(is) + Len(s))
      /\ \A i \in 1 .. (Len(is) + Len(s)) :
           (is \o s)[i] = IF i <= Len(is) THEN is[i] ELSE s[i - Len(is)]
  OBVIOUS
<1>2. IsFiniteSet(H)
  BY HitsFinite
<1>3. \A i \in H : i + Len(is) \in T
  BY <1>1 DEF Hits
<1>4. g \in [H -> T]
  BY <1>3
<1>5. \A i, j \in H : g[i] = g[j] => i = j
  BY <1>1 DEF Hits
<1>6. \A t \in T : \E i \in H : g[i] = t
  <2> SUFFICES ASSUME NEW t \in T PROVE t - Len(is) \in H /\ g[t - Len(is)] = t
    OBVIOUS
  <2>1. t \in 1 .. (Len(is) + Len(s)) /\ (is \o s)[t] \in S
    BY <1>1 DEF Hits
  <2>2. ~(t <= Len(is))
    BY <1>1, <2>1
  <2>3. t - Len(is) \in 1 .. Len(s) /\ s[t - Len(is)] \in S /\ (t - Len(is)) + Len(is) = t
    BY <1>1, <2>1, <2>2
  <2>4. t - Len(is) \in H
    BY <1>1, <2>3 DEF Hits
  <2> QED
    BY <2>3, <2>4
<1>7. ExistsBijection(H, T)
  <2>1. g \in Bijection(H, T)
    BY <1>4, <1>5, <1>6, Zenon DEF Bijection, Injection, IsInjective, Surjection
  <2> QED
    BY <2>1, Zenon DEF ExistsBijection
<1> QED
  BY <1>2, <1>7, FS_Bijection

\* Idle instructions, and the one about to take the token, await no element.
LEMMA IdleAwaitsNone == \A x : Idle(x) \/ Ready(x) => ~Awaits(x)
BY DEF Awaits, Idle, Bare, Still, Ready, Takers, Wrappers, Indirect

\* A step that pushes instructions that await no element awaits no more than before, and one
\* less if it took the call that awaits one.
LEMMA ElementsPushed ==
  ASSUME NEW s, NEW is, NEW t, s \in Seq(Range(s)), is \in Seq(Range(is)), s # <<>>,
         t = is \o Tail(s), \A i \in DOMAIN is : ~Awaits(is[i])
  PROVE  /\ Elements(s) \in Nat /\ Elements(t) \in Nat
         /\ Elements(t) = Elements(s) - (IF Awaits(s[1]) THEN 1 ELSE 0)
<1> DEFINE A == Range(s) \cup Range(is)
           S == {x \in A : Awaits(x)}
<1>1. s \in Seq(A) /\ is \in Seq(A) /\ Tail(s) \in Seq(A) /\ s[1] \in A
  OBVIOUS
<1>2. t \in Seq(A)
  BY <1>1
<1>3. Cardinality(Hits(t, S)) = Cardinality(Hits(Tail(s), S))
  <2>1. \A i \in DOMAIN is : is[i] \notin S
    OBVIOUS
  <2> HIDE DEF S, A
  <2> QED
    BY <1>1, <2>1, HitsJoin
<1>4. Cardinality(Hits(Tail(s), S))
        = Cardinality(Hits(s, S)) - (IF s[1] \in S THEN 1 ELSE 0)
  <2> HIDE DEF S, A
  <2> QED
    BY <1>1, HitsTail
<1>5. s[1] \in S <=> Awaits(s[1])
  BY <1>1
<1>6. ASSUME NEW r \in Seq(A)
      PROVE  Hits(r, {x \in Range(r) : Awaits(x)}) = Hits(r, S)
  <2> HIDE DEF A
  <2>1. \A i \in DOMAIN r : r[i] \in Range(r) /\ r[i] \in A
    BY <1>6 DEF Range
  <2> QED
    BY <2>1 DEF Hits
<1>7. Elements(s) = Cardinality(Hits(s, S)) /\ Elements(t) = Cardinality(Hits(t, S))
  BY <1>1, <1>2, <1>6 DEF Elements
<1>8. Cardinality(Hits(s, S)) \in Nat /\ Cardinality(Hits(t, S)) \in Nat
  BY <1>1, <1>2, HitsFinite
<1> QED
  BY <1>3, <1>4, <1>5, <1>7, <1>8

\* A brace more on the stack of braces.
LEMMA BracePushed ==
  ASSUME NEW c, c \in Seq(Range(c)), NEW y, NEW t, t = <<y>> \o c
  PROVE  /\ t \in Seq(Range(t)) /\ Opened(c) \in Nat
         /\ Opened(t) = Opened(c) + OpenBrace(y)
<1>1. PICK A : A = Range(c) \cup {y}
  OBVIOUS
<1>2. PICK S : S = {"${"}
  OBVIOUS
<1>3. c \in Seq(A) /\ y \in A
  BY <1>1, SeqOver
<1>4. t \in Seq(A) /\ Cardinality(Hits(t, S)) = Cardinality(Hits(c, S)) + (IF y \in S THEN 1 ELSE 0)
  BY <1>3, HitsCons
<1>5. Cardinality(Hits(c, S)) \in Nat
  BY <1>3, HitsFinite
<1>6. Opened(c) = Cardinality(Hits(c, S)) /\ Opened(t) = Cardinality(Hits(t, S))
  BY <1>2 DEF Opened
<1>7. OpenBrace(y) = (IF y \in S THEN 1 ELSE 0)
  BY <1>2 DEF OpenBrace
<1>8. t \in Seq(Range(t))
  BY <1>4, OwnRange
<1> QED
  BY <1>4, <1>5, <1>6, <1>7, <1>8

\* A brace less on the stack of braces.
LEMMA BracePopped ==
  ASSUME NEW c, c \in Seq(Range(c)), c # <<>>, NEW t, t = Tail(c)
  PROVE  /\ t \in Seq(Range(t)) /\ Opened(c) \in Nat
         /\ Opened(t) = Opened(c) - OpenBrace(c[1])
<1>1. PICK A : A = Range(c)
  OBVIOUS
<1>2. PICK S : S = {"${"}
  OBVIOUS
<1>3. c \in Seq(A)
  BY <1>1
<1>4. t \in Seq(A) /\ Cardinality(Hits(t, S)) = Cardinality(Hits(c, S)) - (IF c[1] \in S THEN 1 ELSE 0)
  BY <1>3, HitsTail
<1>5. Cardinality(Hits(c, S)) \in Nat
  BY <1>3, HitsFinite
<1>6. Opened(c) = Cardinality(Hits(c, S)) /\ Opened(t) = Cardinality(Hits(t, S))
  BY <1>2 DEF Opened
<1>7. OpenBrace(c[1]) = (IF c[1] \in S THEN 1 ELSE 0)
  BY <1>2 DEF OpenBrace
<1>8. t \in Seq(Range(t))
  BY <1>4, OwnRange
<1> QED
  BY <1>4, <1>5, <1>6, <1>7, <1>8

\* The templates open on a stack of braces are a number.
LEMMA BracesCounted == \A c : c \in Seq(Range(c)) => Opened(c) \in Nat
<1> SUFFICES ASSUME NEW c, c \in Seq(Range(c)) PROVE Opened(c) \in Nat
  OBVIOUS
<1>1. PICK A : A = Range(c)
  OBVIOUS
<1>2. PICK S : S = {"${"}
  OBVIOUS
<1>3. c \in Seq(A)
  BY <1>1
<1>4. Cardinality(Hits(c, S)) \in Nat
  BY <1>3, HitsFinite
<1> QED
  BY <1>2, <1>4 DEF Opened

\* What a token does to the stack of braces.
LEMMA Braces ==
  ASSUME NEW c, c \in Seq(Range(c)), NEW v, NEW x \in Spellings(v, c)
  PROVE  /\ CurlyAfter(x, c) \in Seq(Range(CurlyAfter(x, c)))
         /\ Opened(c) \in Nat /\ Opened(CurlyAfter(x, c)) \in Nat
         /\ Opened(c) + Begun(x) <= Opened(CurlyAfter(x, c)) + Ended(x)
<1>1. PICK b : b = CurlyAfter(x, c)
  OBVIOUS
<1>2. Opened(c) \in Nat
  BY BracesCounted
<1>3. \/ \E y : b = <<y>> \o c /\ OpenBrace(y) = 0 /\ Begun(x) = 0 /\ Ended(x) = 0
      \/ \E y : b = <<y>> \o c /\ OpenBrace(y) = 1 /\ Begun(x) = 1 /\ Ended(x) = 0
      \/ /\ c # <<>> /\ b = Tail(c) /\ Begun(x) = 0
         /\ \/ OpenBrace(c[1]) = 0 /\ Ended(x) = 0
            \/ OpenBrace(c[1]) \in {0, 1} /\ Ended(x) = 1
      \/ b = c /\ Begun(x) = 0 /\ Ended(x) \in {0, 1}
  <2>1. x = "}" => ~InTemplate(c)
    BY DEF Spellings
  <2>2. CASE x = "{"
    <3>1. PICK y : y = "{"
      OBVIOUS
    <3>2. b = <<y>> \o c /\ OpenBrace(y) = 0
      BY <1>1, <2>2, <3>1 DEF CurlyAfter, OpenBrace
    <3>3. Begun(x) = 0 /\ Ended(x) = 0
      BY <2>2 DEF Begun, Ended
    <3> QED
      BY <3>2, <3>3
  <2>3. CASE x = "quasi${"
    <3>1. PICK y : y = "${"
      OBVIOUS
    <3>2. b = <<y>> \o c /\ OpenBrace(y) = 1
      BY <1>1, <2>3, <3>1 DEF CurlyAfter, OpenBrace
    <3>3. Begun(x) = 1 /\ Ended(x) = 0
      BY <2>3 DEF Begun, Ended
    <3> QED
      BY <3>2, <3>3
  <2>4. CASE x \in {"}", "}quasi"} /\ c # <<>>
    <3>1. b = Tail(c)
      BY <1>1, <2>4 DEF CurlyAfter, Pop
    <3>2. x = "}" => OpenBrace(c[1]) = 0
      BY <2>1, <2>4 DEF InTemplate, OpenBrace
    <3>3. Begun(x) = 0 /\ Ended(x) = (IF x = "}" THEN 0 ELSE 1) /\ OpenBrace(c[1]) \in {0, 1}
      BY <2>4 DEF Begun, Ended, OpenBrace
    <3> QED
      BY <2>4, <3>1, <3>2, <3>3
  <2>5. CASE x \notin {"{", "quasi${"} /\ ~(x \in {"}", "}quasi"} /\ c # <<>>)
    <3>1. b = c
      BY <1>1, <2>5 DEF CurlyAfter, Pop
    <3>2. Begun(x) = 0 /\ Ended(x) \in {0, 1}
      BY <2>5 DEF Begun, Ended
    <3> QED
      BY <3>1, <3>2
  <2> QED
    BY <2>2, <2>3, <2>4, <2>5
<1>4. b \in Seq(Range(b)) /\ Opened(b) \in Nat /\ Opened(c) + Begun(x) <= Opened(b) + Ended(x)
  <2>1. ASSUME NEW y, b = <<y>> \o c
        PROVE  b \in Seq(Range(b)) /\ Opened(b) = Opened(c) + OpenBrace(y)
    BY <2>1, BracePushed
  <2>2. ASSUME c # <<>>, b = Tail(c)
        PROVE  b \in Seq(Range(b)) /\ Opened(b) = Opened(c) - OpenBrace(c[1])
    BY <2>2, BracePopped
  <2>3. b \in Seq(Range(b))
    BY <1>3, <2>1, <2>2
  <2>4. Opened(b) \in Nat
    BY <2>3, BracesCounted
  <2>5. CASE \E y : b = <<y>> \o c /\ OpenBrace(y) = 0 /\ Begun(x) = 0 /\ Ended(x) = 0
    BY <1>2, <2>1, <2>3, <2>4, <2>5
  <2>6. CASE \E y : b = <<y>> \o c /\ OpenBrace(y) = 1 /\ Begun(x) = 1 /\ Ended(x) = 0
    BY <1>2, <2>1, <2>3, <2>4, <2>6
  <2>7. CASE /\ c # <<>> /\ b = Tail(c) /\ Begun(x) = 0
             /\ \/ OpenBrace(c[1]) = 0 /\ Ended(x) = 0
                \/ OpenBrace(c[1]) \in {0, 1} /\ Ended(x) = 1
    BY <1>2, <2>2, <2>3, <2>4, <2>7
  <2>8. CASE b = c /\ Begun(x) = 0 /\ Ended(x) \in {0, 1}
    BY <1>2, <2>3, <2>8
  <2> QED
    BY <1>3, <2>5, <2>6, <2>7, <2>8
<1> QED
  BY <1>1, <1>2, <1>4

\* The templates open after a token, with the one it closed, are no fewer than those before
\* and the one it opened.
LEMMA Lexing ==
  ASSUME NEW s, s.curly \in Seq(Range(s.curly)), NEW strict, NEW r \in Lexed(s, strict)
  PROVE  /\ Lexical(r) /\ r.twice = s.twice
         /\ Opened(s.curly) \in Nat /\ Opened(r.curly) \in Nat
         /\ Opened(s.curly) + Begun(r.look.v) <= Opened(r.curly) + Ended(r.look.v)
<1>0. PICK d \in Draws(s) :
        \E x \in Spellings(d.v, s.curly) :
          r = [at    |-> IF x = "EOF" THEN Len(src.lexemes) + 1 ELSE s.at + 1,
               look  |-> IF strict /\ isStrictModeReservedWord(x)
                           THEN [k |-> "Keyword", v |-> x, line |-> d.line]
                           ELSE Token(x, d.line),
               nl    |-> d.line # s.look.line,
               curly |-> CurlyAfter(x, s.curly),
               drawn |-> NoLexeme,
               twice |-> s.twice]
  BY DEF Lexed
<1>1. PICK x \in Spellings(d.v, s.curly) :
        r = [at    |-> IF x = "EOF" THEN Len(src.lexemes) + 1 ELSE s.at + 1,
             look  |-> IF strict /\ isStrictModeReservedWord(x)
                         THEN [k |-> "Keyword", v |-> x, line |-> d.line]
                         ELSE Token(x, d.line),
             nl    |-> d.line # s.look.line,
             curly |-> CurlyAfter(x, s.curly),
             drawn |-> NoLexeme,
             twice |-> s.twice]
  BY <1>0
<1>2. /\ DOMAIN r = {"at", "look", "nl", "curly", "drawn", "twice"}
      /\ r.curly = CurlyAfter(x, s.curly) /\ r.twice = s.twice
      /\ r.look = IF strict /\ isStrictModeReservedWord(x)
                    THEN [k |-> "Keyword", v |-> x, line |-> d.line]
                    ELSE Token(x, d.line)
  BY <1>1
<1>3. r.look.v = x
  BY <1>2 DEF Token
<1>4. ASSUME x \in {"quasi${", "}quasi"} PROVE r.look.k = "Template"
  <2>1. ~isStrictModeReservedWord(x)
    BY <1>4 DEF isStrictModeReservedWord
  <2>2. /\ x \notin Keywords /\ x \notin Punctuators /\ x \notin {"num", "octal num"}
        /\ x \notin {"str", "octal str", "use strict"} /\ x \notin {"true"} /\ x \notin {"null"}
        /\ x \in {"quasi${", "quasi", "}quasi${", "}quasi"}
    BY <1>4 DEF Keywords, Punctuators
  <2>3. KindOf(x) = "Template"
    BY <2>2 DEF KindOf
  <2> QED
    BY <1>2, <2>1, <2>3 DEF Token
<1>5. x \in Spellings(d.v, s.curly)
  BY <1>1
<1>6. PICK c : c = s.curly
  OBVIOUS
<1>7. /\ CurlyAfter(x, c) \in Seq(Range(CurlyAfter(x, c)))
      /\ Opened(c) \in Nat /\ Opened(CurlyAfter(x, c)) \in Nat
      /\ Opened(c) + Begun(x) <= Opened(CurlyAfter(x, c)) + Ended(x)
  BY <1>5, <1>6, Braces
<1>8. Lexical(r)
  BY <1>2, <1>3, <1>4, <1>6, <1>7 DEF Lexical
<1> QED
  BY <1>2, <1>3, <1>6, <1>7, <1>8

-----------------------------------------------------------------------------
\* The stack after a step: what was below the call on top stays ranked.
LEMMA Restacked ==
  ASSUME NEW s, NEW is, NEW t, NEW p, NEW q, Ranked(s, p), is \in Seq(Range(is)), s # <<>>,
         t = is \o Tail(s),
         \A i \in DOMAIN is :
           \/ Idle(is[i])
           \/ Awaits(is[i])
           \/ i = 1 /\ Ready(is[1]) /\ q
  PROVE  Ranked(t, q)
<1>1. s \in Seq(Range(s))
  BY DEF Ranked
<1>2. /\ t \in Seq(Range(t))
      /\ Len(is) \in Nat /\ Len(s) \in Nat \ {0} /\ Len(t) = Len(is) + Len(s) - 1
      /\ DOMAIN is = 1 .. Len(is) /\ DOMAIN s = 1 .. Len(s) /\ DOMAIN t = 1 .. Len(t)
      /\ \A i \in 1 .. Len(is) : t[i] = is[i]
      /\ \A i \in (Len(is) + 1) .. Len(t) : t[i] = s[i - Len(is) + 1]
  <2>1. /\ t \in Seq(Range(t))
        /\ Len(is) \in Nat /\ Len(s) \in Nat \ {0} /\ Len(t) = Len(is) + Len(s) - 1
        /\ DOMAIN is = 1 .. Len(is) /\ DOMAIN s = 1 .. Len(s) /\ DOMAIN t = 1 .. Len(t)
    BY <1>1, Pushing
  <2>2. \A i \in 1 .. Len(is) : t[i] = is[i]
    BY <1>1, Pushing
  <2>3. \A i \in (Len(is) + 1) .. Len(t) : t[i] = s[i - Len(is) + 1]
    BY <1>1, Pushing
  <2> QED
    BY <2>1, <2>2, <2>3
<1>3. ASSUME NEW i \in DOMAIN t
      PROVE  \/ Idle(t[i])
             \/ Awaits(t[i])
             \/ i = 1 /\ Ready(t[1]) /\ q
  <2>1. CASE i \in 1 .. Len(is)
    <3>1. i \in DOMAIN is /\ t[i] = is[i] /\ (i = 1 => t[1] = is[1])
      BY <1>2, <2>1
    <3> QED
      BY <3>1
  <2>2. CASE i \notin 1 .. Len(is)
    <3>1. PICK j \in DOMAIN s : j = i - Len(is) + 1 /\ j # 1
      BY <1>2, <1>3, <2>2
    <3>2. t[i] = s[j]
      BY <1>2, <1>3, <2>2, <3>1
    <3> QED
      BY <3>1, <3>2 DEF Ranked
  <2> QED
    BY <2>1, <2>2
<1> QED
  BY <1>2, <1>3 DEF Ranked

\* A plain step keeps the templates that are awaited open.
LEMMA Served ==
  ASSUME TemplateInv, status = "parsing", todo # <<>>, Serves
  PROVE  TemplateInv'
<1>1. CASE status' # "parsing" \/ (src.tolerant /\ src' = src)
  BY <1>1 DEF TemplateInv
<1>2. CASE status' = "parsing" /\ ~src.tolerant
  <2>1. /\ Lexical(scan) /\ Ranked(todo, look.k # "Template")
        /\ ~scan.twice => Balanced(todo, scan)
    BY <1>2 DEF TemplateInv
  <2>2. PICK is : Do(is) /\ \/ AllIdle(is) /\ Reads
                            \/ Led(is) /\ scan' = scan /\ look.k # "Template"
    BY <1>2 DEF Serves, NoPiece
  <2>3. is \in Seq(Range(is)) /\ \A i \in DOMAIN is : Idle(is[i]) \/ (i = 1 /\ Ready(is[1]) /\ Led(is))
    <3>1. CASE AllIdle(is)
      <4>1. \A i \in DOMAIN is : is[i] \in Range(is)
        BY DEF Range
      <4> QED
        BY <3>1, <4>1 DEF AllIdle
    <3>2. CASE Led(is)
      <4>1. \A i \in DOMAIN is : i = 1 \/ i > 1
        BY <3>2 DEF Led
      <4> QED
        BY <3>2, <4>1 DEF Led
    <3> QED
      BY <2>2, <3>1, <3>2
  <2>4. todo' = is \o Tail(todo) /\ todo \in Seq(Range(todo))
    BY <2>1, <2>2 DEF Do, Ranked
  <2>5. PICK q : q = (look'.k # "Template")
    OBVIOUS
  <2>6. Led(is) /\ ~AllIdle(is) => q
    BY <2>2, <2>5 DEF look
  <2>7. Ranked(todo', q)
    <3>1. \A i \in DOMAIN is :
            \/ Idle(is[i])
            \/ Awaits(is[i])
            \/ i = 1 /\ Ready(is[1]) /\ q
      <4>1. CASE AllIdle(is)
        <5>1. \A i \in DOMAIN is : is[i] \in Range(is)
          BY DEF Range
        <5> QED
          BY <4>1, <5>1 DEF AllIdle
      <4>2. CASE ~AllIdle(is)
        BY <2>2, <2>3, <2>6, <4>2
      <4> QED
        BY <4>1, <4>2
    <3> QED
      BY <2>1, <2>3, <2>4, <3>1, Restacked
  <2>8. /\ Elements(todo) \in Nat /\ Elements(todo') \in Nat
        /\ Elements(todo') <= Elements(todo)
    <3>1. \A i \in DOMAIN is : ~Awaits(is[i])
      BY <2>3, IdleAwaitsNone
    <3>2. /\ Elements(todo) \in Nat /\ Elements(todo') \in Nat
          /\ Elements(todo')
               = Elements(todo) - (IF Awaits(todo[1]) THEN 1 ELSE 0)
      BY <2>3, <2>4, <3>1, ElementsPushed
    <3> QED
      BY <3>2
  <2>9. Lexical(scan') /\ (~scan'.twice => Balanced(todo', scan'))
    <3>1. CASE scan' = scan
      <4>1. /\ Opened(scan.curly) \in Nat
            /\ Begun(scan.look.v) \in Nat /\ Ended(scan.look.v) \in Nat
        BY <2>1, BracesCounted DEF Lexical, Begun, Ended
      <4> QED
        BY <2>1, <2>8, <3>1, <4>1 DEF Balanced
    <3>2. CASE Passable /\ \E strict : scan' \in Lexed(scan, strict)
      <4>1. PICK strict : scan' \in Lexed(scan, strict)
        BY <3>2
      <4>2. /\ Lexical(scan') /\ scan'.twice = scan.twice
            /\ Opened(scan.curly) \in Nat /\ Opened(scan'.curly) \in Nat
            /\ Opened(scan.curly) + Begun(scan'.look.v)
                 <= Opened(scan'.curly) + Ended(scan'.look.v)
        BY <2>1, <4>1, Lexing DEF Lexical
      <4>3. Begun(scan.look.v) = 0 /\ Ended(scan.look.v) = 0
        BY <1>2, <2>1, <3>2 DEF NoPiece, Passable, Lexical, look, Begun, Ended
      <4>4. Begun(scan'.look.v) \in Nat /\ Ended(scan'.look.v) \in Nat
        BY DEF Begun, Ended
      <4>5. ~scan.twice => Elements(todo) <= Opened(scan.curly)
        BY <2>1, <2>8, <4>2, <4>3 DEF Balanced
      <4> QED
        BY <2>8, <4>2, <4>4, <4>5 DEF Balanced
    <3> QED
      BY <2>2, <3>1, <3>2 DEF Reads
  <2> QED
    BY <2>5, <2>7, <2>9 DEF TemplateInv
<1> QED
  BY <1>1, <1>2 DEF Serves

-----------------------------------------------------------------------------
\* What the calls that are not followed here may not be.
LEMMA IdleLists ==
  /\ AllIdle(<<>>)
  /\ \A a : Idle(a) => AllIdle(<<a>>)
  /\ \A a, b : Idle(a) /\ Idle(b) => AllIdle(<<a, b>>)
  /\ \A a, b, c : Idle(a) /\ Idle(b) /\ Idle(c) => AllIdle(<<a, b, c>>)
  /\ \A a, b, c, d : Idle(a) /\ Idle(b) /\ Idle(c) /\ Idle(d) => AllIdle(<<a, b, c, d>>)
  /\ \A a, b, c, d, e :
       Idle(a) /\ Idle(b) /\ Idle(c) /\ Idle(d) /\ Idle(e) => AllIdle(<<a, b, c, d, e>>)
  /\ \A a, b, c, d, e, f :
       Idle(a) /\ Idle(b) /\ Idle(c) /\ Idle(d) /\ Idle(e) /\ Idle(f)
         => AllIdle(<<a, b, c, d, e, f>>)
  /\ \A a, b, c, d, e, f, g :
       Idle(a) /\ Idle(b) /\ Idle(c) /\ Idle(d) /\ Idle(e) /\ Idle(f) /\ Idle(g)
         => AllIdle(<<a, b, c, d, e, f, g>>)
  /\ \A a : Bare(a) => AllBare(<<a>>)
  /\ \A a, b : Bare(a) /\ Bare(b) => AllBare(<<a, b>>)
  /\ \A a, b, c : Bare(a) /\ Bare(b) /\ Bare(c) => AllBare(<<a, b, c>>)
BY Tuples DEF AllIdle, AllBare

\* Two lists of idle instructions, one after the other, are one.
LEMMA IdleJoined == \A a, b : AllIdle(a) /\ AllIdle(b) => AllIdle(a \o b)
<1> SUFFICES ASSUME NEW a, NEW b, AllIdle(a), AllIdle(b) PROVE AllIdle(a \o b)
  OBVIOUS
<1> DEFINE S == Range(a) \cup Range(b)
<1>1. a \in Seq(S) /\ b \in Seq(S)
  BY DEF AllIdle
<1>2. /\ a \o b \in Seq(S) /\ Len(a \o b) = Len(a) + Len(b)
      /\ \A i \in 1 .. Len(a) + Len(b) : (a \o b)[i] = IF i <= Len(a) THEN a[i] ELSE b[i - Len(a)]
  BY <1>1
<1>3. Range(a \o b) \subseteq S
  BY <1>2 DEF Range
<1>4. a \o b \in Seq(Range(a \o b))
  BY <1>2, OwnRange
<1> QED
  BY <1>3, <1>4 DEF AllIdle

\* Eight idle instructions are an idle list.
LEMMA IdleEight ==
  \A a, b, c, d, e, f, g, h :
    Idle(a) /\ Idle(b) /\ Idle(c) /\ Idle(d) /\ Idle(e) /\ Idle(f) /\ Idle(g) /\ Idle(h)
      => AllIdle(<<a, b, c, d, e, f, g, h>>)
<1> SUFFICES ASSUME NEW a, NEW b, NEW c, NEW d, NEW e, NEW f, NEW g, NEW h,
                    Idle(a), Idle(b), Idle(c), Idle(d), Idle(e), Idle(f), Idle(g), Idle(h)
             PROVE  AllIdle(<<a, b, c, d, e, f, g, h>>)
  OBVIOUS
<1>1. <<a, b, c, d, e, f, g, h>> = <<a, b, c, d, e, f, g>> \o <<h>>
  OBVIOUS
<1>2. AllIdle(<<a, b, c, d, e, f, g>>) /\ AllIdle(<<h>>)
  BY IdleLists
<1> QED
  BY <1>1, <1>2, IdleJoined

\* An idle list after an instruction that takes the token is a list that one leads.
LEMMA LedJoined == \A x, b : Ready(x) /\ AllIdle(b) => Led(<<x>> \o b)
<1> SUFFICES ASSUME NEW x, NEW b, Ready(x), AllIdle(b) PROVE Led(<<x>> \o b)
  OBVIOUS
<1> DEFINE S == {x} \cup Range(b)
           t == <<x>> \o b
<1>1. b \in Seq(S) /\ b \in Seq(Range(b))
  BY DEF AllIdle
<1>2. /\ t \in Seq(S) /\ t # <<>> /\ t[1] = x /\ Len(b) \in Nat
      /\ DOMAIN t = 1 .. (Len(b) + 1) /\ DOMAIN b = 1 .. Len(b)
      /\ \A i \in 2 .. (Len(b) + 1) : t[i] = b[i - 1]
  BY <1>1
<1>3. t \in Seq(Range(t))
  BY <1>2, OwnRange
<1>4. \A i \in 1 .. Len(b) : Idle(b[i])
  <2>1. \A i \in 1 .. Len(b) : b[i] \in Range(b)
    BY <1>2 DEF Range
  <2> QED
    BY <2>1 DEF AllIdle
<1>5. \A i \in DOMAIN t : i > 1 => Idle(t[i])
  <2> SUFFICES ASSUME NEW i \in DOMAIN t, i > 1 PROVE Idle(t[i])
    OBVIOUS
  <2>1. PICK j \in 1 .. Len(b) : j = i - 1 /\ i \in 2 .. (Len(b) + 1)
    BY <1>2
  <2> QED
    BY <1>2, <1>4, <2>1
<1> QED
  BY <1>2, <1>3, <1>5 DEF Led

\* The same for lists that are written out.
LEMMA LedLists ==
  /\ \A x : Ready(x) => Led(<<x>>)
  /\ \A x, y : Ready(x) /\ Idle(y) => Led(<<x, y>>)
<1>1. ASSUME NEW x, Ready(x) PROVE Led(<<x>>)
  <2>1. <<x>> \in Seq(Range(<<x>>)) /\ <<x>> # <<>> /\ <<x>>[1] = x /\ DOMAIN <<x>> = {1}
    BY Tuples
  <2> QED
    BY <1>1, <2>1 DEF Led
<1>2. ASSUME NEW x, NEW y, Ready(x), Idle(y) PROVE Led(<<x, y>>)
  <2>1. /\ <<x, y>> \in Seq(Range(<<x, y>>)) /\ <<x, y>> # <<>>
        /\ <<x, y>>[1] = x /\ <<x, y>>[2] = y /\ DOMAIN <<x, y>> = {1, 2}
    BY Tuples
  <2> QED
    BY <1>2, <2>1 DEF Led
<1> QED
  BY <1>1, <1>2

\* The instructions that the actions push, by the names they have in JSMachine.
LEMMA IdleCalls ==
  /\ \A f : Still(f) => /\ Idle(Call(f)) /\ Idle(Isolate(f)) /\ Idle(Inherit(f)) /\ Idle(Peek(f))
                        /\ Bare(Call(f)) /\ Bare(Isolate(f))
  /\ \A f, a : Still(f) => Idle(CallWith(f, a))
  /\ \A f, a : f \in Indirect /\ Still(a) => Idle(CallWith(f, a))
  /\ \A v : Idle(Expect(v)) /\ Idle(ExpectKeyword(v))
  /\ \A n, k : Idle(Build(n, k))
  /\ Idle(Drop) /\ Idle(AddChild)
  /\ \A r : Idle(Put(r)) /\ Bare(Put(r))
  /\ \A is : AllBare(is) => Idle(CallWith("closeHead", is))
  /\ \A f \in Takers : Ready(Call(f)) /\ Ready(Inherit(f)) /\ Ready(Peek(f))
<1>1. \A f, a : Still(f) => Idle(CallWith(f, a)) /\ Bare(CallWith(f, a))
  BY DEF Idle, Bare, CallWith
<1>2. \A f, a : f \in Indirect /\ Still(a) => Idle(CallWith(f, a))
  BY DEF Idle, CallWith
<1>3. ASSUME NEW f, Still(f)
      PROVE  /\ Idle(Call(f)) /\ Idle(Isolate(f)) /\ Idle(Inherit(f)) /\ Idle(Peek(f))
             /\ Bare(Call(f)) /\ Bare(Isolate(f))
  <2>1. Idle(Call(f)) /\ Bare(Call(f))
    BY <1>1, <1>3 DEF Call
  <2>2. Bare(Isolate(f)) /\ Bare(Inherit(f))
    BY <1>3 DEF Isolate, Inherit, Call, CallWith, Bare, Wrappers
  <2>3. Idle(Peek(f))
    BY <1>2, <1>3 DEF Peek, Indirect
  <2> QED
    BY <2>1, <2>2, <2>3 DEF Idle
<1>4. /\ Still("expect") /\ Still("expectKeyword") /\ Still("build") /\ Still("drop")
      /\ Still("addChild") /\ Still("put")
  BY DEF Still, Takers, Wrappers, Indirect
<1>5. \A v : Idle(Expect(v)) /\ Idle(ExpectKeyword(v))
  BY <1>1, <1>4 DEF Expect, ExpectKeyword
<1>6. \A n, k : Idle(Build(n, k))
  BY <1>1, <1>4 DEF Build
<1>7. Idle(Drop) /\ Idle(AddChild)
  BY <1>3, <1>4 DEF Drop, AddChild
<1>8. \A r : Idle(Put(r)) /\ Bare(Put(r))
  BY <1>1, <1>4 DEF Put
<1>9. \A is : AllBare(is) => Idle(CallWith("closeHead", is))
  BY DEF Idle, CallWith
<1>10. \A f \in Takers : Ready(Call(f)) /\ Ready(Inherit(f)) /\ Ready(Peek(f))
  BY DEF Ready, Call, Inherit, Peek, CallWith
<1> QED
  BY <1>1, <1>2, <1>3, <1>5, <1>6, <1>7, <1>8, <1>9, <1>10

\* The forms in which the actions are written make plain steps.
LEMMA Services ==
  /\ \A c, v, is : AllIdle(is) /\ Go(c, v, is) => Serves
  /\ \A c, v, is : AllIdle(is) /\ Passable /\ GoNext(c, v, is) => Serves
  /\ \A is : AllIdle(is) /\ Then(is) => Serves
  /\ \A is : AllIdle(is) /\ Passable /\ Skip(is) => Serves
  /\ \A n, is : AllIdle(is) /\ Give(n, is) => Serves
  /\ \A is : AllIdle(is) /\ Do(is) /\ src' = src /\ scan' = scan => Serves
  /\ \A is, strict : AllIdle(is) /\ Passable /\ Do(is) /\ src' = src /\ nextToken(strict) => Serves
  /\ \A c, v, is : Led(is) /\ NoPiece /\ Go(c, v, is) => Serves
  /\ \A is : Led(is) /\ NoPiece /\ Then(is) => Serves
  /\ throw \/ throwFormatted \/ Fail("internal error") \/ Fail("assertion error") => Serves
<1>1. \A is : AllIdle(is) /\ Do(is) /\ src' = src /\ scan' = scan => Serves
  BY DEF Serves, Reads
<1>2. \A is, strict :
        AllIdle(is) /\ Passable /\ Do(is) /\ src' = src /\ nextToken(strict) => Serves
  BY DEF Serves, Reads, nextToken
<1>3. \A is : Led(is) /\ NoPiece /\ Do(is) /\ src' = src /\ scan' = scan => Serves
  BY DEF Serves
<1>4. \A c, v, is : Go(c, v, is) => Do(is) /\ src' = src /\ scan' = scan
  BY DEF Go
<1>5. \A c, v, is : GoNext(c, v, is) => Do(is) /\ src' = src /\ nextToken(c.strict)
  BY DEF GoNext
<1>6. throw \/ throwFormatted \/ Fail("internal error") \/ Fail("assertion error") => Serves
  BY DEF throw, throwFormatted, Fail, Serves
<1> QED
  BY <1>1, <1>2, <1>3, <1>4, <1>5, <1>6 DEF Then, Skip, Give

\* What is known of the call on top when a call there may take the token unseen.
Known == \A f \in Takers : At(f) => NoPiece

\* The functions parseStatement chooses among.
LEMMA StatementTakers ==
  \A v \in DOMAIN StatementFunction :
    StatementFunction[v] \in Takers \/ Still(StatementFunction[v])
<1>1. DOMAIN StatementFunction
        = {"break", "continue", "debugger", "do", "for", "function", "if", "return", "switch",
           "throw", "try", "var", "while", "with"}
  BY DEF StatementFunction
<1>2. /\ StatementFunction["break"] = "parseBreakStatement"
      /\ StatementFunction["continue"] = "parseContinueStatement"
      /\ StatementFunction["debugger"] = "parseDebuggerStatement"
      /\ StatementFunction["do"] = "parseDoWhileStatement"
      /\ StatementFunction["for"] = "parseForStatement"
      /\ StatementFunction["function"] = "functionItem"
      /\ StatementFunction["if"] = "parseIfStatement"
      /\ StatementFunction["return"] = "parseReturnStatement"
      /\ StatementFunction["switch"] = "parseSwitchStatement"
      /\ StatementFunction["throw"] = "parseThrowStatement"
      /\ StatementFunction["try"] = "parseTryStatement"
      /\ StatementFunction["var"] = "declarationStatement"
      /\ StatementFunction["while"] = "parseWhileStatement"
      /\ StatementFunction["with"] = "parseWithStatement"
  BY DEF StatementFunction
<1> QED
  BY <1>1, <1>2 DEF Takers, Still, Wrappers, Indirect

\* The loop over the operators takes a token only if it is one.
LEMMA OperatorServes == nextOperator => Serves
<1> SUFFICES ASSUME nextOperator PROVE Serves
  OBVIOUS
<1>1. Still("nextOperator") /\ Still("parseExponentiationExpression")
  BY DEF Still, Takers, Wrappers, Indirect
<1>2. /\ \A a : AllIdle(<<CallWith("nextOperator", a)>>)
      /\ \A a : AllIdle(<<Isolate("parseExponentiationExpression"), CallWith("nextOperator", a)>>)
      /\ AllIdle(<<>>)
  BY <1>1, IdleCalls, IdleLists
<1>3. binaryPrecedence(look) > 0 => Passable
  <2>1. PICK p : p = binaryPrecedence(look)
    OBVIOUS
  <2>2. p = 0 \/ Passable
    BY <2>1 DEF binaryPrecedence, Passable, NoPiece
  <2> QED
    BY <2>1, <2>2
<1>4. \/ \E v, a : Go(ctx, v, <<CallWith("nextOperator", a)>>)
      \/ /\ binaryPrecedence(look) > 0
         /\ \E a : Skip(<<Isolate("parseExponentiationExpression"), CallWith("nextOperator", a)>>)
      \/ Then(<<>>)
  BY Zenon DEF nextOperator
<1> QED
  BY <1>2, <1>3, <1>4, Services

\* The parser's small steps are such steps.
LEMMA MachineServes ==
  ASSUME Known
  PROVE  (\/ expect \/ expectKeyword \/ commaUnless \/ expectCommaSeparator \/ consumeSemicolon
          \/ endIsolate \/ endInherit \/ put \/ drop \/ addChild \/ build) => Serves
<1> USE Services, IdleLists, IdleJoined, IdleCalls, LedLists, LedJoined
        DEF Known, NoPiece, Passable, Still, Takers, Wrappers, Indirect, match, matchAny,
            matchKeyword, matchKeywords, matchContextualKeyword, isIdentifierName, AtEnd
<1>1. expect => Serves
  BY DEF expect
<1>2. expectKeyword => Serves
  BY DEF expectKeyword
<1>3. commaUnless => Serves
  BY DEF commaUnless
<1>4. expectCommaSeparator => Serves
  BY DEF expectCommaSeparator
<1>5. consumeSemicolon => Serves
  BY DEF consumeSemicolon
<1>6. endIsolate => Serves
  BY DEF endIsolate
<1>7. endInherit => Serves
  BY DEF endInherit
<1>8. put => Serves
  BY DEF put
<1>9. drop => Serves
  BY DEF drop
<1>10. addChild => Serves
  BY DEF addChild
<1>11. build => Serves
  BY DEF build
<1> QED
  BY <1>1, <1>2, <1>3, <1>4, <1>5, <1>6, <1>7, <1>8, <1>9, <1>10, <1>11

\* So are the actions of the expression grammar but those of templates and arguments.
LEMMA ExpressionServes ==
  ASSUME Known
  PROVE  (\/ parsePrimaryExpression \/ asyncPrimary \/ parseSpreadElement
          \/ parseArrayInitializer \/ arrayElement \/ afterSpread \/ parsePropertyMethod
          \/ endFunction \/ parsePropertyMethodFunction \/ parsePropertyMethodAsyncFunction
          \/ parseGetterMethod \/ parseSetterMethod \/ parseGeneratorMethod \/ checkArity
          \/ parseObjectPropertyKey \/ parseObjectInitializer \/ objectProperty \/ afterProperty
          \/ parseObjectProperty \/ identifierProperty \/ propertyValue \/ parseGroupExpression
          \/ groupFirst \/ arrowAhead \/ restArrow \/ groupNext \/ groupMore \/ groupItem
          \/ groupRestArrow \/ groupClosed \/ parseAsyncArgument \/ parseIdentifierName
          \/ parseNewExpression \/ newCallee \/ newTarget \/ newArguments
          \/ parseLeftHandSideExpressionAllowCall \/ superMember \/ parseLeftHandSideExpression
          \/ memberOrCall \/ endCall \/ parseUpdateExpression \/ prefixUpdate \/ postfixUpdate
          \/ parseUnaryExpression \/ endUnary \/ parseExponentiationExpression \/ power
          \/ endPower \/ parseBinaryExpression \/ firstOperator \/ nextOperator
          \/ parseConditionalExpression \/ conditional \/ parseAssignmentExpression
          \/ asyncArrow \/ asyncParameter \/ assignment \/ arrowBody \/ parseYieldExpression
          \/ yieldArgument \/ endYield \/ parseExpression \/ comma) => Serves
<1> USE Services, IdleLists, IdleJoined, IdleCalls, LedLists, LedJoined
        DEF Known, NoPiece, Passable, Still, Takers, Wrappers, Indirect, match, matchAny,
            matchKeyword, matchKeywords, matchContextualKeyword, isIdentifierName, AtEnd
<1>1. parsePrimaryExpression => Serves
  BY DEF parsePrimaryExpression
<1>2. asyncPrimary => Serves
  BY DEF asyncPrimary
<1>3. parseSpreadElement => Serves
  BY DEF parseSpreadElement
<1>4. parseArrayInitializer => Serves
  BY DEF parseArrayInitializer
<1>5. arrayElement => Serves
  BY DEF arrayElement, Hole
<1>6. afterSpread => Serves
  BY DEF afterSpread
<1>7. parsePropertyMethod => Serves
  BY DEF parsePropertyMethod
<1>8. endFunction => Serves
  BY DEF endFunction
<1>9. parsePropertyMethodFunction => Serves
  BY DEF parsePropertyMethodFunction, Method
<1>10. parsePropertyMethodAsyncFunction => Serves
  BY DEF parsePropertyMethodAsyncFunction, Method
<1>11. parseGetterMethod => Serves
  BY DEF parseGetterMethod, Method
<1>12. parseSetterMethod => Serves
  BY DEF parseSetterMethod, Method
<1>13. parseGeneratorMethod => Serves
  BY DEF parseGeneratorMethod, Method
<1>14. checkArity => Serves
  BY DEF checkArity
<1>15. parseObjectPropertyKey => Serves
  BY DEF parseObjectPropertyKey
<1>16. parseObjectInitializer => Serves
  BY DEF parseObjectInitializer
<1>17. objectProperty => Serves
  BY DEF objectProperty
<1>18. afterProperty => Serves
  BY DEF afterProperty
<1>19. parseObjectProperty => Serves
  BY DEF parseObjectProperty
<1>20. identifierProperty => Serves
  BY DEF identifierProperty
<1>21. propertyValue => Serves
  BY DEF propertyValue, IsAccessor, IsGenerator
<1>22. parseGroupExpression => Serves
  BY DEF parseGroupExpression
<1>23. groupFirst => Serves
  BY DEF groupFirst
<1>24. arrowAhead => Serves
  BY DEF arrowAhead
<1>25. restArrow => Serves
  BY DEF restArrow
<1>26. groupNext => Serves
  BY DEF groupNext
<1>27. groupMore => Serves
  BY DEF groupMore
<1>28. groupItem => Serves
  BY DEF groupItem
<1>29. groupRestArrow => Serves
  BY DEF groupRestArrow
<1>30. groupClosed => Serves
  BY DEF groupClosed
<1>31. parseAsyncArgument => Serves
  BY DEF parseAsyncArgument
<1>32. parseIdentifierName => Serves
  BY DEF parseIdentifierName
<1>33. parseNewExpression => Serves
  BY DEF parseNewExpression
<1>34. newCallee => Serves
  BY DEF newCallee
<1>35. newTarget => Serves
  BY DEF newTarget
<1>36. newArguments => Serves
  BY DEF newArguments
<1>37. parseLeftHandSideExpressionAllowCall => Serves
  BY DEF parseLeftHandSideExpressionAllowCall, HeadExpression
<1>38. superMember => Serves
  BY DEF superMember
<1>39. parseLeftHandSideExpression => Serves
  BY DEF parseLeftHandSideExpression, HeadExpression
<1>40. memberOrCall => Serves
  BY DEF memberOrCall, TemplateHead
<1>41. endCall => Serves
  BY DEF endCall
<1>42. parseUpdateExpression => Serves
  BY DEF parseUpdateExpression
<1>43. prefixUpdate => Serves
  BY DEF prefixUpdate
<1>44. postfixUpdate => Serves
  BY DEF postfixUpdate
<1>45. parseUnaryExpression => Serves
  BY DEF parseUnaryExpression
<1>46. endUnary => Serves
  BY DEF endUnary
<1>47. parseExponentiationExpression => Serves
  BY DEF parseExponentiationExpression
<1>48. power => Serves
  BY DEF power
<1>49. endPower => Serves
  BY DEF endPower
<1>50. parseBinaryExpression => Serves
  BY DEF parseBinaryExpression
<1>51. firstOperator => Serves
  BY DEF firstOperator, binaryPrecedence
<1>52. nextOperator => Serves
  BY OperatorServes
<1>53. parseConditionalExpression => Serves
  BY DEF parseConditionalExpression
<1>54. conditional => Serves
  BY DEF conditional
<1>55. parseAssignmentExpression => Serves
  BY DEF parseAssignmentExpression
<1>56. asyncArrow => Serves
  BY DEF asyncArrow
<1>57. asyncParameter => Serves
  BY DEF asyncParameter
<1>58. assignment => Serves
  BY DEF assignment, matchAssign
<1>59. arrowBody => Serves
  BY DEF arrowBody
<1>60. parseYieldExpression => Serves
  BY DEF parseYieldExpression
<1>61. yieldArgument => Serves
  BY DEF yieldArgument
<1>62. endYield => Serves
  BY DEF endYield
<1>63. parseExpression => Serves
  BY DEF parseExpression
<1>64. comma => Serves
  BY DEF comma
<1> QED
  BY <1>1, <1>2, <1>3, <1>4, <1>5, <1>6, <1>7, <1>8, <1>9, <1>10, <1>11, <1>12, <1>13, <1>14,
     <1>15, <1>16, <1>17, <1>18, <1>19, <1>20, <1>21, <1>22, <1>23, <1>24, <1>25, <1>26, <1>27,
     <1>28, <1>29, <1>30, <1>31, <1>32, <1>33, <1>34, <1>35, <1>36, <1>37, <1>38, <1>39, <1>40,
     <1>41, <1>42, <1>43, <1>44, <1>45, <1>46, <1>47, <1>48, <1>49, <1>50, <1>51, <1>52, <1>53,
     <1>54, <1>55, <1>56, <1>57, <1>58, <1>59, <1>60, <1>61, <1>62, <1>63, <1>64

\* So are those of the statement grammar.
LEMMA StatementServes ==
  ASSUME Known
  PROVE  (\/ openNames \/ dropNames \/ parseVariableIdentifier \/ parsePattern
          \/ parseArrayPattern \/ patternElement \/ parsePatternWithDefault \/ patternDefault
          \/ parseObjectPattern \/ patternProperty \/ parsePropertyPattern \/ shorthandPattern
          \/ parseRestElement \/ endRest \/ nextDeclarator \/ declarator \/ declared
          \/ lexicalInit \/ variableInit \/ declarationStatement \/ parseFormalParameters
          \/ formals \/ endParameter \/ parseFunctionDeclaration \/ parseDefaultFunction
          \/ parseFunctionExpression \/ functionStar \/ functionName \/ functionBody
          \/ parseFunctionSourceElements \/ functionStatements \/ statements
          \/ parseDirectivePrologues \/ directive \/ endDirective \/ parseStatementListItem
          \/ endItem \/ functionItem \/ classItem \/ importItem \/ letItem \/ parseStatement
          \/ asyncStatement \/ parseBlock \/ parseExpressionStatement \/ parseIfClause
          \/ parseIfStatement \/ elseClause \/ parseWithStatement \/ parseWhileStatement
          \/ parseDoWhileStatement \/ optionalSemicolon \/ parseForStatement \/ forInit
          \/ forLexical \/ forDeclared \/ forExpression \/ forTest \/ forUpdate
          \/ parseContinueStatement \/ parseBreakStatement \/ jumpTarget \/ knownLabel
          \/ allowedJump \/ parseReturnStatement \/ returnArgument \/ parseSwitchStatement
          \/ switchCase \/ secondDefault \/ caseStatements \/ parseLabelledStatement \/ label
          \/ labelled \/ labelledFunction \/ removeLabel \/ parseThrowStatement \/ throwArgument
          \/ parseTryStatement \/ catchOrFinally \/ finallyClause \/ catchParameter
          \/ catchPattern \/ endCatchPattern \/ parseDebuggerStatement) => Serves
<1> USE Services, IdleLists, IdleJoined, IdleCalls, LedLists, LedJoined
        DEF Known, NoPiece, Passable, Still, Takers, Wrappers, Indirect, match, matchAny,
            matchKeyword, matchKeywords, matchContextualKeyword, isIdentifierName, AtEnd
<1>1. openNames => Serves
  BY DEF openNames
<1>2. dropNames => Serves
  BY DEF dropNames
<1>3. parseVariableIdentifier => Serves
  BY DEF parseVariableIdentifier, BadVariable
<1>4. parsePattern => Serves
  BY DEF parsePattern
<1>5. parseArrayPattern => Serves
  BY DEF parseArrayPattern
<1>6. patternElement => Serves
  BY DEF patternElement
<1>7. parsePatternWithDefault => Serves
  BY DEF parsePatternWithDefault
<1>8. patternDefault => Serves
  BY DEF patternDefault
<1>9. parseObjectPattern => Serves
  BY DEF parseObjectPattern
<1>10. patternProperty => Serves
  BY DEF patternProperty
<1>11. parsePropertyPattern => Serves
  BY DEF parsePropertyPattern
<1>12. shorthandPattern => Serves
  BY DEF shorthandPattern
<1>13. parseRestElement => Serves
  BY DEF parseRestElement
<1>14. endRest => Serves
  BY DEF endRest
<1>15. nextDeclarator => Serves
  BY DEF nextDeclarator, Declarations
<1>16. declarator => Serves
  BY DEF declarator
<1>17. declared => Serves
  BY DEF declared
<1>18. lexicalInit => Serves
  BY DEF lexicalInit, Initializer
<1>19. variableInit => Serves
  BY DEF variableInit, Initializer
<1>20. declarationStatement => Serves
  BY DEF declarationStatement, Declarations
<1>21. parseFormalParameters => Serves
  BY DEF parseFormalParameters
<1>22. formals => Serves
  BY DEF formals
<1>23. endParameter => Serves
  BY DEF endParameter
<1>24. parseFunctionDeclaration => Serves
  BY DEF parseFunctionDeclaration, functionKeyword
<1>25. parseDefaultFunction => Serves
  BY DEF parseDefaultFunction, functionKeyword
<1>26. parseFunctionExpression => Serves
  BY DEF parseFunctionExpression, functionKeyword
<1>27. functionStar => Serves
  BY DEF functionStar
<1>28. functionName => Serves
  BY DEF functionName
<1>29. functionBody => Serves
  BY DEF functionBody
<1>30. parseFunctionSourceElements => Serves
  BY DEF parseFunctionSourceElements
<1>31. functionStatements => Serves
  BY DEF functionStatements
<1>32. statements => Serves
  BY DEF statements
<1>33. parseDirectivePrologues => Serves
  BY DEF parseDirectivePrologues
<1>34. directive => Serves
  BY DEF directive
<1>35. endDirective => Serves
  BY DEF endDirective
<1>36. parseStatementListItem => Serves
  BY DEF parseStatementListItem
<1>37. endItem => Serves
  BY DEF endItem
<1>38. functionItem => Serves
  BY DEF functionItem
<1>39. classItem => Serves
  BY DEF classItem
<1>40. importItem => Serves
  BY DEF importItem
<1>41. letItem => Serves
  BY DEF letItem
<1>42. parseStatement => Serves
  <2>1. ASSUME look.k = "Keyword", look.v \in DOMAIN StatementFunction,
               Then(<<Call(StatementFunction[look.v])>>)
        PROVE  Serves
    <3>1. StatementFunction[look.v] \in Takers \/ Still(StatementFunction[look.v])
      BY <2>1, StatementTakers
    <3> QED
      BY <2>1, <3>1
  <2> QED
    BY <2>1 DEF parseStatement
<1>43. asyncStatement => Serves
  BY DEF asyncStatement
<1>44. parseBlock => Serves
  BY DEF parseBlock
<1>45. parseExpressionStatement => Serves
  BY DEF parseExpressionStatement
<1>46. parseIfClause => Serves
  BY DEF parseIfClause
<1>47. parseIfStatement => Serves
  BY DEF parseIfStatement, Headed
<1>48. elseClause => Serves
  BY DEF elseClause
<1>49. parseWithStatement => Serves
  BY DEF parseWithStatement, Headed
<1>50. parseWhileStatement => Serves
  BY DEF parseWhileStatement, Headed, Loop
<1>51. parseDoWhileStatement => Serves
  BY DEF parseDoWhileStatement
<1>52. optionalSemicolon => Serves
  BY DEF optionalSemicolon
<1>53. parseForStatement => Serves
  BY DEF parseForStatement
<1>54. forInit => Serves
  BY DEF forInit, Declarations, RestoreIn, ForTest
<1>55. forLexical => Serves
  BY DEF forLexical, Declarations, RestoreIn, ForEach, Loop
<1>56. forDeclared => Serves
  BY DEF forDeclared, ForEach, ForTest, Loop
<1>57. forExpression => Serves
  BY DEF forExpression, ForEach, ForTest, Loop
<1>58. forTest => Serves
  BY DEF forTest
<1>59. forUpdate => Serves
  BY DEF forUpdate, Loop
<1>60. parseContinueStatement => Serves
  BY DEF parseContinueStatement, jump
<1>61. parseBreakStatement => Serves
  BY DEF parseBreakStatement, jump
<1>62. jumpTarget => Serves
  BY DEF jumpTarget
<1>63. knownLabel => Serves
  BY DEF knownLabel
<1>64. allowedJump => Serves
  BY DEF allowedJump
<1>65. parseReturnStatement => Serves
  BY DEF parseReturnStatement
<1>66. returnArgument => Serves
  BY DEF returnArgument
<1>67. parseSwitchStatement => Serves
  BY IdleEight DEF parseSwitchStatement
<1>68. switchCase => Serves
  BY DEF switchCase
<1>69. secondDefault => Serves
  BY DEF secondDefault
<1>70. caseStatements => Serves
  BY DEF caseStatements
<1>71. parseLabelledStatement => Serves
  BY DEF parseLabelledStatement
<1>72. label => Serves
  BY DEF label
<1>73. labelled => Serves
  BY DEF labelled
<1>74. labelledFunction => Serves
  BY DEF labelledFunction
<1>75. removeLabel => Serves
  BY DEF removeLabel
<1>76. parseThrowStatement => Serves
  BY DEF parseThrowStatement
<1>77. throwArgument => Serves
  BY DEF throwArgument
<1>78. parseTryStatement => Serves
  BY DEF parseTryStatement
<1>79. catchOrFinally => Serves
  BY DEF catchOrFinally
<1>80. finallyClause => Serves
  BY DEF finallyClause
<1>81. catchParameter => Serves
  BY DEF catchParameter
<1>82. catchPattern => Serves
  BY DEF catchPattern
<1>83. endCatchPattern => Serves
  BY DEF endCatchPattern
<1>84. parseDebuggerStatement => Serves
  BY DEF parseDebuggerStatement
<1> QED
  BY <1>1, <1>2, <1>3, <1>4, <1>5, <1>6, <1>7, <1>8, <1>9, <1>10, <1>11, <1>12, <1>13, <1>14,
     <1>15, <1>16, <1>17, <1>18, <1>19, <1>20, <1>21, <1>22, <1>23, <1>24, <1>25, <1>26, <1>27,
     <1>28, <1>29, <1>30, <1>31, <1>32, <1>33, <1>34, <1>35, <1>36, <1>37, <1>38, <1>39, <1>40,
     <1>41, <1>42, <1>43, <1>44, <1>45, <1>46, <1>47, <1>48, <1>49, <1>50, <1>51, <1>52, <1>53,
     <1>54, <1>55, <1>56, <1>57, <1>58, <1>59, <1>60, <1>61, <1>62, <1>63, <1>64, <1>65, <1>66,
     <1>67, <1>68, <1>69, <1>70, <1>71, <1>72, <1>73, <1>74, <1>75, <1>76, <1>77, <1>78, <1>79,
     <1>80, <1>81, <1>82, <1>83, <1>84

\* So are those for classes, imports and exports.
LEMMA ModuleServes ==
  ASSUME Known
  PROVE  (\/ parseClass \/ parseClassExpression \/ className \/ heritage \/ classElement
          \/ elementKey \/ asyncElement \/ elementValue \/ endElement \/ parseModuleSpecifier
          \/ fromClause \/ parseNamedImports \/ namedImport \/ parseImportSpecifier \/ importAs
          \/ parseImportNamespaceSpecifier \/ namespaceAs \/ parseImportDeclaration
          \/ importClause \/ afterDefaultImport \/ moreImports \/ parseExportDeclaration
          \/ exported \/ exportDefault \/ exportDefaultAsync \/ exportAsync \/ exportSpecifiers
          \/ afterDefaultExport \/ exportBraces \/ exportSpecifier \/ exportAs \/ endExport
          \/ parseScript \/ parseModule \/ program) => Serves
<1> USE Services, IdleLists, IdleJoined, IdleCalls, LedLists, LedJoined
        DEF Known, NoPiece, Passable, Still, Takers, Wrappers, Indirect, match, matchAny,
            matchKeyword, matchKeywords, matchContextualKeyword, isIdentifierName, AtEnd
<1>1. parseClass => Serves
  BY DEF parseClass
<1>2. parseClassExpression => Serves
  BY DEF parseClassExpression
<1>3. className => Serves
  BY DEF className
<1>4. heritage => Serves
  BY DEF heritage
<1>5. classElement => Serves
  BY DEF classElement
<1>6. elementKey => Serves
  BY DEF elementKey
<1>7. asyncElement => Serves
  BY DEF asyncElement
<1>8. elementValue => Serves
  BY DEF elementValue
<1>9. endElement => Serves
  BY DEF endElement
<1>10. parseModuleSpecifier => Serves
  BY DEF parseModuleSpecifier
<1>11. fromClause => Serves
  BY DEF fromClause, throwContent
<1>12. parseNamedImports => Serves
  BY DEF parseNamedImports
<1>13. namedImport => Serves
  BY DEF namedImport
<1>14. parseImportSpecifier => Serves
  BY DEF parseImportSpecifier
<1>15. importAs => Serves
  BY DEF importAs
<1>16. parseImportNamespaceSpecifier => Serves
  BY DEF parseImportNamespaceSpecifier
<1>17. namespaceAs => Serves
  BY DEF namespaceAs
<1>18. parseImportDeclaration => Serves
  BY DEF parseImportDeclaration
<1>19. importClause => Serves
  BY DEF importClause
<1>20. afterDefaultImport => Serves
  BY DEF afterDefaultImport
<1>21. moreImports => Serves
  BY DEF moreImports
<1>22. parseExportDeclaration => Serves
  BY DEF parseExportDeclaration
<1>23. exported => Serves
  BY DEF exported
<1>24. exportDefault => Serves
  BY DEF exportDefault, throwContent
<1>25. exportDefaultAsync => Serves
  BY DEF exportDefaultAsync
<1>26. exportAsync => Serves
  BY DEF exportAsync
<1>27. exportSpecifiers => Serves
  BY DEF exportSpecifiers
<1>28. afterDefaultExport => Serves
  BY DEF afterDefaultExport
<1>29. exportBraces => Serves
  BY DEF exportBraces
<1>30. exportSpecifier => Serves
  BY DEF exportSpecifier
<1>31. exportAs => Serves
  BY DEF exportAs
<1>32. endExport => Serves
  BY DEF endExport
<1>33. parseScript => Serves
  BY DEF parseScript
<1>34. parseModule => Serves
  BY DEF parseModule
<1>35. program => Serves
  <2>1. CASE AtEnd
    BY <2>1 DEF program, Serves
  <2>2. CASE ~AtEnd
    BY <2>2 DEF program
  <2> QED
    BY <2>1, <2>2
<1> QED
  BY <1>1, <1>2, <1>3, <1>4, <1>5, <1>6, <1>7, <1>8, <1>9, <1>10, <1>11, <1>12, <1>13, <1>14,
     <1>15, <1>16, <1>17, <1>18, <1>19, <1>20, <1>21, <1>22, <1>23, <1>24, <1>25, <1>26, <1>27,
     <1>28, <1>29, <1>30, <1>31, <1>32, <1>33, <1>34, <1>35
-----------------------------------------------------------------------------
\* What the call on top may be given to run, and when it may take the token unseen.
LEMMA OnTop ==
  ASSUME TemplateInv, status = "parsing", ~src.tolerant, todo # <<>>
  PROVE  /\ Known
         /\ \A f \in Indirect \ {"peek"} : At(f) => Still(arg)
         /\ At("peek") => Still(arg) \/ (arg \in Takers /\ look.k # "Template")
         /\ At("isolateCoverGrammar") => Still(arg.f)
         /\ At("inheritCoverGrammar") => Still(arg.f) \/ (arg.f \in Takers /\ look.k # "Template")
         /\ At("closeHead") => AllBare(arg)
<1>1. PICK x : x = todo[1]
  OBVIOUS
<1>2. Idle(x) \/ Awaits(x) \/ (Ready(x) /\ look.k # "Template")
  <2>1. todo \in Seq(Range(todo)) /\ Ranked(todo, look.k # "Template")
    BY DEF TemplateInv, Ranked
  <2>2. 1 \in DOMAIN todo
    BY <2>1
  <2> QED
    BY <1>1, <2>1, <2>2 DEF Ranked
<1>3. arg = x.a /\ \A f : At(f) <=> x.f = f
  BY <1>1 DEF arg, At
<1>4. \A f \in Takers : At(f) => ~Idle(x) /\ ~Awaits(x)
  BY <1>3 DEF Awaits, Idle, Bare, Still, Takers, Wrappers, Indirect
<1>5. \A f \in Indirect : At(f) => ~Awaits(x) /\ (Idle(x) => Still(arg))
  BY <1>3 DEF Awaits, Idle, Bare, Still, Takers, Wrappers, Indirect
<1>6. \A f \in Indirect : At(f) /\ Ready(x) => f = "peek" /\ arg \in Takers
  BY <1>3 DEF Ready, Takers, Wrappers, Indirect
<1>7. \A f \in Wrappers : At(f) => ~Awaits(x) /\ (Idle(x) => Still(arg.f))
  BY <1>3 DEF Awaits, Idle, Bare, Still, Takers, Wrappers, Indirect
<1>8. \A f \in Wrappers : At(f) /\ Ready(x) => f = "inheritCoverGrammar" /\ arg.f \in Takers
  BY <1>3 DEF Ready, Takers, Wrappers
<1>9. At("closeHead") => ~Awaits(x) /\ ~Ready(x) /\ (Idle(x) => AllBare(arg))
  BY <1>3 DEF Awaits, Ready, Idle, Bare, Still, Takers, Wrappers, Indirect
<1>10. Known
  BY <1>2, <1>4 DEF Known, NoPiece
<1>11. \A f \in Indirect \ {"peek"} : At(f) => Still(arg)
  BY <1>2, <1>5, <1>6
<1>12. At("peek") => Still(arg) \/ (arg \in Takers /\ look.k # "Template")
  BY <1>2, <1>5, <1>6 DEF Indirect
<1>13. /\ At("isolateCoverGrammar") => Still(arg.f)
       /\ At("inheritCoverGrammar") => Still(arg.f) \/ (arg.f \in Takers /\ look.k # "Template")
  BY <1>2, <1>7, <1>8 DEF Wrappers
<1>14. At("closeHead") => AllBare(arg)
  BY <1>2, <1>9
<1> QED
  BY <1>10, <1>11, <1>12, <1>13, <1>14

\* Of a tolerant parser all that counts is that it stays one.
LEMMA Tolerating ==
  ASSUME src.tolerant
  PROVE  (\/ isolateCoverGrammar \/ inheritCoverGrammar \/ closeHead \/ parseArguments
          \/ firstArgument \/ argument \/ afterArgument \/ nextArgument \/ peek
          \/ parseTemplateLiteral \/ parseTemplateElement) => Serves
<1>1. /\ \A c, v, is : Go(c, v, is) \/ GoNext(c, v, is) => Serves
      /\ \A is : Then(is) \/ Skip(is) => Serves
      /\ \A n, is : Give(n, is) => Serves
      /\ throw \/ Fail("assertion error") => Serves
  BY DEF Serves, Go, GoNext, Then, Skip, Give, throw, Fail
<1>2. peek => Serves
  BY DEF Serves, peek
<1>3. isolateCoverGrammar \/ inheritCoverGrammar \/ closeHead => Serves
  BY <1>1 DEF isolateCoverGrammar, inheritCoverGrammar, closeHead
<1>4. parseArguments \/ firstArgument \/ argument \/ afterArgument \/ nextArgument => Serves
  BY <1>1 DEF parseArguments, firstArgument, argument, afterArgument, nextArgument
<1>5. parseTemplateLiteral \/ parseTemplateElement => Serves
  BY <1>1 DEF parseTemplateLiteral, parseTemplateElement
<1> QED
  BY <1>2, <1>3, <1>4, <1>5

\* The steps that run the calls they were given are plain too.
LEMMA GivenServes ==
  ASSUME TemplateInv, status = "parsing", ~src.tolerant, todo # <<>>
  PROVE  (\/ isolateCoverGrammar \/ inheritCoverGrammar \/ closeHead \/ parseArguments
          \/ firstArgument \/ argument \/ afterArgument \/ nextArgument) => Serves
<1>1. isolateCoverGrammar => Serves
  <2> SUFFICES ASSUME isolateCoverGrammar PROVE Serves
    OBVIOUS
  <2>1. Idle(arg)
    BY OnTop DEF isolateCoverGrammar, Idle, Bare
  <2>2. \A a : Idle(CallWith("endIsolate", a))
    BY IdleCalls DEF Still, Takers, Wrappers, Indirect
  <2>3. \A a : AllIdle(<<arg, CallWith("endIsolate", a)>>)
    BY <2>1, <2>2, IdleLists
  <2> QED
    BY <2>3, Services DEF isolateCoverGrammar
<1>2. inheritCoverGrammar => Serves
  <2> SUFFICES ASSUME inheritCoverGrammar PROVE Serves
    OBVIOUS
  <2>1. Idle(arg) \/ (Ready(arg) /\ NoPiece)
    BY OnTop DEF inheritCoverGrammar, Idle, Bare, Ready, NoPiece
  <2>2. \A a : Idle(CallWith("endInherit", a))
    BY IdleCalls DEF Still, Takers, Wrappers, Indirect
  <2>3. \A a : \/ AllIdle(<<arg, CallWith("endInherit", a)>>)
               \/ Led(<<arg, CallWith("endInherit", a)>>) /\ NoPiece
    BY <2>1, <2>2, IdleLists, LedLists
  <2> QED
    BY <2>3, Services DEF inheritCoverGrammar
<1>3. closeHead => Serves
  <2> SUFFICES ASSUME closeHead PROVE Serves
    OBVIOUS
  <2>1. AllIdle(arg)
    BY OnTop DEF closeHead, AllBare, AllIdle, Idle
  <2>2. match(")") => Passable
    BY DEF match, Passable, NoPiece
  <2> QED
    BY <2>1, <2>2, Services DEF closeHead
<1>4. parseArguments => Serves
  BY OnTop, Services, IdleLists, IdleCalls DEF parseArguments, Indirect
<1>5. firstArgument => Serves
  BY OnTop, Services, IdleLists, IdleCalls DEF firstArgument, Indirect, Passable, NoPiece, match
<1>6. argument => Serves
  BY OnTop, Services, IdleLists, IdleCalls DEF argument, Still, Takers, Wrappers, Indirect
<1>7. afterArgument => Serves
  BY OnTop, Services, IdleLists, IdleCalls
     DEF afterArgument, Still, Takers, Wrappers, Indirect, Passable, NoPiece, match
<1>8. nextArgument => Serves
  BY OnTop, Services, IdleLists, IdleCalls DEF nextArgument, Indirect, Passable, NoPiece, match
<1> QED
  BY <1>1, <1>2, <1>3, <1>4, <1>5, <1>6, <1>7, <1>8

\* A look further ahead leaves the token, and what is awaited; if it changes the stack of
\* braces nothing more is claimed.
LEMMA PeekHolds ==
  ASSUME TemplateInv, status = "parsing", ~src.tolerant, todo # <<>>, peek
  PROVE  TemplateInv'
<1>1. /\ Lexical(scan) /\ Ranked(todo, look.k # "Template")
      /\ ~scan.twice => Balanced(todo, scan)
  BY DEF TemplateInv
<1>2. PICK d, x :
        /\ x \in Spellings(d.v, scan.curly)
        /\ scan' = [scan EXCEPT !.drawn = d, !.curly = CurlyAfter(x, @),
                                !.twice = @ \/ CurlyAfter(x, scan.curly) # scan.curly]
        /\ Do(<<CallWith(arg, Token(x, d.line))>>)
  <2>1. PICK d \in Draws(scan) : \E x \in Spellings(d.v, scan.curly) :
          /\ scan' = [scan EXCEPT !.drawn = d, !.curly = CurlyAfter(x, @),
                                  !.twice = @ \/ CurlyAfter(x, scan.curly) # scan.curly]
          /\ Do(<<CallWith(arg, Token(x, d.line))>>)
    BY DEF peek
  <2> QED
    BY <2>1
<1>3. /\ scan'.look = scan.look /\ scan'.curly = CurlyAfter(x, scan.curly)
      /\ DOMAIN scan' = DOMAIN scan
      /\ ~scan'.twice => ~scan.twice /\ scan'.curly = scan.curly
  BY <1>1, <1>2 DEF Lexical
<1>4. PICK y : y = CallWith(arg, Token(x, d.line))
  OBVIOUS
<1>5. Idle(y) \/ (Ready(y) /\ look.k # "Template")
  <2>1. Still(arg) \/ (arg \in Takers /\ look.k # "Template")
    BY OnTop DEF peek
  <2> QED
    BY <1>4, <2>1 DEF Idle, Bare, Ready, CallWith
<1>6. /\ todo' = <<y>> \o Tail(todo) /\ todo \in Seq(Range(todo))
      /\ <<y>> \in Seq(Range(<<y>>)) /\ <<y>>[1] = y /\ DOMAIN <<y>> = {1}
  BY <1>1, <1>2, <1>4, Tuples DEF Do, Ranked
<1>7. PICK q : q = (look'.k # "Template")
  OBVIOUS
<1>8. Ranked(todo', q)
  <2>1. \A i \in DOMAIN <<y>> : \/ Idle(<<y>>[i])
                                \/ Awaits(<<y>>[i])
                                \/ i = 1 /\ Ready(<<y>>[1]) /\ q
    BY <1>3, <1>5, <1>6, <1>7 DEF look
  <2> QED
    BY <1>1, <1>6, <2>1, Restacked
<1>9. Elements(todo) \in Nat /\ Elements(todo') \in Nat /\ Elements(todo') <= Elements(todo)
  <2>1. \A i \in DOMAIN <<y>> : ~Awaits(<<y>>[i])
    BY <1>5, <1>6, IdleAwaitsNone
  <2>2. /\ Elements(todo) \in Nat /\ Elements(todo') \in Nat
        /\ Elements(todo') = Elements(todo) - (IF Awaits(todo[1]) THEN 1 ELSE 0)
    BY <1>6, <2>1, ElementsPushed
  <2> QED
    BY <2>2
<1>10. Lexical(scan')
  <2>1. CurlyAfter(x, scan.curly) \in Seq(Range(CurlyAfter(x, scan.curly)))
    <3>1. PICK c : c = scan.curly
      OBVIOUS
    <3>2. c \in Seq(Range(c)) /\ x \in Spellings(d.v, c)
      BY <1>1, <1>2, <3>1 DEF Lexical
    <3> QED
      BY <3>1, <3>2, Braces
  <2> QED
    BY <1>1, <1>3, <2>1 DEF Lexical
<1>11. ~scan'.twice => Balanced(todo', scan')
  <2>1. /\ Opened(scan.curly) \in Nat
        /\ Begun(scan.look.v) \in Nat /\ Ended(scan.look.v) \in Nat
    BY <1>1, BracesCounted DEF Lexical, Begun, Ended
  <2> QED
    BY <1>1, <1>3, <1>9, <2>1 DEF Balanced
<1> QED
  BY <1>7, <1>8, <1>10, <1>11 DEF TemplateInv

\* A step that takes the token and awaits no more than the templates that are open by then.
LEMMA Took ==
  ASSUME TemplateInv, status = "parsing", ~src.tolerant, todo # <<>>,
         NEW is, is \in Seq(Range(is)), \A i \in DOMAIN is : Idle(is[i]) \/ Awaits(is[i]),
         Do(is), NEW strict, scan' \in Lexed(scan, strict),
         Elements(todo') \in Nat, ~scan.twice => Elements(todo') <= Opened(scan.curly)
  PROVE  TemplateInv'
<1>1. Lexical(scan) /\ Ranked(todo, look.k # "Template")
  BY DEF TemplateInv
<1>2. PICK q : q = (look'.k # "Template")
  OBVIOUS
<1>3. Ranked(todo', q)
  <2>1. todo' = is \o Tail(todo)
    BY DEF Do
  <2>2. \A i \in DOMAIN is : Idle(is[i]) \/ Awaits(is[i]) \/ (i = 1 /\ Ready(is[1]) /\ q)
    OBVIOUS
  <2> QED
    BY <1>1, <2>1, <2>2, Restacked
<1>4. /\ Lexical(scan') /\ scan'.twice = scan.twice
      /\ Opened(scan.curly) \in Nat /\ Opened(scan'.curly) \in Nat
      /\ Opened(scan.curly) + Begun(scan'.look.v)
           <= Opened(scan'.curly) + Ended(scan'.look.v)
  BY <1>1, Lexing DEF Lexical
<1>5. Begun(scan'.look.v) \in Nat /\ Ended(scan'.look.v) \in Nat
  BY DEF Begun, Ended
<1>6. ~scan'.twice => Balanced(todo', scan')
  BY <1>4, <1>5 DEF Balanced
<1> QED
  BY <1>2, <1>3, <1>4, <1>6 DEF TemplateInv

\* The call for the rest of a template adds one to what is awaited.
LEMMA ElementsAwaited ==
  \A s, t, a, b, c :
    /\ s \in Seq(Range(s)) /\ s # <<>> /\ t = <<a, b, c>> \o Tail(s)
    /\ ~Awaits(a) /\ ~Awaits(b) /\ Awaits(c)
    => /\ Elements(s) \in Nat /\ Elements(t) \in Nat
       /\ Elements(t) = Elements(s) + 1 - (IF Awaits(s[1]) THEN 1 ELSE 0)
<1> SUFFICES ASSUME NEW s, NEW t, NEW a, NEW b, NEW c,
                    s \in Seq(Range(s)), s # <<>>, t = <<a, b, c>> \o Tail(s),
                    ~Awaits(a), ~Awaits(b), Awaits(c)
             PROVE  /\ Elements(s) \in Nat /\ Elements(t) \in Nat
                    /\ Elements(t) = Elements(s) + 1 - (IF Awaits(s[1]) THEN 1 ELSE 0)
  OBVIOUS
<1>1. PICK A : A = Range(s) \cup {a, b, c}
  OBVIOUS
<1>2. PICK S : S = {x \in A : Awaits(x)}
  OBVIOUS
<1>3. /\ s \in Seq(A) /\ a \in A /\ b \in A /\ c \in A
      /\ a \notin S /\ b \notin S /\ c \in S
  BY <1>1, <1>2, SeqOver
<1>4. /\ Tail(s) \in Seq(A)
      /\ Cardinality(Hits(Tail(s), S)) = Cardinality(Hits(s, S)) - (IF s[1] \in S THEN 1 ELSE 0)
  BY <1>3, HitsTail
<1>5. PICK u : u = <<c>> \o Tail(s)
  OBVIOUS
<1>6. u \in Seq(A) /\ Cardinality(Hits(u, S)) = Cardinality(Hits(Tail(s), S)) + (IF c \in S THEN 1 ELSE 0)
  BY <1>3, <1>4, <1>5, HitsCons
<1>7. PICK v : v = <<b>> \o u
  OBVIOUS
<1>8. v \in Seq(A) /\ Cardinality(Hits(v, S)) = Cardinality(Hits(u, S)) + (IF b \in S THEN 1 ELSE 0)
  BY <1>3, <1>6, <1>7, HitsCons
<1>9. t = <<a>> \o v
  <2>1. PICK r : r = Tail(s)
    OBVIOUS
  <2>2. r \in Seq(A) /\ Len(r) \in Nat
    BY <1>4, <2>1
  <2>3. /\ u \in Seq(A) /\ Len(u) = Len(r) + 1 /\ u[1] = c
        /\ \A i \in 2 .. (Len(r) + 1) : u[i] = r[i - 1]
    <3>1. u = <<c>> \o r
      BY <1>5, <2>1
    <3> QED
      BY ONLY <1>3, <2>2, <3>1
  <2>4. /\ v \in Seq(A) /\ Len(v) = Len(u) + 1 /\ v[1] = b
        /\ \A i \in 2 .. (Len(u) + 1) : v[i] = u[i - 1]
    BY ONLY <1>3, <1>7, <2>3
  <2>5. PICK w : w = <<a>> \o v
    OBVIOUS
  <2>6. /\ w \in Seq(A) /\ Len(w) = Len(v) + 1 /\ w[1] = a
        /\ \A i \in 2 .. (Len(v) + 1) : w[i] = v[i - 1]
    BY ONLY <1>3, <2>4, <2>5
  <2>7. /\ t \in Seq(A) /\ Len(t) = Len(r) + 3 /\ t[1] = a /\ t[2] = b /\ t[3] = c
        /\ \A i \in 4 .. (Len(r) + 3) : t[i] = r[i - 3]
    <3>1. t = <<a, b, c>> \o r
      BY <2>1
    <3> QED
      BY ONLY <1>3, <2>2, <3>1
  <2>8. ASSUME NEW i \in 1 .. (Len(r) + 3) PROVE t[i] = w[i]
    <3>1. CASE i = 1
      BY ONLY <2>6, <2>7, <2>8, <3>1
    <3>2. CASE i = 2
      BY ONLY <2>2, <2>3, <2>4, <2>6, <2>7, <2>8, <3>2
    <3>3. CASE i = 3
      BY ONLY <2>2, <2>3, <2>4, <2>6, <2>7, <2>8, <3>3
    <3>4. CASE i \in 4 .. (Len(r) + 3)
      <4>1. w[i] = v[i - 1] /\ v[i - 1] = u[i - 2] /\ u[i - 2] = r[i - 3]
        BY ONLY <2>2, <2>3, <2>4, <2>6, <2>8, <3>4
      <4> QED
        BY ONLY <2>7, <3>4, <4>1
    <3> QED
      BY ONLY <2>2, <2>8, <3>1, <3>2, <3>3, <3>4
  <2>9. t = w
    BY ONLY <2>2, <2>3, <2>4, <2>6, <2>7, <2>8
  <2> QED
    BY ONLY <2>5, <2>9
<1>10. t \in Seq(A) /\ Cardinality(Hits(t, S)) = Cardinality(Hits(v, S)) + (IF a \in S THEN 1 ELSE 0)
  <2>1. ASSUME NEW r, r = <<a>> \o v
        PROVE  /\ r \in Seq(A)
               /\ Cardinality(Hits(r, S)) = Cardinality(Hits(v, S)) + (IF a \in S THEN 1 ELSE 0)
    BY ONLY <1>3, <1>8, <2>1, HitsCons
  <2> QED
    BY ONLY <1>9, <2>1
<1>11. Cardinality(Hits(s, S)) \in Nat /\ Cardinality(Hits(t, S)) \in Nat
  BY <1>3, <1>10, HitsFinite
<1>12. ASSUME NEW r \in Seq(A) PROVE Elements(r) = Cardinality(Hits(r, S))
  <2>1. \A i \in DOMAIN r : r[i] \in Range(r) /\ r[i] \in A
    BY <1>12 DEF Range
  <2>2. Hits(r, {x \in Range(r) : Awaits(x)}) = Hits(r, S)
    BY <1>2, <2>1 DEF Hits
  <2> QED
    BY <2>2 DEF Elements
<1>13. s[1] \in S <=> Awaits(s[1])
  <2>1. s[1] \in A
    BY <1>3
  <2> QED
    BY <1>2, <2>1
<1>14. Elements(s) = Cardinality(Hits(s, S)) /\ Elements(t) = Cardinality(Hits(t, S))
  BY <1>3, <1>10, <1>12
<1> QED
  BY <1>3, <1>4, <1>6, <1>8, <1>10, <1>11, <1>13, <1>14

\* The instructions for the rest of a template.
LEMMA ElementCalls ==
  \E a, b, c :
    /\ a = Call("parseExpression") /\ b = Drop /\ c = Call("parseTemplateElement")
    /\ Idle(a) /\ Idle(b) /\ ~Awaits(a) /\ ~Awaits(b) /\ Awaits(c)
<1>1. Idle(Call("parseExpression")) /\ Idle(Drop)
  BY IdleCalls DEF Still, Takers, Wrappers, Indirect
<1>2. Awaits(Call("parseTemplateElement"))
  BY DEF Awaits, Call, CallWith
<1> QED
  BY <1>1, <1>2, IdleAwaitsNone

\* A step that takes the piece of a template in which an expression begins.
LEMMA ExpressionAwaited ==
  /\ TemplateInv /\ status = "parsing" /\ ~src.tolerant /\ todo # <<>>
  /\ Skip(<<Call("parseExpression"), Drop, Call("parseTemplateElement")>>)
  /\ ~scan.twice =>
       Elements(todo) + 1 - (IF Awaits(todo[1]) THEN 1 ELSE 0) <= Opened(scan.curly)
  => TemplateInv'
<1> SUFFICES ASSUME TemplateInv, status = "parsing", ~src.tolerant, todo # <<>>,
                    Skip(<<Call("parseExpression"), Drop, Call("parseTemplateElement")>>),
                    ~scan.twice =>
                      Elements(todo) + 1 - (IF Awaits(todo[1]) THEN 1 ELSE 0)
                        <= Opened(scan.curly)
             PROVE  TemplateInv'
  OBVIOUS
<1>1. PICK a, b, c :
        /\ a = Call("parseExpression") /\ b = Drop /\ c = Call("parseTemplateElement")
        /\ Idle(a) /\ Idle(b) /\ ~Awaits(a) /\ ~Awaits(b) /\ Awaits(c)
  BY ElementCalls
<1>2. Do(<<a, b, c>>) /\ scan' \in Lexed(scan, ctx.strict)
  BY <1>1 DEF Skip, GoNext, nextToken
<1>3. /\ <<a, b, c>> \in Seq(Range(<<a, b, c>>))
      /\ \A i \in DOMAIN <<a, b, c>> : Idle(<<a, b, c>>[i]) \/ Awaits(<<a, b, c>>[i])
  <2>1. DOMAIN <<a, b, c>> = {1, 2, 3}
    OBVIOUS
  <2>2. Idle(<<a, b, c>>[1]) /\ Idle(<<a, b, c>>[2]) /\ Awaits(<<a, b, c>>[3])
    BY <1>1
  <2> QED
    BY <2>1, <2>2, Tuples
<1>4. todo \in Seq(Range(todo)) /\ todo' = <<a, b, c>> \o Tail(todo)
  BY <1>2 DEF TemplateInv, Ranked, Do
<1>5. /\ Elements(todo') \in Nat
      /\ Elements(todo') = Elements(todo) + 1 - (IF Awaits(todo[1]) THEN 1 ELSE 0)
  <2>1. PICK s, t : s = todo /\ t = todo'
    OBVIOUS
  <2>2. /\ s \in Seq(Range(s)) /\ s # <<>> /\ t = <<a, b, c>> \o Tail(s)
        /\ ~Awaits(a) /\ ~Awaits(b) /\ Awaits(c)
    BY <1>1, <1>4, <2>1
  <2>3. Elements(t) \in Nat /\ Elements(t) = Elements(s) + 1 - (IF Awaits(s[1]) THEN 1 ELSE 0)
    BY ONLY <2>2, ElementsAwaited
  <2> QED
    BY ONLY <2>1, <2>3
<1> QED
  BY <1>2, <1>3, <1>5, Took

\* The steps over the pieces of a template.
LEMMA TemplatesHold ==
  ASSUME TemplateInv, status = "parsing", ~src.tolerant, todo # <<>>,
         parseTemplateLiteral \/ parseTemplateElement
  PROVE  TemplateInv'
<1>1. /\ Lexical(scan) /\ todo \in Seq(Range(todo))
      /\ ~scan.twice => Balanced(todo, scan)
  BY DEF TemplateInv, Ranked
<1>2. Opened(scan.curly) \in Nat
  BY <1>1, BracesCounted DEF Lexical
<1>3. /\ <<>> \in Seq(Range(<<>>)) /\ DOMAIN <<>> = {} /\ AllIdle(<<>>)
  BY Tuples, IdleLists
<1>4. ASSUME NEW t, t = <<>> \o Tail(todo)
      PROVE  /\ Elements(todo) \in Nat /\ Elements(t) \in Nat
             /\ Elements(t) = Elements(todo) - (IF Awaits(todo[1]) THEN 1 ELSE 0)
  BY <1>1, <1>3, <1>4, ElementsPushed
<1>5. Elements(todo) \in Nat
  BY <1>4
<1>6. Serves => TemplateInv'
  BY Served
<1>7. look = scan.look
  BY DEF look
<1>8. ASSUME parseTemplateLiteral PROVE TemplateInv'
  <2>1. CASE ~TemplateHead
    <3>1. Fail("assertion error")
      BY ONLY <1>8, <2>1, Zenon DEF parseTemplateLiteral
    <3> QED
      BY ONLY <1>6, <3>1, Services
  <2>2. CASE TemplateHead /\ look.v = "quasi"
    <3>1. Passable
      BY <2>2 DEF Passable, NoPiece
    <3>2. \E e, n : AllIdle(e) /\ GoNext(ctx, n, e)
      BY <1>3, <1>8, <2>2 DEF parseTemplateLiteral
    <3>3. Serves
      BY ONLY <3>1, <3>2, Services
    <3> QED
      BY ONLY <1>6, <3>3
  <2>3. CASE TemplateHead /\ look.v # "quasi"
    <3>1. Skip(<<Call("parseExpression"), Drop, Call("parseTemplateElement")>>)
      BY <1>8, <2>3 DEF parseTemplateLiteral
    <3>2. Begun(scan.look.v) = 1 /\ Ended(scan.look.v) = 0
      BY <1>7, <2>3 DEF TemplateHead, Begun, Ended
    <3>3. ~Awaits(todo[1])
      BY <1>8 DEF parseTemplateLiteral, At, Awaits
    <3>4. ~scan.twice =>
            Elements(todo) + 1 - (IF Awaits(todo[1]) THEN 1 ELSE 0) <= Opened(scan.curly)
      BY <1>1, <1>2, <1>5, <3>2, <3>3 DEF Balanced
    <3> QED
      BY ONLY <3>1, <3>4, TemplateInv, status = "parsing", ~src.tolerant, todo # <<>>,
              ExpressionAwaited
  <2> QED
    BY <2>1, <2>2, <2>3
<1>9. ASSUME parseTemplateElement PROVE TemplateInv'
  <2>1. Awaits(todo[1])
    BY <1>9 DEF parseTemplateElement, At, Awaits
  <2>2. CASE look.k # "Template"
    <3>1. throw \/ Fail("assertion error")
      BY ONLY <1>9, <2>2, Zenon DEF parseTemplateElement
    <3> QED
      BY ONLY <1>6, <3>1, Services
  <2>3. CASE look.k = "Template" /\ look.v \in {"quasi", "}quasi"}
    <3>1. GoNext(ctx, <<Leaf("TemplateLiteral")>> \o vals, <<>>)
      BY <1>9, <2>3 DEF parseTemplateElement
    <3>2. Do(<<>>) /\ scan' \in Lexed(scan, ctx.strict)
      BY <3>1 DEF GoNext, nextToken
    <3>3. todo' = <<>> \o Tail(todo)
      BY <3>2 DEF Do
    <3>4. Elements(todo') \in Nat /\ Elements(todo') = Elements(todo) - 1
      BY <1>4, <2>1, <3>3
    <3>5. Begun(scan.look.v) = 0 /\ Ended(scan.look.v) \in {0, 1}
      BY <1>7, <2>3 DEF Begun, Ended
    <3>6. ~scan.twice => Elements(todo') <= Opened(scan.curly)
      BY <1>1, <1>2, <1>5, <3>4, <3>5 DEF Balanced
    <3>7. PICK e : e = <<>>
      OBVIOUS
    <3>8. /\ e \in Seq(Range(e)) /\ Do(e)
          /\ \A i \in DOMAIN e : Idle(e[i]) \/ Awaits(e[i])
      BY <1>3, <3>2, <3>7
    <3> QED
      BY ONLY <3>2, <3>4, <3>6, <3>8, TemplateInv, status = "parsing", ~src.tolerant,
              todo # <<>>, Took
  <2>4. CASE look.k = "Template" /\ look.v \notin {"quasi", "}quasi"}
    <3>1. Skip(<<Call("parseExpression"), Drop, Call("parseTemplateElement")>>)
      BY <1>9, <2>4 DEF parseTemplateElement
    <3>2. Begun(scan.look.v) \in {0, 1} /\ Ended(scan.look.v) = 0
      BY <1>7, <2>4 DEF Begun, Ended
    <3>3. ~scan.twice =>
            Elements(todo) + 1 - (IF Awaits(todo[1]) THEN 1 ELSE 0) <= Opened(scan.curly)
      BY <1>1, <1>2, <1>5, <2>1, <3>2 DEF Balanced
    <3> QED
      BY ONLY <3>1, <3>3, TemplateInv, status = "parsing", ~src.tolerant, todo # <<>>,
              ExpressionAwaited
  <2> QED
    BY <2>2, <2>3, <2>4
<1> QED
  BY <1>8, <1>9

\* The parser starts with nothing awaited.
LEMMA TemplatesBegin == Init => TemplateInv
<1> SUFFICES ASSUME Init, ~src.tolerant PROVE TemplateInv
  BY DEF TemplateInv
<1>1. PICK x : x = Call(IF src.module THEN "parseModule" ELSE "parseScript")
  OBVIOUS
<1>2. Idle(x) /\ ~Awaits(x)
  BY <1>1, IdleCalls, IdleAwaitsNone DEF Still, Takers, Wrappers, Indirect
<1>3. todo = <<x>>
  BY <1>1 DEF Init
<1>4. todo \in Seq(Range(todo)) /\ DOMAIN todo = {1} /\ todo[1] = x
  BY <1>3, Tuples
<1>5. Ranked(todo, look.k # "Template")
  BY <1>2, <1>4 DEF Ranked
<1>6. Elements(todo) = 0
  <2>1. Hits(todo, {y \in Range(todo) : Awaits(y)}) = {}
    BY <1>2, <1>4 DEF Hits
  <2> QED
    BY <2>1, FS_EmptySet DEF Elements
<1>7. PICK r : r = [at |-> 1, look |-> Token("EOF", 0), nl |-> FALSE, curly |-> <<>>,
                    drawn |-> NoLexeme, twice |-> FALSE]
  OBVIOUS
<1>8. scan \in Lexed(r, FALSE)
  BY <1>7 DEF Init
<1>9. r.curly \in Seq(Range(r.curly)) /\ Opened(r.curly) = 0
  <2>1. PICK c : c = <<>>
    OBVIOUS
  <2>2. r.curly = c
    BY <1>7, <2>1
  <2>3. c \in Seq(Range(c)) /\ DOMAIN c = {}
    BY <2>1, Tuples
  <2>4. Hits(c, {"${"}) = {}
    BY <2>3 DEF Hits
  <2> QED
    BY <2>2, <2>3, <2>4, FS_EmptySet DEF Opened
<1>10. /\ Lexical(scan) /\ Opened(scan.curly) \in Nat
       /\ Opened(r.curly) + Begun(scan.look.v) <= Opened(scan.curly) + Ended(scan.look.v)
  BY <1>8, <1>9, Lexing
<1>11. Balanced(todo, scan)
  BY <1>6, <1>9, <1>10 DEF Balanced
<1> QED
  BY <1>5, <1>10, <1>11 DEF TemplateInv

\* Every step keeps the templates that are awaited open.
LEMMA TemplatesInductive == IInv /\ TemplateInv /\ [Next]_vars => TemplateInv'
<1> SUFFICES ASSUME IInv, TemplateInv, [Next]_vars PROVE TemplateInv'
  OBVIOUS
<1>1. CASE UNCHANGED vars
  BY <1>1 DEF TemplateInv, vars, look
<1>2. CASE Next /\ status # "parsing"
  <2>1. Finished
    BY <1>2, Running DEF Next, IInv
  <2> QED
    BY <1>1, <2>1 DEF Finished
<1>3. CASE Next /\ status = "parsing"
  <2>1. todo # <<>>
    BY <1>3, Running DEF Next, Finished
  <2>2. Serves => TemplateInv'
    BY <1>3, <2>1, Served
  <2>3. Known
    <3>1. CASE src.tolerant
      BY <3>1 DEF Known, NoPiece
    <3>2. CASE ~src.tolerant
      BY <1>3, <2>1, <3>2, OnTop
    <3> QED
      BY <3>1, <3>2
  <2>4. ASSUME \/ isolateCoverGrammar \/ inheritCoverGrammar \/ closeHead \/ parseArguments
               \/ firstArgument \/ argument \/ afterArgument \/ nextArgument \/ peek
               \/ parseTemplateLiteral \/ parseTemplateElement
        PROVE  TemplateInv'
    <3>1. CASE src.tolerant
      BY <2>2, <2>4, <3>1, Tolerating
    <3>2. CASE ~src.tolerant
      BY <1>3, <2>1, <2>2, <2>4, <3>2, GivenServes, PeekHolds, TemplatesHold
    <3> QED
      BY <3>1, <3>2
  <2>5. CASE MachineStep
    BY <2>2, <2>3, <2>4, <2>5, MachineServes DEF MachineStep
  <2>6. CASE ExpressionStep
    BY <2>2, <2>3, <2>4, <2>6, ExpressionServes DEF ExpressionStep
  <2>7. CASE StatementStep
    BY <2>2, <2>3, <2>4, <2>7, StatementServes DEF StatementStep
  <2>8. CASE ModuleStep
    BY <2>2, <2>3, <2>8, ModuleServes DEF ModuleStep
  <2> QED
    BY <1>3, <2>5, <2>6, <2>7, <2>8 DEF Next, Finished
<1> QED
  BY <1>1, <1>2, <1>3

\* The balance is what TemplatesHeld reads off the stack and the lexer.
LEMMA TemplatesRead == TemplateInv => TemplatesHeld
<1> SUFFICES ASSUME TemplateInv, status = "parsing", ~src.tolerant, ~scan.twice
             PROVE  TemplatesHeld
  BY DEF TemplatesHeld
<1>1. Balanced(todo, scan) /\ todo \in Seq(Range(todo))
  BY DEF TemplateInv, Ranked
<1>2. AwaitedElements = Elements(todo)
  <2>1. \A i \in DOMAIN todo : todo[i] \in Range(todo)
    BY DEF Range
  <2>2. {i \in DOMAIN todo : todo[i].f = "parseTemplateElement"}
          = Hits(todo, {x \in Range(todo) : Awaits(x)})
    BY <2>1 DEF Hits, Awaits
  <2> QED
    BY <2>2 DEF AwaitedElements, Elements
<1>3. OpenTemplates = Opened(scan.curly)
  BY DEF OpenTemplates, Opened, Hits
<1> QED
  BY <1>1, <1>2, <1>3 DEF TemplatesHeld, Balanced, Begun, Ended, look

\* For every source text, while a parser that tolerates no error is in an expression of a
\* template, its lexer holds a `${` for every template element still to come, so that the
\* `}` after the expression goes on with the template (scanTemplate and the curlyStack of
\* JSLexer.py), unless a look further ahead has disturbed the stack of braces.
THEOREM TemplatesStayOpen == Spec => []TemplatesHeld
<1>1. Spec => []TemplateInv
  BY Scoping, TemplatesBegin, TemplatesInductive, PTL DEF Spec
<1> QED
  BY <1>1, TemplatesRead, PTL
=============================================================================
