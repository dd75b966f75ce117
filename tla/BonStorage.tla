----------------------------- MODULE BonStorage -----------------------------
(***************************************************************************)
(* storage.bon: lists and dicts, which may share and contain each other,   *)
(* written as a pool of containers that refer to each other by address.    *)
(* The containers of a value are the nodes of a heap, its root is node 1;  *)
(* an item refers to a node or is a scalar.  Bytes are written as they     *)
(* are, gzip is left out.                                                  *)
(***************************************************************************)
EXTENDS Integers, Sequences, SequencesExt

Item(t, v) == [t |-> t, v |-> v]
Ref(i) == Item("ref", <<i>>)
Node(t, keys, items) == [t |-> t, keys |-> keys, items |-> items]

FirstWhere(P(_), s) == SelectInSeq(s, P)

(* The data that can be stored: characters that take at most two bytes,   *)
(* and integers of at most three.                                         *)
Abs(n) == IF n < 0 THEN -n ELSE n
Characters == 0..2047
Byte == 0..255
IsItem(h, v) ==
  /\ v.t \in {"ref", "bool", "int", "float"} => Len(v.v) = 1
  /\ v.t = "ref" => v.v[1] \in DOMAIN h
  /\ v.t = "int" => Abs(v.v[1]) < 2 ^ 24
  /\ v.t = "float" => v.v[1] \in Byte
  /\ v.t = "str" => v.v \in Seq(Characters)
  /\ v.t = "bytes" => v.v \in Seq(Byte)
ItemKinds == {"ref", "none", "bool", "int", "float", "str", "bytes"}
IsHeap(h) ==
  /\ h \in Seq([t : {"list", "dict"}, keys : Seq(Seq(Characters)), items : Seq([t : ItemKinds, v : Seq(Int)])])
  /\ h # <<>>
  /\ \A k \in DOMAIN h : /\ h[k].t = "dict" => Len(h[k].keys) = Len(h[k].items)
                         /\ \A j \in DOMAIN h[k].items : IsItem(h, h[k].items[j])

(* Data so deep that the calls of _gen_pool or of == run out of stack, for *)
(* which dumping raises a RecursionError as well, is left out.             *)
RecursionLimit == 900     \* of the interpreter's 1000 nested calls
IsShallow(h) == Len(h) * Len(h) <= RecursionLimit

-----------------------------------------------------------------------------
(* converter.py *)

(* The last bytes of n, signed or not: a negative n in two's complement. *)
Big(n, size) ==
  LET rest[i \in 0..size] == IF i = 0 THEN n ELSE rest[i - 1] \div 256
  IN  [i \in 1..size |-> rest[size - i] % 256]
FromBig(bytes) ==
  LET value[i \in 0..Len(bytes)] == IF i = 0 THEN 0 ELSE value[i - 1] * 256 + bytes[i]
  IN  value[Len(bytes)]

uint32_to_bytes(n) == Big(n, 4)

bit_length(n) == Cardinality({b \in 0..30 : (2 ^ b) <= Abs(n)})
(* As if there were always room for the sign. *)
spare_num_bytes(n) == bit_length(n) \div 8 + 1

num_bytes(n) == (bit_length(n) + 7) \div 8
Fits(n, size) == n = 0 \/ (size > 0 /\ n \in -(2 ^ (8 * size - 1))..(2 ^ (8 * size - 1) - 1))

int_to_bytes(n) ==
  LET size == num_bytes(n)
  IN  uint32_to_bytes(size) \o Big(n, size)

(* As if bytes were read without a sign. *)
unsigned(bytes) == FromBig(bytes)

signed(bytes) ==
  IF bytes # <<>> /\ bytes[1] >= 128 THEN FromBig(bytes) - 256 ^ Len(bytes) ELSE FromBig(bytes)

(* The characters that take one byte in UTF-8, and those that take two. *)
utf8(s) == FlattenSeq([i \in DOMAIN s |->
             IF s[i] < 128 THEN <<s[i]>> ELSE <<192 + s[i] \div 64, 128 + (s[i] % 64)>>])
Follows(b) == b \in 128..191
IsUtf8(bytes) ==
  \A i \in DOMAIN bytes :
    /\ bytes[i] >= 192 => i < Len(bytes) /\ Follows(bytes[i + 1])
    /\ Follows(bytes[i]) => i > 1 /\ bytes[i - 1] >= 192
decode8(bytes) ==
  LET starts == SelectSeq([i \in DOMAIN bytes |-> i], LAMBDA i : ~Follows(bytes[i]))
  IN  [k \in DOMAIN starts |->
         LET b == bytes[starts[k]] IN
         IF b < 128 THEN b ELSE (b - 192) * 64 + bytes[starts[k] + 1] - 128]

(* The length of a string is that of its characters, not of its bytes. *)
str_to_bytes(s) == uint32_to_bytes(Len(s)) \o utf8(s)

(* FLOAT_FLAG_*: every number but the infinities, even nan, which is not   *)
(* equal to itself, is eight bytes.                                        *)
Nan == 0
Inf == 1
NegInf == 2
float_to_bytes(x) ==
  CASE x = Inf -> <<2>> [] x = NegInf -> <<6>> [] OTHER -> <<8>> \o [i \in 1..8 |-> x]

-----------------------------------------------------------------------------
(* Python's == on items of heap h: containers are compared by what they    *)
(* hold, and two different ones that hold themselves without an end.       *)

Numeric == {"int", "bool"}
(* Behind as many comparisons as there are pairs of nodes, one comes again. *)
Enough(h) == Len(h) * (Len(h) - 1)

(* All that can be compared: the containers and their items. *)
Things(h) == {Ref(k) : k \in DOMAIN h} \cup UNION {Range(h[k].items) : k \in DOMAIN h}

PyEq(h, depth, x, y) ==
  LET eq[d \in 0..depth, a \in Things(h), b \in Things(h)] ==
        LET m == h[a.v[1]]
            n == h[b.v[1]]
            Other(k) == IF m.t = "list" THEN k ELSE FirstWhere(LAMBDA key : key = m.keys[k], n.keys)
            results == [k \in DOMAIN m.items |->
                          IF Other(k) = 0 THEN "different"
                          ELSE eq[d - 1, m.items[k], n.items[Other(k)]]]
            first == FirstWhere(LAMBDA r : r # "same", results)
        IN  IF a.t = "ref" /\ b.t = "ref"
              THEN IF a.v = b.v THEN "same"
                   ELSE IF d = 0 THEN "endless"
                   ELSE IF m.t # n.t \/ Len(m.items) # Len(n.items) THEN "different"
                   ELSE IF first = 0 THEN "same" ELSE results[first]
              ELSE IF (a.t = b.t \/ {a.t, b.t} = Numeric) /\ a.v = b.v /\ ~(a.t = "float" /\ a.v[1] = Nan)
                   THEN "same" ELSE "different"
  IN  eq[depth, x, y]

-----------------------------------------------------------------------------
(* encoder.py *)

Types == <<"ref", "none", "dict", "list", "int", "float", "str", "true", "false", "bytes">>
TypeByte(t) == CHOOSE b \in 0..9 : Types[b + 1] = t
MAGIC == <<66, 79, 78>>

(* Where the pool holds what item v is: 0 if nowhere; -1 for a comparison  *)
(* that does not end, a RecursionError.                                    *)
PoolIndex(h, pool, v) ==
  LET results == [k \in DOMAIN pool |-> PyEq(h, Enough(h), Ref(pool[k]), v)]
      first == FirstWhere(LAMBDA r : r # "different", results)
  IN  IF first > 0 /\ results[first] = "endless" THEN -1 ELSE first

Endless == <<0>>

(* The calls of _gen_pool as a loop: todo holds the items that calls have  *)
(* still to look at, the innermost call first.  A container enters the     *)
(* pool once, so that each item is looked at once at most.                 *)
Pooled(h, s) ==
  LET v == Head(s.todo) IN
  CASE s.todo = <<>> -> s
    [] s.todo # <<>> /\ (v.t # "ref" \/ PoolIndex(h, s.pool, v) > 0) -> [s EXCEPT !.todo = Tail(@)]
    [] s.todo # <<>> /\ v.t = "ref" /\ PoolIndex(h, s.pool, v) = -1 -> [pool |-> Endless, todo |-> <<>>]
    [] OTHER -> [pool |-> Append(s.pool, v.v[1]), todo |-> h[v.v[1]].items \o Tail(s.todo)]

gen_pool(h) ==
  LET steps == 1 + Len(FlattenSeq([k \in DOMAIN h |-> h[k].items]))
      visited[i \in 0..steps] ==
        IF i = 0 THEN [pool |-> <<>>, todo |-> <<Ref(1)>>] ELSE Pooled(h, visited[i - 1])
  IN  visited[steps].pool

encode_item(h, pool, v) ==
  CASE v.t = "ref" -> <<TypeByte("ref")>> \o uint32_to_bytes(PoolIndex(h, pool, v) - 1)
    [] v.t = "bool" -> <<TypeByte(IF v.v[1] = 1 THEN "true" ELSE "false")>>
    [] v.t = "int" -> <<TypeByte("int")>> \o int_to_bytes(v.v[1])
    [] v.t = "float" -> <<TypeByte("float")>> \o float_to_bytes(v.v[1])
    [] v.t = "str" -> <<TypeByte("str")>> \o str_to_bytes(v.v)
    [] v.t = "bytes" -> <<TypeByte("bytes")>> \o uint32_to_bytes(Len(v.v)) \o v.v
    [] OTHER -> <<TypeByte("none")>>

encode_encoded_pool(h, pool) ==
  FlattenSeq([k \in DOMAIN pool |->
    LET n == h[pool[k]] IN
    <<TypeByte(n.t)>> \o uint32_to_bytes(Len(n.items)) \o
    FlattenSeq([j \in DOMAIN n.items |->
      (IF n.t = "dict" THEN str_to_bytes(n.keys[j]) ELSE <<>>) \o encode_item(h, pool, n.items[j])])])

(* Encoding raises for two containers whose comparison does not end, and   *)
(* for an integer that does not fit.                                       *)
Unencodable(h) ==
  LET pool == gen_pool(h) IN
  \/ pool = Endless
  \/ \E k \in DOMAIN pool : \E j \in DOMAIN h[pool[k]].items :
       LET v == h[pool[k]].items[j] IN v.t = "int" /\ ~Fits(v.v[1], num_bytes(v.v[1]))

encode(h) ==
  LET pool == gen_pool(h) IN
  MAGIC \o <<TypeByte("ref")>> \o uint32_to_bytes(0)
    \o uint32_to_bytes(Len(pool)) \o encode_encoded_pool(h, pool)

-----------------------------------------------------------------------------
(* decoder.py, as a reader that stands at position p of the bytes w, and   *)
(* at 0 once it has raised.  Only containers of the pool hold items.       *)

Got(v, p) == [v |-> v, p |-> p]
Fail == Got(<<>>, 0)

(* As if a read past the end returned what is left. *)
TakeWhatIsLeft(w, p, n) ==
  IF p = 0 THEN Fail ELSE Got(SubSeq(w, p, Min({p + n - 1, Len(w)})), p + n)

(* ByteBuffer.assertHas: all of n bytes or none. *)
Take(w, p, n) ==
  IF p = 0 \/ p + n - 1 > Len(w) THEN Fail ELSE Got(SubSeq(w, p, p + n - 1), p + n)

(* What has raised is not read from any more. *)
Then(r, Use(_, _)) == IF r.p = 0 THEN Fail ELSE Use(r.v, r.p)
Repeat(n, start, More(_, _)) ==
  LET after[i \in 0..n] == IF i = 0 THEN start ELSE Then(after[i - 1], More)
  IN  after[n]

Number(w, p) == Then(Take(w, p, 4), LAMBDA v, q : Got(FromBig(v), q))
Sized(w, p) == Then(Number(w, p), LAMBDA n, q : Take(w, q, n))

str_from_bytes(w, p) ==
  Then(Sized(w, p), LAMBDA v, q : IF IsUtf8(v) THEN Got(decode8(v), q) ELSE Fail)

float_from_bytes(w, p) ==
  Then(Take(w, p, 1), LAMBDA flags, q :
    CASE flags = <<8>> -> Then(Take(w, q, 8), LAMBDA v, r : Got(SubSeq(v, 1, Min({1, Len(v)})), r))
      [] flags = <<2>> -> Got(<<Inf>>, q)
      [] flags = <<6>> -> Got(<<NegInf>>, q)
      [] OTHER -> Fail)

value_of_type(w, t, p) ==
  LET As(r, Value(_)) == Then(r, LAMBDA v, q : Got(Item(t, Value(v)), q))
  IN  CASE t = "ref" -> As(Number(w, p), LAMBDA v : <<v + 1>>)
        [] t = "int" -> As(Sized(w, p), LAMBDA v : <<signed(v)>>)
        [] t = "str" -> As(str_from_bytes(w, p), LAMBDA v : v)
        [] t = "float" -> As(float_from_bytes(w, p), LAMBDA v : v)
        [] t = "bytes" -> As(Sized(w, p), LAMBDA v : v)
        [] t = "true" -> Got(Item("bool", <<1>>), p)
        [] t = "false" -> Got(Item("bool", <<0>>), p)
        [] t = "none" -> Got(Item("none", <<>>), p)
        [] OTHER -> Fail

decode_raw_value(w, p) ==
  Then(Take(w, p, 1), LAMBDA kind, q :
    value_of_type(w, IF kind \in {<<b>> : b \in 0..9} THEN Types[kind[1] + 1] ELSE "unknown", q))

(* An entry of the pool: a dict or a list, and its items one by one.  The   *)
(* code also takes scalars and references for entries, and containers for  *)
(* items; encode never writes these, nor does a cut make one of them.      *)
decode_object(w, p) ==
  LET Key(t, q) == IF t = "dict" THEN str_from_bytes(w, q) ELSE Got(<<>>, q)
      Keys(t, keys, key) == IF t = "dict" THEN Append(keys, key) ELSE <<>>
      Entry(t, q) ==
        Then(Number(w, q), LAMBDA length, start :
          Repeat(length, Got(Node(t, <<>>, <<>>), start), LAMBDA node, r :
            Then(Key(t, r), LAMBDA key, afterKey :
              Then(decode_raw_value(w, afterKey), LAMBDA item, end :
                Got(Node(t, Keys(t, node.keys, key), Append(node.items, item)), end)))))
  IN  Then(Take(w, p, 1), LAMBDA kind, q :
        IF kind \in {<<2>>, <<3>>} THEN Entry(IF kind = <<2>> THEN "dict" ELSE "list", q) ELSE Fail)

Raised == <<>>

(* The heap that is read, or Raised: no file holds an empty heap. *)
decode(w) ==
  LET entry == Then(Take(w, 1, 3), LAMBDA magic, p :
                 IF magic = MAGIC THEN decode_raw_value(w, p) ELSE Fail)
      poolLength == Then(entry, LAMBDA v, p : Number(w, p))
      pool == Then(poolLength, LAMBDA n, start :
                Repeat(n, Got(<<>>, start), LAMBDA heap, p :
                  Then(decode_object(w, p), LAMBDA node, end : Got(Append(heap, node), end))))
  IN  pool.v
=============================================================================
