---------------------------- MODULE HostValues ----------------------------
(***************************************************************************)
(* The values of the Soroban host and the functions contracts compute with *)
(* them: the host's representation (a Val is a small value or the handle   *)
(* of an object in the host's object table), the ledger's (ScVal), the     *)
(* conversions and the order of each, and the vectors, maps, byte strings, *)
(* symbols and wide integers built from them.                              *)
(*                                                                         *)
(* Pure operators over an object table `objs'.  A function that can fail   *)
(* returns the set of its results, empty when it fails.  One type stands   *)
(* for each kind of data: U64 for the unsigned numbers, I256 for the       *)
(* signed ones, Bytes also for strings and addresses.                      *)
(***************************************************************************)
EXTENDS Integers, Sequences, FiniteSets
LOCAL INSTANCE SequencesExt
LOCAL INSTANCE FiniteSetsExt

CONSTANTS
  WordMax,      \* largest word of an integer; also the largest u64
  SmallMax,     \* largest number that is a small Val (2^56 - 1 in the code)
  ByteMax,      \* largest byte
  U32Max,       \* largest length, index and memory position
  MemSize,      \* size of a contract's linear memory
  SymbolChars,  \* bytes allowed in a symbol
  SymbolLimit,  \* longest symbol
  DepthLimit    \* how deep a recursion over values may go

ASSUME ValuesAssumption ==
  /\ {WordMax, SmallMax, ByteMax, U32Max, MemSize, SymbolLimit, DepthLimit}
       \subseteq Nat
  /\ SmallMax <= WordMax /\ MemSize <= U32Max

\* The order of ScVal's discriminants, for the types that are modelled.
ScTypes == <<"Void", "U32", "U64", "I256", "Bytes", "Symbol", "Vec", "Map">>
ScRank(t) == CHOOSE i \in DOMAIN ScTypes : ScTypes[i] = t
ObjectTags == {"U64", "I256", "Bytes", "Symbol", "Vec", "Map"}

\* host_obj_discriminant numbers the object types itself.
host_obj_discriminant(o) ==
  CASE o.tag = "U64" -> 0 [] o.tag = "I256" -> 7 [] o.tag = "Bytes" -> 8
    [] o.tag = "Symbol" -> 10 [] o.tag = "Vec" -> 11 [] o.tag = "Map" -> 12

Small(t, n) == [tag |-> t, obj |-> FALSE, n |-> n]
Void == Small("Void", 0)
HostObject(t, d) == [tag |-> t, data |-> d]

\* Handles: relative objects have the low bit 0, absolute ones 1.
is_relative_object_handle(h) == h % 2 = 0
handle_to_index(h) == (h \div 2) + 1
index_to_handle(i, relative) == 2 * (i - 1) + (IF relative THEN 0 ELSE 1)
Ref(objs, i) ==
  [tag |-> objs[i].tag, obj |-> TRUE, n |-> index_to_handle(i, FALSE)]
Object(objs, v) == objs[handle_to_index(v.n)]

\* add_host_object: a new entry at the end of the table, and its handle.
add_host_object(objs, o) ==
  LET new == Append(objs, o) IN [objs |-> new, val |-> Ref(new, Len(new))]

\* The small form of a number, when it has one, and of a symbol.
IsSmall(n) == -SmallMax - 1 <= n /\ n <= SmallMax
SymbolBytes(n) == IF n = 0 THEN <<>> ELSE <<n>>

Only(c, x) == IF c THEN {x} ELSE {}

----------------------------------------------------------------------------
(* Order *)

\* What a comparison that recurses deeper than the limit returns.
Deep == 2
Cmp(a, b) == IF a < b THEN -1 ELSE IF a > b THEN 1 ELSE 0

\* Lexicographic order of two sequences under the order C of the elements.
Lex(a, b, C(_, _)) ==
  LET n == IF Len(a) < Len(b) THEN Len(a) ELSE Len(b)
      D == {i \in 1..n : C(a[i], b[i]) # 0}
  IN IF D = {} THEN Cmp(Len(a), Len(b)) ELSE C(a[Min(D)], b[Min(D)])

\* A map is compared as the sequence of its keys and values in turn.
Flat(m) == [i \in 1..(2 * Len(m)) |-> m[(i + 1) \div 2][IF i % 2 = 1 THEN 1 ELSE 2]]

SmallData(v) == IF v.tag = "Symbol" THEN SymbolBytes(v.n) ELSE v.n
CmpData(t, a, b) ==
  IF t \in {"Bytes", "Symbol"} THEN Lex(a, b, Cmp) ELSE Cmp(a, b)

\* An object against a small value: by value when the types agree, by type
\* otherwise.
try_compare_to_small(o, v) ==
  IF o.tag = v.tag THEN CmpData(o.tag, o.data, SmallData(v))
  ELSE Cmp(ScRank(o.tag), ScRank(v.tag))

RECURSIVE Compare(_, _, _, _)

\* Comparison of two objects, d levels of recursion left.
CompareObjects(objs, a, b, d) ==
  CASE d = 0 -> Deep
    [] d > 0 /\ a.tag # b.tag ->
         Cmp(host_obj_discriminant(a), host_obj_discriminant(b))
    [] d > 0 /\ a.tag = b.tag /\ a.tag = "Vec" ->
         Lex(a.data, b.data, LAMBDA x, y : Compare(objs, x, y, d - 1))
    [] d > 0 /\ a.tag = b.tag /\ a.tag = "Map" ->
         Lex(Flat(a.data), Flat(b.data), LAMBDA x, y : Compare(objs, x, y, d - 1))
    [] OTHER -> CmpData(a.tag, a.data, b.data)

Reversed(c) == IF c = Deep THEN Deep ELSE -c

obj_cmp_unreversed(objs, a, b, d) ==
  CASE a.obj /\ b.obj -> CompareObjects(objs, Object(objs, a), Object(objs, b), d)
    [] a.obj /\ ~b.obj -> try_compare_to_small(Object(objs, a), b)
    [] OTHER -> try_compare_to_small(Object(objs, b), a)
obj_cmp(objs, a, b, d) ==
  CASE a.obj /\ b.obj -> CompareObjects(objs, Object(objs, a), Object(objs, b), d)
    [] a.obj /\ ~b.obj -> try_compare_to_small(Object(objs, a), b)
    [] OTHER -> Reversed(try_compare_to_small(Object(objs, b), a))

\* The order of Vals: two small ones are compared without the host.
Compare(objs, a, b, d) ==
  CASE a.obj \/ b.obj -> obj_cmp(objs, a, b, d)
    [] ~(a.obj \/ b.obj) /\ a.tag # b.tag -> Cmp(ScRank(a.tag), ScRank(b.tag))
    [] OTHER -> CmpData(a.tag, SmallData(a), SmallData(b))

\* The order of ScVals, in which a wide integer is a pair of words.
RECURSIVE CompareScVal(_, _, _)
CompareScVal(a, b, d) ==
  CASE d = 0 -> Deep
    [] d > 0 /\ a.type # b.type -> Cmp(ScRank(a.type), ScRank(b.type))
    [] d > 0 /\ a.type = b.type /\ a.type = "Vec" ->
         Lex(a.body, b.body, LAMBDA x, y : CompareScVal(x, y, d - 1))
    [] d > 0 /\ a.type = b.type /\ a.type = "Map" ->
         Lex(Flat(a.body), Flat(b.body), LAMBDA x, y : CompareScVal(x, y, d - 1))
    [] d > 0 /\ a.type = b.type /\ a.type \in {"Bytes", "Symbol", "I256"} ->
         Lex(a.body, b.body, Cmp)
    [] OTHER -> Cmp(a.body, b.body)

----------------------------------------------------------------------------
(* Vectors: MeteredVector and the host functions over it.                  *)

vec_put(d, i, x) == Only(i < Len(d), ReplaceAt(d, i + 1, x))
vec_del(d, i) == Only(i < Len(d), RemoveAt(d, i + 1))
vec_push_front(d, x) == Only(Len(d) < U32Max, <<x>> \o d)
vec_push_back(d, x) == Only(Len(d) < U32Max, Append(d, x))
vec_pop_front(d) == Only(d # <<>>, Tail(d))
vec_pop_back(d) == Only(d # <<>>, Front(d))
vec_insert(d, i, x) ==
  Only(i <= Len(d) /\ Len(d) < U32Max, InsertAt(d, i + 1, x))
vec_append(d, e) == Only(Len(d) <= U32Max - Len(e), d \o e)
vec_slice(d, i, j) ==
  Only(i <= Len(d) /\ j <= Len(d) /\ i <= j, SubSeq(d, i + 1, j))
vec_get(d, i) == IF i < Len(d) THEN {d[i + 1]} ELSE {}
vec_front(d) == IF d # <<>> THEN {Head(d)} ELSE {}
vec_back(d) == IF d # <<>> THEN {Last(d)} ELSE {}

\* First and last index of a value, -1 for none (Void in the code).
Indices(objs, d, x) == {i \in DOMAIN d : Compare(objs, x, d[i], DepthLimit) = 0}
vec_first_index_of(objs, d, x) ==
  IF Indices(objs, d, x) = {} THEN -1 ELSE Min(Indices(objs, d, x)) - 1
vec_last_index_of(objs, d, x) ==
  IF Indices(objs, d, x) = {} THEN -1 ELSE Max(Indices(objs, d, x)) - 1

\* Binary search over the positions lo + 1 .. hi: whether the value is there,
\* and where it is or belongs; it fails when a comparison does.
RECURSIVE Search(_, _, _, _, _)
Search(objs, d, x, lo, hi) ==
  IF lo >= hi THEN {[found |-> FALSE, pos |-> lo]}
  ELSE LET mid == lo + ((hi - lo) \div 2)
           c == Compare(objs, d[mid + 1], x, DepthLimit)
       IN CASE c = 0 -> {[found |-> TRUE, pos |-> mid]}
            [] c = -1 -> Search(objs, d, x, mid + 1, hi)
            [] c = 1 -> Search(objs, d, x, lo, mid)
            [] OTHER -> {}
vec_binary_search(objs, d, x) == Search(objs, d, x, 0, Len(d))

----------------------------------------------------------------------------
(* Maps: MeteredOrdMap, a vector of pairs with strictly increasing keys.   *)

Keys(m) == [i \in DOMAIN m |-> m[i][1]]
map_values(m) == [i \in DOMAIN m |-> m[i][2]]
find(objs, m, k) == vec_binary_search(objs, Keys(m), k)

from_map_unchecked(objs, m) == Only(Len(m) <= U32Max, m)
from_map(objs, m) ==
  Only(/\ Len(m) <= U32Max
       /\ \A i \in 1..(Len(m) - 1) :
            Compare(objs, m[i][1], m[i + 1][1], DepthLimit) = -1, m)

map_put(objs, m, k, v) ==
  UNION { IF r.found THEN from_map(objs, ReplaceAt(m, r.pos + 1, <<k, v>>))
          ELSE IF Len(m) = U32Max THEN {}
          ELSE from_map(objs, InsertAt(m, r.pos + 1, <<k, v>>)) :
          r \in find(objs, m, k) }
map_del(objs, m, k) ==
  UNION { IF r.found THEN from_map(objs, RemoveAt(m, r.pos + 1)) ELSE {} :
          r \in find(objs, m, k) }
map_get(objs, m, k) ==
  UNION { IF r.found THEN {m[r.pos + 1][2]} ELSE {} : r \in find(objs, m, k) }
map_has(objs, m, k) == {r.found : r \in find(objs, m, k)}
map_key_by_pos(m, i) == IF i < Len(m) THEN {m[i + 1][1]} ELSE {}
map_val_by_pos(m, i) == IF i < Len(m) THEN {m[i + 1][2]} ELSE {}

----------------------------------------------------------------------------
(* Byte strings, symbols and linear memory                                 *)

u8_from_u32val_input(u) == Only(u <= ByteMax, u)
validate_usize_sum_fits_in_u32(a, b) == a + b <= U32Max
checked_range(pos, len, size) == pos + len <= U32Max /\ pos + len <= size

bytes_put(d, i, u) ==
  UNION { Only(i < Len(d), ReplaceAt(d, i + 1, b)) : b \in u8_from_u32val_input(u) }
bytes_del(d, i) == Only(i < Len(d), RemoveAt(d, i + 1))
bytes_push(d, u) ==
  UNION { Only(validate_usize_sum_fits_in_u32(Len(d), 1), Append(d, b)) :
          b \in u8_from_u32val_input(u) }
bytes_pop(d) == Only(d # <<>>, Front(d))
bytes_insert(d, i, u) ==
  UNION { Only(i <= Len(d) /\ validate_usize_sum_fits_in_u32(Len(d), 1),
               InsertAt(d, i + 1, b)) : b \in u8_from_u32val_input(u) }
bytes_append(d, e) == Only(validate_usize_sum_fits_in_u32(Len(d), Len(e)), d \o e)
bytes_slice(d, i, j) == vec_slice(d, i, j)

\* Bytes read from the memory into a copy of an object, which grows with
\* zeros when they reach past its end.
memobj_copy_from_linear_memory(d, obj_pos, lm_pos, bytes) ==
  LET end == obj_pos + Len(bytes)
      grown == [i \in 1..(IF Len(d) < end THEN end ELSE Len(d)) |->
                  IF i <= Len(d) THEN d[i] ELSE 0]
  IN Only(end <= U32Max /\ checked_range(lm_pos, Len(bytes), MemSize),
          [i \in DOMAIN grown |-> IF obj_pos < i /\ i <= end
                                  THEN bytes[i - obj_pos] ELSE grown[i]])
memobj_new_from_linear_memory(lm_pos, bytes) ==
  Only(checked_range(lm_pos, Len(bytes), MemSize), bytes)
memobj_copy_to_linear_memory(d, obj_pos, lm_pos, len) ==
  Only(checked_range(obj_pos, len, Len(d)) /\ checked_range(lm_pos, len, MemSize),
       SubSeq(d, obj_pos + 1, obj_pos + len))

\* ScSymbol::try_from_bytes
try_from_bytes(s) ==
  Only(Len(s) <= SymbolLimit /\ Range(s) \subseteq SymbolChars, s)

----------------------------------------------------------------------------
(* Numbers: words of a wide integer, and arithmetic that refuses overflow. *)

i256_from_pieces(hi, lo) == hi * (WordMax + 1) + lo
i256_into_pieces(n) == <<n \div (WordMax + 1), n % (WordMax + 1)>>
I256Max == i256_from_pieces(WordMax \div 2, WordMax)
I256Min == i256_from_pieces(-(WordMax \div 2) - 1, 0)
Checked(n) == Only(I256Min <= n /\ n <= I256Max, n)
i256_add(a, b) == Checked(a + b)
i256_sub(a, b) == Checked(a - b)
i256_mul(a, b) == Checked(a * b)

\* The number a Val of a numeric type stands for.
Number(objs, v) == IF v.obj THEN Object(objs, v).data ELSE v.n

----------------------------------------------------------------------------
(* Conversion between host values and ledger values                        *)

ScVal(t, b) == [type |-> t, body |-> b]

\* from_host_val, from_host_obj: the value of a Val.
RECURSIVE from_host_val(_, _)
from_host_val(objs, v) ==
  LET d == IF v.obj THEN Object(objs, v).data ELSE SmallData(v) IN
  CASE v.tag = "Vec" -> ScVal("Vec", [i \in DOMAIN d |-> from_host_val(objs, d[i])])
    [] v.tag = "Map" -> ScVal("Map", [i \in DOMAIN d |->
         <<from_host_val(objs, d[i][1]), from_host_val(objs, d[i][2])>>])
    [] v.tag = "I256" -> ScVal("I256", i256_into_pieces(d))
    [] OTHER -> ScVal(v.tag, d)

\* Levels of recursion the conversion of a value takes, in both directions.
RECURSIVE ScDepth(_)
ScDepth(s) ==
  1 + (IF s.type = "Vec" /\ s.body # <<>> THEN Max({ScDepth(s.body[i]) : i \in DOMAIN s.body})
       ELSE IF s.type = "Map" /\ s.body # <<>>
            THEN LET f == Flat(s.body) IN Max({ScDepth(f[i]) : i \in DOMAIN f})
            ELSE 0)
ScBody(objs, v) == Only(ScDepth(from_host_val(objs, v)) <= DepthLimit,
                        from_host_val(objs, v))

\* to_host_val, to_host_obj: the objects of a ScVal's parts are added before
\* its own; a number or a symbol that fits is not an object; a map must be
\* sorted and a symbol valid.  r carries the table and the Vals so far.
RECURSIVE ToHost(_, _), ToHostAll(_, _)
ToHost(objs, s) ==
  CASE s.type \in {"Void", "U32"} -> {[objs |-> objs, val |-> Small(s.type, s.body)]}
    [] s.type = "U64" ->
         {IF IsSmall(s.body) THEN [objs |-> objs, val |-> Small("U64", s.body)]
          ELSE add_host_object(objs, HostObject("U64", s.body))}
    [] s.type = "I256" ->
         LET n == i256_from_pieces(s.body[1], s.body[2])
         IN {IF IsSmall(n) THEN [objs |-> objs, val |-> Small("I256", n)]
             ELSE add_host_object(objs, HostObject("I256", n))}
    [] s.type = "Bytes" -> {add_host_object(objs, HostObject("Bytes", s.body))}
    [] s.type = "Symbol" ->
         {IF Len(b) <= 1
          THEN [objs |-> objs, val |-> Small("Symbol", IF b = <<>> THEN 0 ELSE b[1])]
          ELSE add_host_object(objs, HostObject("Symbol", b)) :
          b \in try_from_bytes(s.body)}
    [] s.type = "Vec" ->
         {add_host_object(r.objs, HostObject("Vec", r.vals)) :
          r \in ToHostAll(objs, s.body)}
    [] s.type = "Map" ->
         UNION { LET m == [i \in 1..Len(s.body) |-> <<r.vals[2*i - 1], r.vals[2*i]>>]
                 IN {add_host_object(r.objs, HostObject("Map", x)) :
                     x \in from_map(r.objs, m)} :
                 r \in ToHostAll(objs, Flat(s.body)) }
ToHostAll(objs, ss) ==
  IF ss = <<>> THEN {[objs |-> objs, vals |-> <<>>]}
  ELSE UNION { {[objs |-> x.objs, vals |-> Append(r.vals, x.val)] :
                x \in ToHost(r.objs, Last(ss))} : r \in ToHostAll(objs, Front(ss)) }
to_host_val(objs, s) == IF ScDepth(s) <= DepthLimit THEN ToHost(objs, s) ELSE {}
=============================================================================
